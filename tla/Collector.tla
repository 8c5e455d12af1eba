----------------------------- MODULE Collector ------------------------------
(***************************************************************************)
(* The two drivers of the collector.  PollCollector.run                    *)
(* (src/pipeline/collector.py) takes seed urls and feeds, fetches and      *)
(* sorts the articles and reads the reports among them.  The live-news     *)
(* pack (scripts/generate_collector_live_news_v1_pack.py) takes what       *)
(* DiscoveryPipelineV11.run (src/pipeline/discovery_v11.py) finds in feeds *)
(* and by queries, replaces what cannot be fetched by its summary, and     *)
(* completes what it reads.  Both hand their output to ingest as a payload *)
(* (src/pipeline/ingest_adapter.py).                                       *)
(***************************************************************************)
EXTENDS Extraction

CONSTANTS Findings,      \* what the sources may answer: [seeds, feeds, queries]
          Pages,         \* Pages[url]: what may be fetched there
          Summary,       \* Summary[url]: the page made of title, summary and query
          Policies,      \* of relative dates, as configured
          FeedLimit,     \* per_feed_limit and per_query_limit
          Target,        \* target_count
          Cutoff         \* the first day of publication that is kept

FoundLink ==
  [url : DOMAIN Summary, title : STRING, day : Nat, score : Int, google : BOOLEAN]
FoundSource == [name : STRING, up : BOOLEAN, items : Seq(FoundLink)]

ASSUME CollectorAssumption ==
  /\ Findings \subseteq [seeds : Seq(FoundLink), feeds : Seq(FoundSource), queries : Seq(FoundSource)]
  /\ Summary \in [DOMAIN Summary -> ArticlePage] /\ Pages \in [DOMAIN Summary -> SUBSET ArticlePage]
  /\ FeedLimit \in Nat /\ Target \in Nat /\ Cutoff \in Nat

VARIABLES driver,  \* "run" or "pack", with the policy
          phase,   \* "discover", "fetch" or "done"
          todo,    \* candidates still to be fetched
          chosen,  \* urls of all of them
          output   \* articles, observations, review rows; dropped and blocked articles

collectorVars == <<driver, phase, todo, chosen, output>>

NoOutput == [articles |-> <<>>, observations |-> <<>>, review |-> {}, dropped |-> {}, blocked |-> {}]

CollectorInit ==
  /\ driver \in [kind : {"run", "pack"}, policy : Policies]
  /\ phase = "discover" /\ todo = <<>> /\ chosen = {} /\ output = NoOutput

CollectorIdle ==
  /\ driver = [kind |-> "none", policy |-> "none"]
  /\ phase = "done" /\ todo = <<>> /\ chosen = {} /\ output = NoOutput

-----------------------------------------------------------------------------
(* Discovery.                                                              *)

Review(about, code) == [about |-> about, code |-> code]

SourceErrors(sources) ==
  {Review(<<"source", sources[i].name>>, "discover_error") :
     i \in {j \in DOMAIN sources : ~ sources[j].up}}

Items(source) == IF source.up THEN source.items ELSE <<>>

ByUrl(s) == Kept(s, {i \in DOMAIN s : \A j \in 1 .. i - 1 : s[j].url # s[i].url})

\* PollCollector.discover: seeds, then the links of the feeds.
DiscoverUrls(f) == ByUrl(f.seeds \o FlattenSeq([i \in DOMAIN f.feeds |-> Items(f.feeds[i])]))

\* _discover_from_publisher_feed and _discover_from_google_rss: the first so many that
\* sound like a poll.
Scored(source) ==
  LET items == Items(source)
      s == Kept(items, {i \in DOMAIN items : items[i].score > 0})
  IN SubSeq(s, 1, IF Len(s) < FeedLimit THEN Len(s) ELSE FeedLimit)

\* One source after the other until there are enough.
Gather(got, sources, enough) ==
  FoldLeft(LAMBDA g, s : IF Len(g.raw) >= enough THEN g
                         ELSE [raw |-> g.raw \o Scored(s), asked |-> Append(g.asked, s)],
           got, sources)

\* The feeds, and the queries when these have not given enough.
Gathered(f) ==
  LET feeds == Gather([raw |-> <<>>, asked |-> <<>>], f.feeds, 2 * Target)
  IN IF Len(feeds.raw) >= 2 * Target THEN feeds ELSE Gather(feeds, f.queries, 3 * Target)

\* _dedup: by url, and by title and day, among those kept so far.
Dedup(s) ==
  FoldLeft(LAMBDA kept, c :
             IF \E i \in DOMAIN kept : \/ kept[i].url = c.url
                                       \/ kept[i].title = c.title /\ kept[i].day = c.day
             THEN kept ELSE Append(kept, c), <<>>, s)

\* DiscoveryPipelineV11.run, up to the candidates it will fetch: the best scores first.
DiscoverCandidates(f) ==
  LET deduped == Dedup(Gathered(f).raw)
      Before(i, j) == \/ deduped[i].score > deduped[j].score
                      \/ deduped[i].score = deduped[j].score /\ i < j
      Rank(i) == Cardinality({j \in DOMAIN deduped : Before(j, i)}) + 1
      sorted == [k \in DOMAIN deduped |-> deduped[CHOOSE i \in DOMAIN deduped : Rank(i) = k]]
  IN SubSeq(sorted, 1, IF Len(sorted) < Target THEN Len(sorted) ELSE Target)

Discover(f) ==
  /\ phase = "discover"
  /\ todo' = IF driver.kind = "run" THEN DiscoverUrls(f) ELSE DiscoverCandidates(f)
  /\ chosen' = {todo'[i].url : i \in DOMAIN todo'}
  /\ output' = [output EXCEPT !.review =
       SourceErrors(IF driver.kind = "run" THEN f.feeds ELSE Gathered(f).asked)]
  /\ phase' = "fetch"
  /\ UNCHANGED driver

-----------------------------------------------------------------------------
(* One article.                                                            *)

\* classify
Classify(page) ==
  CASE page.opinion /\ page.keywords = 0 -> "NON_POLL"
    [] page.keywords >= 2 /\ page.percent /\ page.survey -> "POLL_REPORT"
    [] page.keywords >= 1 /\ page.percent /\ ~ (page.keywords >= 2 /\ page.survey) -> "POLL_MENTION"
    [] OTHER -> "NON_POLL"

Article(url, page) == [url |-> url, page |-> page]

\* What extract adds to the output; the pack completes each observation.
Extracted(out, url, page) ==
  LET Row(o) == [url |-> url, row |-> IF driver.kind = "pack" THEN Enriched(o, page) ELSE o]
      Reviews(o) == {Review(<<"observation", url, o.block>>, code) :
                       code \in ObservationReviews(page, o)}
      Added(got) ==
        [out EXCEPT
           !.observations = @ \o [k \in DOMAIN got.observations |-> Row(got.observations[k])],
           !.review = @ \cup {Review(<<"article", url>>, code) : code \in got.review}
             \cup UNION {Reviews(got.observations[k]) : k \in DOMAIN got.observations}]
  IN Added(Extract(page, driver.policy))

\* A mutant: a mention, and a report that does not pass the gate, leave no review row.
Handled_Silent(out, url, page) ==
  LET read == [out EXCEPT !.articles = Append(@, Article(url, page))]
  IN IF \E i \in DOMAIN out.articles : out.articles[i].page.signature = page.signature
     THEN [out EXCEPT !.dropped = @ \cup {Article(url, page)}]
     ELSE IF Classify(page) # "POLL_REPORT" \/ PreExtractGate(page) # "PASS" THEN read
     ELSE Extracted(read, url, page)

\* PollCollector.run with a page it has fetched: an article whose title, day and publisher
\* have been seen is dropped; only a report that passes the gate is read, a mention and
\* a report that does not are for review.
Handled(out, url, page) ==
  LET read == [out EXCEPT !.articles = Append(@, Article(url, page))]
      ForReview(code) == [read EXCEPT !.review = @ \cup {Review(<<"article", url>>, code)}]
  IN IF \E i \in DOMAIN out.articles : out.articles[i].page.signature = page.signature
     THEN [out EXCEPT !.dropped = @ \cup {Article(url, page)}]
     ELSE IF Classify(page) = "NON_POLL" THEN read
     ELSE IF Classify(page) = "POLL_MENTION" THEN ForReview("LOW_CONFIDENCE")
     ELSE IF PreExtractGate(page) # "PASS" THEN ForReview(PreExtractGate(page))
     ELSE Extracted(read, url, page)

\* The review rows of observations that stay incomplete.
Thresholded(out, url, page) ==
  [out EXCEPT !.review = @ \cup
     {Review(<<"observation", url, o.row.block>>, "LEGAL_COMPLETENESS_BELOW_THRESHOLD") :
        o \in {p \in {out.observations[i] : i \in DOMAIN out.observations} :
                 p.url = url /\ Incomplete(p.row, page)}}]

\* The pack with an article: too old, no poll, of a poor source, or read, a mention like a
\* report and without the gate.  The code fetches all before it reads the first.
Packed(out, url, page) ==
  IF page.published # 0 /\ page.published < Cutoff
  THEN [out EXCEPT !.review = @ \cup {Review(<<"article", url>>, "PUBLISHED_AT_BEFORE_CUTOFF")}]
  ELSE IF Classify(page) = "NON_POLL" \/ ~ page.quality
  THEN [out EXCEPT !.blocked = @ \cup {Article(url, page)}]
  ELSE Thresholded(Extracted([out EXCEPT !.articles = Append(@, Article(url, page))], url, page),
                   url, page)

FetchFailed(out, c) == [out EXCEPT !.review = @ \cup {Review(<<"article", c.url>>, "fetch_error")}]

\* The next candidate.  A fetch that fails has been tried three times; the pack goes on
\* with the summary then, and for a search result from the start.
FetchNext ==
  /\ phase = "fetch" /\ todo # <<>>
  /\ todo' = Tail(todo)
  /\ LET c == Head(todo)
     IN \/ /\ driver.kind = "pack" => ~ c.google
           /\ \E page \in Pages[c.url] :
                output' = IF driver.kind = "run" THEN Handled(output, c.url, page)
                          ELSE Packed(output, c.url, page)
        \/ output' = IF driver.kind = "run" THEN FetchFailed(output, c)
                     ELSE Packed(FetchFailed(output, c), c.url, Summary[c.url])
  /\ UNCHANGED <<driver, phase, chosen>>

FinishCollecting ==
  /\ phase = "fetch" /\ todo = <<>>
  /\ phase' = "done"
  /\ UNCHANGED <<driver, todo, chosen, output>>

CollectorNext == (\E f \in Findings : Discover(f)) \/ FetchNext \/ FinishCollecting

CollectorSpec == CollectorInit /\ [][CollectorNext]_collectorVars

-----------------------------------------------------------------------------
(* The payload.                                                            *)

\* collector_output_to_ingest_payload: a record for every observation whose article is
\* among the articles, with its options and each of their candidates once.
Payload ==
  LET Known(o) == \E i \in DOMAIN output.articles : output.articles[i].url = o.url
      Candidates(o) == {o.row.options[i].name : i \in DOMAIN o.row.options}
  IN {[key |-> <<o.url, o.row.block>>, options |-> o.row.options, candidates |-> Candidates(o)] :
        o \in {p \in {output.observations[i] : i \in DOMAIN output.observations} : Known(p)}}

-----------------------------------------------------------------------------
(* Properties.                                                             *)

Articles == {output.articles[i] : i \in DOMAIN output.articles}
Observations == {output.observations[i] : i \in DOMAIN output.observations}
PageOf(url) == (CHOOSE a \in Articles : a.url = url).page
ReviewOf(about) == {r.code : r \in {x \in output.review : x.about = about}}
Segments(o) == {o.row.block[k] : k \in DOMAIN o.row.block}

\* The values a segment, or the title, gives to a name for a scenario.
GivenBy(said, name) ==
  {said.races[k].leftValue : k \in {j \in DOMAIN said.races : said.races[j].left = name}}
    \cup {said.races[k].rightValue : k \in {j \in DOMAIN said.races : said.races[j].right = name}}
    \cup {said.anchor[k].value : k \in {j \in DOMAIN said.anchor : said.anchor[j].name = name}}

\* The values a name may get in the scenarios of an observation.
ScenarioValues(o, name) ==
  GivenBy(PageOf(o.url).title, name)
    \cup UNION {GivenBy(PageOf(o.url).segs[i], name) : i \in Segments(o)}

\* Nothing the collector has set out to fetch gets lost: every url ends as an observation,
\* as a review row, as the twin of an article that was kept, or as no poll or a poor
\* source; every observation without options has a review row; the payload has a record of
\* its own for every observation.
ArticlesAccountedFor ==
  phase = "done" =>
    /\ \A u \in chosen :
         \/ \E o \in Observations : o.url = u
         \/ ReviewOf(<<"article", u>>) # {}
         \/ \E d \in output.dropped : d.url = u /\ \E a \in Articles :
              a.page.signature = d.page.signature
         \/ \E a \in Articles \cup output.blocked :
              a.url = u /\ (Classify(a.page) = "NON_POLL" \/ (driver.kind = "pack" /\ ~ a.page.quality))
    /\ \A o \in Observations :
         /\ o.row.options = <<>> => ReviewOf(<<"observation", o.url, o.row.block>>) # {}
         /\ Cardinality({r \in Payload : r.key = <<o.url, o.row.block>>}) = 1
    /\ Cardinality(Payload) = Len(output.observations)

\* The surveys of one article are kept apart (issue 472) but for the numbers of its title:
\* every segment of the text is in one block; an option has a name, and a number for it, of
\* its own survey's text (and of the title's, when the article is one survey), unless the
\* number is one that this text or the title gives the name for a scenario, and the title's
\* may enter every survey of the article; every head-to-head number of the text is an option
\* of its survey, or has made way for such a number close to it; an observation whose text
\* names two pollsters is marked for review, and any other has the pollster and the sample
\* of one survey alone.  What a survey does not say of its sample the collector leaves open,
\* and the pack fills from the article or from the register of the same pollster.
SurveysKeptApart ==
  \A o \in Observations :
    LET page == PageOf(o.url)
        others == {p \in Observations : p.url = o.url}
        text == At(page, o.row.block)
        pairs == CandidatePairs(text, IF others = {o} THEN <<page.title>> ELSE <<>>)
        options == o.row.options
        own == {page.segs[i].sample : i \in Segments(o)} \ {0}
        named == {page.segs[i].pollster : i \in Segments(o)} \ {"none"}
        entries == Register[o.row.pollster]
    IN /\ UNION {Segments(p) : p \in others} = DOMAIN page.segs
       /\ \A p \in others \ {o} : Segments(p) \cap Segments(o) = {}
       /\ \A x \in DOMAIN options : \E k \in DOMAIN pairs :
            /\ options[x].name = pairs[k].name
            /\ options[x].value \in {pairs[k].value} \cup ScenarioValues(o, options[x].name)
       /\ \A i \in Segments(o) : \A k \in DOMAIN page.segs[i].duels :
            LET duel == page.segs[i].duels[k]
            IN \E x \in DOMAIN options :
                 /\ options[x].name = duel.name
                 /\ \/ options[x].value = duel.value
                    \/ /\ Distance(duel.value, options[x].value) <= Tolerance
                       /\ options[x].value \in ScenarioValues(o, duel.name)
       /\ "MULTIPLE_POLLSTER_TOKENS_IN_OBSERVATION" \in ReviewOf(<<"observation", o.url, o.row.block>>)
            \/ named = {} \/ named = {o.row.pollster}
       /\ IF own # {} THEN o.row.sample \in own
          ELSE \/ o.row.sample = 0
               \/ driver.kind = "pack" /\ o.row.sample \in
                    {page.segs[i].sample : i \in DOMAIN page.segs}
                      \cup {entries[i].sample : i \in DOMAIN entries}

\* Where the dates of an observation come from (docs/01_DATA_PIPELINE_STRATEGY.md, 6.1):
\* a period its own text gives is its period, and ends before it begins only if the text
\* says so, with its years or within one month; otherwise its end is not after the day the
\* article is known from, and an inferred end that is uncertain or estimated has a review
\* row.  Under strict_fail a day of collection dates nothing, and a relative date that could
\* not be resolved is reported.  The register dates only what is undated.
DatesJustified ==
  \A o \in Observations :
    LET page == PageOf(o.url)
        all == Said(At(page, o.row.block), "period")
        periods == {all[i] : i \in DOMAIN all}
        own == SurveyPeriod(page, At(page, o.row.block))[2] # 0
        entries == Register[o.row.pollster]
        registered == driver.kind = "pack" /\ \E i \in DOMAIN entries : entries[i].day = o.row.end
        relative == \E i \in DOMAIN Signals : Signals[i].word \in page.words
        reported == ReviewOf(<<"article", o.url>>)
    IN /\ own =>
            /\ \E p \in periods : p.exists /\ (o.row.end - p.end) % YearLength = 0
            /\ o.row.start <= o.row.end \/ (\E p \in periods : p.end < p.start /\ (p.year \/ ~ p.turns))
       /\ ~ own /\ o.row.end # 0 /\ ~ registered =>
            /\ o.row.end <= FirstDate(page)
            /\ relative \/ o.row.end = page.published
            /\ page.published = 0 => driver.policy = "allow_estimated_timestamp"
            /\ o.row.confidence < CertainFrom => reported # {}
       /\ page.published = 0 /\ page.collected # 0 /\ relative =>
            reported \cap {"RELATIVE_DATE_ESTIMATED", "RELATIVE_DATE_STRICT_FAIL"} # {}
=============================================================================
