----------------------------- MODULE MCServices -----------------------------
(***************************************************************************)
(* Services for TLC.                                                       *)
(***************************************************************************)
EXTENDS Services, TLC

CONSTANTS p1, p2, t1, t2, t3

MCServedBy == (t1 :> p1) @@ (t2 :> p1) @@ (t3 :> p2)
MCSubject == ("m1" :> [region |-> "sido", office |-> "mayor"])
               @@ ("m2" :> [region |-> "sigungu", office |-> "by"])
MCMerged == ("sido" :> "sido") @@ ("sigungu" :> "sido")
-----------------------------------------------------------------------------
(* Cases of the record rules.                                              *)

Row(name, value, key) == [name |-> name, value |-> value, key |-> key, whose |-> name]

\* Rows with these names, in order, each with one of the values.
RowsNamed(names, key) ==
  {[i \in DOMAIN names |-> Row(names[i], values[i], key)] :
     values \in [DOMAIN names -> {30, 40}]}
NameSequences(n) == [1 .. n -> {"a", "b", "c"}]

DefaultRows ==
  UNION {RowsNamed(names, Default) :
           names \in NameSequences(3) \cup {<<"a", "b", "a", "c">>, <<"c", "a", "b", "a">>,
                                            <<"a", "a", "b", "b">>, <<"b", "c", "a", "c">>}}

ExplicitRows ==
  {<<Row("a", 40, HeadToHead("a", "b")), Row("b", 30, HeadToHead("a", "b"))>>,
   <<Row("b", 40, Multi("b")), Row("a", 30, HeadToHead("a", "b"))>>,
   <<Row("c", 30, <<"scenario">>)>>}

MixedRows ==
  UNION {{e \o d : d \in UNION {RowsNamed(names, Default) : names \in NameSequences(1)
                                    \cup NameSequences(2)}} : e \in ExplicitRows}

Pair(l, lv, r, rv) == [left |-> l, leftValue |-> lv, right |-> r, rightValue |-> rv]
Item(name, value) == [name |-> name, value |-> value]

Lists == {<<>>, <<Item("a", 40), Item("b", 30), Item("c", 30)>>,
          <<Item("c", 41), Item("a", 30), Item("b", 20)>>}

Texts ==
  [multi : {TRUE}, twoway : BOOLEAN,
   pairs : {<<>>, <<Pair("a", 40, "b", 30)>>, <<Pair("a", 40, "b", 30), Pair("a", 41, "c", 30)>>,
            <<Pair("a", 30, "b", 40), Pair("b", 40, "c", 20)>>},
   items : Lists, anchor : {<<>>, <<Item("c", 30)>>}]
  \cup [multi : {FALSE}, twoway : BOOLEAN, pairs : {<<>>, <<Pair("a", 40, "b", 30)>>},
        items : {<<>>}, anchor : {<<>>}]

MCScenarioCases ==
  [rows : DefaultRows, text : {t \in Texts : ~ t.twoway \/ ~ t.multi}]
  \cup [rows : MixedRows, text : {t \in Texts : t.pairs = <<>> /\ t.anchor = <<>>}]

One == <<1, 0>>
District == <<1, 1>>
Two == <<2, 0>>
Says(office, place) == <<[office |-> office, place |-> place]>>

MCScopeCases ==
  {[title |-> title, body |-> body, survey |-> survey, office |-> "district",
    region |-> region, matchup |-> <<"district", region>>,
    regionRow |-> IF row THEN region ELSE NoRegion, scope |-> scope,
    audience |-> audience, population |-> population] :
     title \in {<<>>, Says("mayor", District)}, body \in {<<>>, Says("governor", Two)},
     survey \in {<<>>, Says("mayor", One), Says("mayor", District), Says("superintendent", One)},
     region \in {District, Two}, row \in BOOLEAN, scope \in Scopes \cup {"none"},
     audience \in {NoRegion, One, District},
     population \in
       {p \in [national : BOOLEAN, regional : BOOLEAN, local : BOOLEAN,
               region : {NoRegion, District, Two}] : ~ (p.national /\ p.local)}}

ApprovalOptions ==
  [type : {"presidential_approval", "party_support"}, signals : SUBSET {"job", "frame"},
   question : {{}, {"job"}}, noise : {FALSE}, party : {"none"}, inferred : BOOLEAN,
   confidence : {NoConfidence, 70, 90}, review : BOOLEAN]
CandidateOptions ==
  [type : {"candidate_matchup"}, signals : {{}}, question : {{}}, noise : BOOLEAN,
   party : {"none", "x"}, inferred : BOOLEAN, confidence : {NoConfidence, 70, 90},
   review : BOOLEAN]
NoContext == [listed |-> FALSE, parties |-> <<>>, registry |-> "absent"]
Contexts ==
  {c \in [listed : BOOLEAN, parties : {<<>>, <<"x">>, <<"y", "x">>, <<"x", "y", "x">>},
          registry : {"absent", "nameless", "x"}] : c.parties # <<>> => c.listed}

MCOptionCases ==
  [option : ApprovalOptions, context : {NoContext}]
    \cup [option : CandidateOptions, context : Contexts]

-----------------------------------------------------------------------------
(* The profiles of one candidate.                                          *)

P(party, job, career) == [party |-> party, job |-> job, career |-> career]

MCProfiles == {P("none", "none", "none"), P("x", "none", "none"), P("x", "farmer", "told"),
               P("none", "judge", "told")}
MCTypeCodes == <<"city", "district">>
Listed ==
  ("city" :> <<P("x", "judge", "none")>>)
    @@ ("district" :> <<P("y", "judge", "listed"), P("x", "none", "listed")>>)
    @@ ("reader" :> <<P("none", "judge", "listed"), P("y", "farmer", "none")>>)
MCRegistry == ("name" :> Listed) @@ ("noise" :> Listed)
                @@ ("unlisted" :> [code \in {"city", "district", "reader"} |-> <<>>])
-----------------------------------------------------------------------------
(* What the collector finds.                                               *)

Signal(word, offset, confidence) == [word |-> word, offset |-> offset, confidence |-> confidence]
MCSignals == <<Signal("last week", -1, 82), Signal("recently", 0, 45), Signal("days ago", -1, 90)>>
Registered(sample, start, day) == [sample |-> sample, start |-> start, day |-> day]
MCRegister == ("A" :> <<Registered(0, 3, 4), Registered(7, 0, 8)>>) @@ ("B" :> <<>>) @@ ("none" :> <<>>)

Segment(pollster, sample) ==
  [pollster |-> pollster, sample |-> sample, duels |-> <<>>, focus |-> FALSE, values |-> <<>>, loose |-> <<>>,
   period |-> <<>>, multi |-> FALSE, races |-> <<>>, anchor |-> <<>>]
Period(year, start, end, turns, exists) ==
  <<[year |-> year, start |-> start, end |-> end, turns |-> turns, exists |-> exists]>>
Duel(n) == <<Item("a", n), Item("b", n + 10)>>
NoTitle == [duels |-> <<>>, values |-> <<>>, multi |-> FALSE, races |-> <<>>, anchor |-> <<>>]

PageWith(segs) ==
  [signature |-> "s", published |-> 6, collected |-> 6, words |-> {}, keywords |-> 2,
   opinion |-> FALSE, percent |-> TRUE, survey |-> TRUE, policyOnly |-> FALSE, mapped |-> TRUE,
   quality |-> TRUE, sponsor |-> FALSE, title |-> NoTitle, segs |-> segs]

\* Two or three surveys, with numbers of each kind or none, after a beginning or not.
Numbered(seg, kind, n) ==
  CASE kind = "duel" -> [seg EXCEPT !.duels = Duel(n)]
    [] kind = "value" -> [seg EXCEPT !.focus = TRUE, !.values = <<Item("c", n)>>]
    [] kind = "loose" -> [seg EXCEPT !.loose = <<Item("c", n)>>]
    [] OTHER -> seg
SurveyPages ==
  {PageWith(head \o [i \in DOMAIN who |->
          Numbered(Segment(who[i], IF i = sampled THEN i ELSE 0), kinds[i], 10 * i)]) :
     head \in {<<>>, <<Segment("none", 5)>>}, who \in {<<"A", "B", "A">>, <<"B", "A", "A">>, <<"A", "A", "B">>},
     kinds \in [1 .. 3 -> {"none", "duel", "value", "loose"}], sampled \in 1 .. 2}

\* A title with two races and the multi-candidate word (tests/test_collector_extract.py:276),
\* or with part of it, over one or two surveys with three numbers or more, races of their own,
\* or words of an office without a number beside a name.
Races == <<Pair("a", 42, "b", 32), Pair("a", 44, "c", 33)>>
Titles ==
  {[duels |-> <<>>, values |-> <<Item("b", 32), Item("a", 44), Item("c", 33), Item("a", 27)>>,
    multi |-> multi, races |-> races, anchor |-> anchor] :
     multi \in BOOLEAN, races \in {<<>>, Races, <<Races[2]>>}, anchor \in {<<>>, <<Item("a", 27)>>}}
Polled(pollster, sample, a, races) ==
  [Segment(pollster, sample) EXCEPT !.focus = TRUE, !.multi = races # <<>>, !.races = races,
     !.values = <<Item("a", a), Item("b", 32), Item("c", 34), Item("d", 5)>>]
Office(pollster) == [Segment(pollster, 0) EXCEPT !.focus = TRUE, !.loose = <<Item("a", 44)>>]
TitledPages ==
  {[PageWith(segs) EXCEPT !.title = title] :
     title \in Titles \cup {NoTitle},
     segs \in {<<Office("A")>>, <<Polled("A", 1, 41, <<>>)>>, <<Polled("A", 1, 43, Races)>>}
       \cup {<<Polled("A", 1, a, races), second>> : a \in {41, 50}, races \in {<<>>, Races},
              second \in {Office("B"), Polled("B", 2, 27, <<Pair("a", 50, "d", 5)>>),
                         [Segment("B", 2) EXCEPT !.duels = Duel(42)]}}}

Periods ==
  {<<>>, Period(FALSE, 4, 4, FALSE, TRUE), Period(FALSE, 4, 1, TRUE, TRUE),
   Period(FALSE, 3, 2, FALSE, TRUE), Period(FALSE, 2, 2, FALSE, FALSE),
   Period(TRUE, 6, 5, FALSE, TRUE)}
DatePages ==
  {[PageWith(<<[Segment("A", 1) EXCEPT !.duels = Duel(10), !.period = p],
           [Segment("B", 2) EXCEPT !.duels = Duel(20), !.period = q]>>)
      EXCEPT !.published = day, !.words = words] :
     p, q \in Periods, day \in {0, 5, 6},
     words \in {{}, {"recently"}, {"days ago"}, {"recently", "days ago"}, {"last week"}}}

MCPages ==
  LET plain == PageWith(<<[Segment("A", 1) EXCEPT !.duels = Duel(10)]>>)
      three == [PageWith(<<[Segment("A", 1) EXCEPT !.multi = TRUE, !.races = <<Pair("a", 40, "b", 30)>>]>>)
                  EXCEPT !.title.values = <<Item("a", 40)>>]
  IN ("u1" :> SurveyPages \cup TitledPages \cup DatePages)
       @@ ("u2" :> {plain, [plain EXCEPT !.signature = "t", !.published = 2],
                    [plain EXCEPT !.keywords = 1, !.collected = 9, !.published = 0],
                    [plain EXCEPT !.keywords = 0, !.opinion = TRUE]})
       @@ ("u3" :> {plain, three, [plain EXCEPT !.mapped = FALSE], [plain EXCEPT !.policyOnly = TRUE],
                    [plain EXCEPT !.quality = FALSE],
                    [plain EXCEPT !.segs = <<Segment("A", 0)>>, !.percent = FALSE, !.sponsor = TRUE],
                    [plain EXCEPT !.segs = <<Segment("A", 0)>>, !.signature = "t"]})
       @@ ("u4" :> {})

Short == [PageWith(<<Segment("none", 0)>>) EXCEPT !.published = 0, !.collected = 0,
                                              !.words = {"recently"}, !.survey = TRUE]
MCSummary == [u \in {"u1", "u2", "u3", "u4"} |->
  IF u = "u1" THEN [Short EXCEPT !.title.duels = Duel(30)]
  ELSE IF u = "u4" THEN [Short EXCEPT !.keywords = 1, !.percent = FALSE] ELSE Short]

Candidate(url, title, day, score) ==
  [url |-> url, title |-> title, day |-> day, score |-> score, google |-> url = "u4"]
Source(name, items) == [name |-> name, up |-> TRUE, items |-> items]
Unreachable(name) == [name |-> name, up |-> FALSE, items |-> <<>>]

MCFindings ==
  {[seeds |-> <<Candidate("u1", "x", 1, 1)>>, feeds |-> <<Source("f1", <<Candidate("u1", "x", 1, 1)>>)>>,
    queries |-> <<Unreachable("q1")>>],
   [seeds |-> <<Candidate("u2", "x", 1, 1)>>,
    feeds |-> <<Unreachable("f1"), Source("f2", <<Candidate("u2", "x", 1, 1), Candidate("u3", "x", 2, 3)>>)>>,
    queries |-> <<Source("q1", <<Candidate("u4", "y", 1, 2)>>)>>],
   [seeds |-> <<Candidate("u3", "y", 1, 1), Candidate("u3", "y", 1, 1)>>,
    feeds |-> <<Source("f1", <<Candidate("u3", "y", 1, 0), Candidate("u2", "y", 1, 1), Candidate("u2", "x", 2, 1),
                         Candidate("u3", "z", 1, 1)>>)>>,
    queries |-> <<Source("q1", <<Candidate("u4", "y", 1, 2), Candidate("u3", "y", 1, 2)>>), Unreachable("q2")>>]}
=============================================================================
