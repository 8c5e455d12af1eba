--------------------------- MODULE ScenarioRepair ---------------------------
(***************************************************************************)
(* How ingest splits the candidate rows of one record into scenarios       *)
(* (_repair_candidate_matchup_scenarios, app/services/ingest_service.py),  *)
(* as operators on the rows and on what the regular expressions find in    *)
(* the survey's name.                                                      *)
(*                                                                         *)
(* The rows are the record's candidate_matchup rows in their order; rows   *)
(* of other types are left alone by the code and left out here.  A value   *)
(* is in units of 0.1 percent.  A key is "default", a head-to-head of two  *)
(* names, or a multi-candidate one of its anchor; scenario_type and        *)
(* scenario_title say no more than the key.  whose: the name whose         *)
(* candidate id, party and verification the row carries, or "nobody".      *)
(***************************************************************************)
EXTENDS Integers, Sequences, FiniteSets, SequencesExt

CONSTANT Tolerance   \* how far a row's value may be from the text's (0.15, so one unit)

Default == <<"default">>
HeadToHead(a, b) == <<"h2h", a, b>>
Multi(a) == <<"multi", a>>
IsMulti(r) == r.key[1] = "multi"

\* A candidate row as a record brings it: it carries the data of its own candidate, and the
\* key of a head-to-head names somebody.
CandidateRow(names, values) ==
  {r \in [name : names, value : values, key : Seq(names) \ {<<>>}, whose : names] :
     r.whose = r.name /\ (r.key[1] = "h2h" => Len(r.key) >= 2)}

\* What the text of a survey may say: the two key words, the head-to-heads of two names with
\* their values, the list after the multi-candidate word (every name once; empty if it has
\* fewer than three names), and the one name that follows it directly.
ScenarioText(names, values) ==
  {t \in [multi : BOOLEAN, twoway : BOOLEAN,
          pairs : Seq([left : names, leftValue : values, right : names, rightValue : values]),
          items : Seq([name : names, value : values]),
          anchor : Seq([name : names, value : values])] :
     /\ \A i \in DOMAIN t.pairs : t.pairs[i].left # t.pairs[i].right
     /\ \A i, j \in DOMAIN t.items : i # j => t.items[i].name # t.items[j].name}

-----------------------------------------------------------------------------
Distance(v, w) == IF v > w THEN v - w ELSE w - v

Named(rows, name) == {i \in DOMAIN rows : rows[i].name = name}

\* Of the rows I, the one nearest to the value, the first of several.
Nearest(rows, I, value) ==
  CHOOSE i \in I : \A j \in I \ {i} :
    \/ Distance(rows[i].value, value) < Distance(rows[j].value, value)
    \/ /\ Distance(rows[i].value, value) = Distance(rows[j].value, value)
       /\ i < j

\* Of the rows I, the one with the greatest value, the first of several.
Highest(rows, I) ==
  CHOOSE i \in I : \A j \in I \ {i} :
    rows[i].value > rows[j].value \/ (rows[i].value = rows[j].value /\ i < j)

\* _match_candidate_index: the rows that may stand for a name and a value of the text.
Matching_Taken(rows, name, value, taken) ==   \* mutant: rows of other scenarios, too
  {i \in Named(rows, name) : Distance(rows[i].value, value) <= Tolerance}

Matching(rows, name, value, taken) ==
  {i \in Named(rows, name) \ taken : Distance(rows[i].value, value) <= Tolerance}

\* _clone_candidate_option: a new row after a row of the same name, or after the first
\* one and without the data of that stranger.
Cloned(rows, name, value) ==
  LET same == Named(rows, name)
  IN Append(rows, [name |-> name, key |-> Default, value |-> value,
                   whose |-> IF same = {} THEN "nobody"
                             ELSE rows[Nearest(rows, same, value)].whose])

\* The row for a name and a value of the text, made when there is none, moved to key.
Moved(st, name, value, key) ==
  LET found == Matching(st.rows, name, value, st.taken)
      rows == IF found = {} THEN Cloned(st.rows, name, value) ELSE st.rows
      at == IF found = {} THEN Len(rows) ELSE Nearest(rows, found, value)
  IN [rows |-> [rows EXCEPT ![at].value = value, ![at].key = key],
      taken |-> st.taken \cup {at}]

MovedItems(st, items, key) ==
  FoldLeft(LAMBDA s, item : Moved(s, item.name, item.value, key), st, items)

\* The elements at the positions of I, in their order.
Kept(rows, I) ==
  LET upTo[n \in 0 .. Len(rows)] ==
        IF n = 0 THEN <<>>
        ELSE IF n \in I THEN Append(upTo[n - 1], rows[n]) ELSE upTo[n - 1]
  IN upTo[Len(rows)]

-----------------------------------------------------------------------------
(* A record that has both explicit and default rows.                       *)

Explicit(rows) == Kept(rows, {i \in DOMAIN rows : rows[i].key # Default})
Defaults(rows) == Kept(rows, {i \in DOMAIN rows : rows[i].key = Default})

\* The key of the multi-candidate scenario the default rows go to.
MultiKey(fixed) ==
  LET multis == Kept(fixed, {i \in DOMAIN fixed : IsMulti(fixed[i])})
      h2hs == Kept(fixed, {i \in DOMAIN fixed : fixed[i].key[1] = "h2h"})
  IN IF multis # <<>> THEN multis[1].key
     ELSE Multi(IF h2hs # <<>> THEN h2hs[1].key[2] ELSE fixed[1].name)

\* Of each name without a row in the scenario yet, the default row with the best value.
BestDefaults(rows, present) ==
  Kept(rows, {i \in DOMAIN rows :
                rows[i].name \notin present /\ i = Highest(rows, Named(rows, rows[i].name))})

Canonicalised(rows, text) ==
  LET fixed == Explicit(rows)
      key == MultiKey(fixed)
      listed == MovedItems([rows |-> fixed, taken |-> {}], text.items, key)
      present == {fixed[i].name : i \in {j \in DOMAIN fixed : fixed[j].key = key}}
      added == BestDefaults(Defaults(rows), present)
  IN IF text.items # <<>>
     THEN Kept(listed.rows, {i \in DOMAIN listed.rows :
                               listed.rows[i].key = key => i \in listed.taken})
     ELSE fixed \o [k \in DOMAIN added |-> [added[k] EXCEPT !.key = key]]

-----------------------------------------------------------------------------
(* A record whose rows are all default ones.                               *)

\* One head-to-head after the other takes its two rows, which have different names.
PairsMoved(rows, pairs) ==
  LET Pair(st, p) ==
        LET key == HeadToHead(p.left, p.right)
            left == Moved(st, p.left, p.leftValue, key)
        IN Moved(left, p.right, p.rightValue, key)
  IN FoldLeft(Pair, [rows |-> rows, taken |-> {}], pairs)

\* The text has no pairs: the name that comes twice is in a head-to-head with the best
\* of the others, all the rest is one multi-candidate scenario.  Only the first n rows,
\* the record's own, are looked at.
SplitByDuplicate(rows, n) ==
  LET own(name) == {i \in 1 .. n : rows[i].name = name}
      twice == {i \in 1 .. n : Cardinality(own(rows[i].name)) >= 2}
      top == rows[Highest(rows, twice)].value
      first == CHOOSE i \in twice :
                 LET best == {k \in twice : \E j \in own(rows[k].name) : rows[j].value = top}
                 IN i \in best /\ \A k \in best : i <= k
      anchor == rows[first].name
      others == {i \in 1 .. n : rows[i].name # anchor}
      left == Highest(rows, own(anchor))
      right == Highest(rows, others)
      KeyOf(i) == IF i \in {left, right} THEN HeadToHead(anchor, rows[right].name)
                  ELSE IF i \in 1 .. n THEN Multi(anchor) ELSE rows[i].key
  IN IF twice = {} \/ others = {} THEN rows
     ELSE [i \in DOMAIN rows |-> [rows[i] EXCEPT !.key = KeyOf(i)]]

\* The text has two pairs or more: what they leave over is the multi-candidate scenario,
\* the listed names alone if there is a list.  The name after the word gets a row if it
\* has none; without anything left over the rows are split by their duplicate after all.
SplitByPairs(rows, text) ==
  LET pairs == PairsMoved(rows, text.pairs)
      key == Multi(text.pairs[1].left)
      listed == MovedItems(pairs, text.items, key)
      anchored ==
        IF \/ text.anchor = <<>>
           \/ Matching(pairs.rows, text.anchor[1].name, text.anchor[1].value, pairs.taken) # {}
        THEN pairs.rows
        ELSE Cloned(pairs.rows, text.anchor[1].name, text.anchor[1].value)
      over == DOMAIN anchored \ pairs.taken
  IN IF text.items # <<>> THEN Kept(listed.rows, listed.taken)
     ELSE IF over # {}
     THEN [i \in DOMAIN anchored |->
             IF i \in over THEN [anchored[i] EXCEPT !.key = key] ELSE anchored[i]]
     ELSE SplitByDuplicate(pairs.rows, Len(rows))

-----------------------------------------------------------------------------
Repaired(rows, text) ==
  IF ~ (text.multi \/ text.twoway) \/ Len(rows) < 3 THEN rows
  ELSE IF Explicit(rows) # <<>>
  THEN IF Defaults(rows) = <<>> THEN rows ELSE Canonicalised(rows, text)
  ELSE IF text.multi /\ Len(text.pairs) >= 2 THEN SplitByPairs(rows, text)
  ELSE SplitByDuplicate(rows, Len(rows))

\* What poll_options holds of the rows: of two with one name and key, the later.
StoredRows(rows) ==
  {rows[i] : i \in {j \in DOMAIN rows : \A k \in DOMAIN rows :
     k > j => <<rows[k].name, rows[k].key>> # <<rows[j].name, rows[j].key>>}}

RowsOf(rows, key) == {r \in StoredRows(rows) : r.key = key}

\* _detect_scenario_parse_incomplete: fewer than three names although the text speaks of
\* a multi-candidate race.
ParseIncomplete(rows, text) ==
  text.multi /\ Cardinality({rows[i].name : i \in DOMAIN rows}) < 3
=============================================================================
