------------------------------ MODULE PollStore ------------------------------
(***************************************************************************)
(* The rows of poll_observations and what a write does to them: the        *)
(* priority merge of two sources of one poll                               *)
(* (app/services/fingerprint.py) and the INSERT ... ON CONFLICT of         *)
(* upsert_poll_observation (app/services/repository.py).                   *)
(*                                                                         *)
(* A poll is the value of the fingerprint's inputs (pollster, sponsor,     *)
(* dates, region, sample size, method); two polls of the model always      *)
(* differ in one of the inputs that are also core fields of the merge.     *)
(* The other columns a merge treats alike are one value: meta is the       *)
(* source whose record supplied the meta fields, context the source whose  *)
(* record supplied survey_name and article_id.                             *)
(***************************************************************************)
EXTENDS Naturals, Sequences

CONSTANTS Key,      \* observation_key values
          Poll,     \* polls, as the fingerprint tells them apart
          Office,   \* office_type values
          Matchup   \* matchup_id values

Source == {"article", "nesdc"}
Grade == {"A", "B", "C", "D"}

\* Mutated: the two sources rank alike.
SourcePriority_Flat(s) == 1

SourcePriority(s) == IF s = "nesdc" THEN 2 ELSE 1
GradePriority(g) ==
    CASE g = "A" -> 4 [] g = "B" -> 3 [] g = "C" -> 2 [] OTHER -> 1

ObservationRow ==
    [key : Key, fp : Poll, poll : Poll, office : Office, matchup : Matchup,
     meta : Source, context : Source,
     source : Source, channels : SUBSET Source,
     verified : BOOLEAN, grade : Grade, run : Nat]

\* build_poll_fingerprint: a digest of the normalised inputs, and nothing else.
Fingerprint(poll) == poll

SourceOf(channels) == IF "nesdc" \in channels THEN "nesdc" ELSE "article"

(***************************************************************************)
(* merge_observation_by_priority                                           *)
(***************************************************************************)
CoreConflict(existing, incoming) ==
    \/ existing.poll # incoming.poll
    \/ existing.office # incoming.office

\* Mutated: the later source's grade replaces the earlier one's.
BestGrade_Latest(e, i) == i

BestGrade(e, i) == IF GradePriority(e) > GradePriority(i) THEN e ELSE i

MergedChannels(existing, incoming) ==
    existing.channels \cup incoming.channels
        \cup {existing.source, incoming.source}

Merged(existing, incoming) ==
    LET winner == IF SourcePriority(incoming.source) > SourcePriority(existing.source)
                  THEN incoming ELSE existing
        channels == MergedChannels(existing, incoming)
    IN  [key      |-> existing.key,
         fp       |-> incoming.fp,
         poll     |-> winner.poll,
         office   |-> winner.office,
         matchup  |-> winner.matchup,
         meta     |-> winner.meta,
         context  |-> IF incoming.source = "article"
                      THEN "article" ELSE existing.context,
         source   |-> SourceOf(channels),
         channels |-> channels,
         verified |-> existing.verified \/ incoming.verified,
         grade    |-> BestGrade(existing.grade, incoming.grade),
         run      |-> incoming.run]

(***************************************************************************)
(* INSERT INTO poll_observations ... ON CONFLICT (observation_key)         *)
(***************************************************************************)
\* Mutated: SET source_channels = EXCLUDED.source_channels.
Overwritten_Channels(old, new) == [new EXCEPT !.fp = old.fp]

\* Mutated: SET poll_fingerprint = EXCLUDED.poll_fingerprint.
Overwritten_Fingerprint(old, new) ==
    [new EXCEPT !.channels = old.channels \cup new.channels]

Overwritten(old, new) ==
    [new EXCEPT !.fp = old.fp,
                !.channels = old.channels \cup new.channels,
                !.source = IF "nesdc" \in {old.source, new.source}
                           THEN "nesdc" ELSE new.source]

\* Mutated: INSERT without ON CONFLICT.
RowsWithKey_None(table, key) == {}

RowsWithKey(table, key) == {i \in DOMAIN table : table[i].key = key}

\* The id RETURNING id yields: the conflicting row's, or a fresh one.
UpsertId(table, row) ==
    IF RowsWithKey(table, row.key) = {}
    THEN Len(table) + 1
    ELSE CHOOSE i \in RowsWithKey(table, row.key) : TRUE

Upserted(table, row) ==
    IF RowsWithKey(table, row.key) = {}
    THEN Append(table, row)
    ELSE [table EXCEPT ![UpsertId(table, row)] = Overwritten(@, row)]

(***************************************************************************)
(* _find_observation_by_fingerprint: the newest row, 0 when there is none. *)
(***************************************************************************)
RowsWithFingerprint(table, fp) == {i \in DOMAIN table : table[i].fp = fp}

NewestWithFingerprint(table, fp) ==
    IF RowsWithFingerprint(table, fp) = {} THEN 0
    ELSE CHOOSE i \in RowsWithFingerprint(table, fp) :
             \A j \in RowsWithFingerprint(table, fp) : j <= i

=============================================================================
