---------------------------- MODULE ElectionSlots ----------------------------
(***************************************************************************)
(* The elections master: region x office slots derived from regions,       *)
(* matchups and polls (scripts/sync_elections_master.py,                   *)
(* app/services/elections_master.py), while ingest and the common-code     *)
(* synchronisation write those tables, and the region page that puts slots,*)
(* matchups and polls together with one query each                         *)
(* (fetch_region_elections in app/services/repository.py).                 *)
(***************************************************************************)
EXTENDS Integers, FiniteSets

CONSTANTS RegionCodes,
          LocalRegions,     \* those of admin_level sigungu
          OfficeTypes,
          MetroOffices,     \* METRO_OFFICE_TYPES
          LocalOfficeTypes, \* LOCAL_OFFICE_TYPES
          ByElections,      \* office types with the word for a by-election
          MatchupIds,
          Subject,          \* region and office of each matchup
          Merged,           \* parent of a region in the scenario topology, or itself
          PollKeys,
          Syncs,
          NoMatchup,
          MaxDay,
          MaxChanges        \* bound on the writes of ingest

ASSUME SlotAssumption ==
  /\ LocalRegions \subseteq RegionCodes
  /\ MetroOffices \cup LocalOfficeTypes \cup ByElections \subseteq OfficeTypes
  /\ MetroOffices # {} /\ LocalOfficeTypes # {} /\ PollKeys # {} /\ IsFiniteSet(PollKeys)
  /\ Subject \in [MatchupIds -> [region : RegionCodes, office : OfficeTypes]]
  /\ Merged \in [RegionCodes -> RegionCodes]
  /\ NoMatchup \notin MatchupIds /\ MaxDay \in Nat /\ MaxChanges \in Nat

VARIABLES regions,   \* region_code of regions
          matchups,  \* matchup_id of matchups
          polls,     \* poll_observations
          elections, \* the slots
          sync,      \* run_elections_master_sync of each job
          page,      \* fetch_region_elections of a reader
          changes    \* how often ingest has written

slotVars == <<regions, matchups, polls, elections, sync, page, changes>>

\* day 0: no survey_end_date.
Poll ==
  [key : PollKeys, id : 1 .. Cardinality(PollKeys), matchup : MatchupIds, day : 0 .. MaxDay,
   verified : BOOLEAN]
Slot == [region : RegionCodes, office : OfficeTypes, latest : MatchupIds \cup {NoMatchup}]

\* regions, latest, todo: what the job has read and has still to write; alone: nothing it
\* reads or writes has been touched by others since it began.
NoSync == [at |-> "idle"]
SyncJob ==
  [at : {"matchups", "pairs", "write", "done"}, regions : SUBSET RegionCodes,
   latest : SUBSET Slot, todo : SUBSET Slot, alone : BOOLEAN]

\* slots, matchups, polls: what the page has read; steady: the polls that were there when
\* it began and have not been rewritten since.
NoPage == [at |-> "idle"]
RegionPage ==
  [at : {"slots", "matchups", "polls", "done"}, region : RegionCodes, slots : SUBSET Slot,
   matchups : SUBSET MatchupIds, polls : SUBSET Poll, steady : SUBSET Poll]

SlotTypeOK ==
  /\ regions \subseteq RegionCodes /\ matchups \subseteq MatchupIds
  /\ polls \subseteq Poll /\ elections \subseteq Slot
  /\ sync \in [Syncs -> SyncJob \cup {NoSync}]
  /\ page \in RegionPage \cup {NoPage}
  /\ changes \in 0 .. MaxChanges

SlotInit ==
  /\ regions \in SUBSET RegionCodes   \* what earlier jobs have brought
  /\ matchups \in {{}, {m \in MatchupIds : Subject[m].region \in regions}}
  /\ polls \in {{}} \cup
       {{[key |-> CHOOSE k \in PollKeys : TRUE, id |-> 1, matchup |-> m, day |-> MaxDay,
          verified |-> TRUE]} : m \in matchups}
  /\ elections = {} /\ changes = 0
  /\ sync = [s \in Syncs |-> NoSync]
  /\ page = NoPage

-----------------------------------------------------------------------------
(* What the tables say.                                                    *)

RegionOf(p) == Subject[p.matchup].region
OfficeOf(p) == Subject[p.matchup].office

\* ORDER BY survey_end_date DESC NULLS LAST, id DESC
NewerPoll(p, q) == p.day > q.day \/ (p.day = q.day /\ p.id > q.id)
Newest(rows) == {p \in rows : \A q \in rows : q = p \/ NewerPoll(p, q)}

DefaultOffices(r) == IF r \in LocalRegions THEN LocalOfficeTypes ELSE MetroOffices

\* fetch_observed_byelection_pairs
ByElectionPairs ==
  {s \in {Subject[m] : m \in matchups \cup {p.matchup : p \in polls}} : s.office \in ByElections}

\* fetch_latest_matchup_ids_by_region_office
LatestVerified ==
  {[region |-> RegionOf(p), office |-> OfficeOf(p), latest |-> p.matchup] :
     p \in {q \in polls : q.verified /\ q \in Newest({o \in polls :
              o.verified /\ Subject[o.matchup] = Subject[q.matchup]})}}

\* build_election_slots
SlotsFrom(codes, pairs, latest) ==
  UNION {{[region |-> r, office |-> o,
           latest |-> IF \E l \in latest : l.region = r /\ l.office = o
                        THEN (CHOOSE l \in latest : l.region = r /\ l.office = o).latest
                        ELSE NoMatchup] :
            o \in DefaultOffices(r) \cup {s.office : s \in {t \in pairs : t.region = r}}} :
         r \in codes}

\* search_regions lists the regions that have a slot.
SearchRegions == {r \in regions : \E e \in elections : e.region = r}

-----------------------------------------------------------------------------
(* Ingest and the common-code synchronisation, one statement and commit a  *)
(* time.                                                                   *)

Disturbed == [s \in Syncs |-> IF sync[s] = NoSync THEN NoSync ELSE [sync[s] EXCEPT !.alone = FALSE]]

Writes ==
  /\ changes < MaxChanges /\ changes' = changes + 1
  /\ sync' = Disturbed

UpsertRegionCode(r) ==
  /\ r \notin regions
  /\ Writes
  /\ regions' = regions \cup {r}
  /\ UNCHANGED <<matchups, polls, elections, page>>

UpsertMatchupRow(m) ==
  /\ m \notin matchups /\ Subject[m].region \in regions
  /\ Writes
  /\ matchups' = matchups \cup {m}
  /\ UNCHANGED <<regions, polls, elections, page>>

\* A poll is stored, or its row is rewritten and moves: the id stays.
StorePoll(k, m, day, verified) ==
  /\ m \in matchups
  /\ Writes
  /\ \E old \in {{p \in polls : p.key = k}} :
       /\ polls' = (polls \ old) \cup
            {[key |-> k, matchup |-> m, day |-> day, verified |-> verified,
              id |-> IF old = {} THEN Cardinality(polls) + 1 ELSE (CHOOSE p \in old : TRUE).id]}
       /\ page' = IF page = NoPage THEN NoPage ELSE [page EXCEPT !.steady = @ \ old]
  /\ UNCHANGED <<regions, matchups, elections>>

-----------------------------------------------------------------------------
(* run_elections_master_sync.                                              *)

ReadRegions(s) ==
  /\ sync[s] = NoSync
  /\ sync' = [sync EXCEPT ![s] =
       [at |-> "matchups", regions |-> regions, latest |-> {}, todo |-> {},
        alone |-> \A o \in Syncs : sync[o] = NoSync \/ sync[o].at = "done"]]
  /\ UNCHANGED <<regions, matchups, polls, elections, page, changes>>

ReadLatest(s) ==
  /\ sync[s] # NoSync /\ sync[s].at = "matchups"
  /\ sync' = [sync EXCEPT ![s].at = "pairs", ![s].latest = LatestVerified]
  /\ UNCHANGED <<regions, matchups, polls, elections, page, changes>>

ReadPairs(s) ==
  /\ sync[s] # NoSync /\ sync[s].at = "pairs"
  /\ sync' = [sync EXCEPT ![s].at = "write",
                          ![s].todo = SlotsFrom(sync[s].regions, ByElectionPairs, sync[s].latest)]
  /\ UNCHANGED <<regions, matchups, polls, elections, page, changes>>

\* A mutant: ON CONFLICT keeps the latest matchup that is there when there is no new one.
Written_Keeping(rows, slot) ==
  LET old == {e \in rows : e.region = slot.region /\ e.office = slot.office}
  IN  (rows \ old) \cup (IF slot.latest = NoMatchup /\ old # {} THEN old ELSE {slot})

\* upsert_election_slot: ON CONFLICT (region_code, office_type) replaces every column.
Written(rows, slot) ==
  {e \in rows : e.region # slot.region \/ e.office # slot.office} \cup {slot}

\* The next slot, in a fixed order and a commit of its own.
UpsertSlot(s) ==
  /\ sync[s] # NoSync /\ sync[s].at = "write" /\ sync[s].todo # {}
  /\ \E slot \in {CHOOSE x \in sync[s].todo : TRUE} :
       /\ elections' = Written(elections, slot)
       /\ sync' = [Disturbed EXCEPT ![s] = [sync[s] EXCEPT !.todo = @ \ {slot}]]
  /\ UNCHANGED <<regions, matchups, polls, page, changes>>

EndSync(s) ==
  /\ sync[s] # NoSync /\ sync[s].at = "write" /\ sync[s].todo = {}
  /\ sync' = [sync EXCEPT ![s].at = "done"]
  /\ UNCHANGED <<regions, matchups, polls, elections, page, changes>>

\* A finished job may be run again; one that fails leaves the slots it has written.
LeaveSync(s) ==
  /\ sync[s] # NoSync
  /\ sync' = [sync EXCEPT ![s] = NoSync]
  /\ UNCHANGED <<regions, matchups, polls, elections, page, changes>>

-----------------------------------------------------------------------------
(* fetch_region_elections.                                                 *)

\* The code whose tables the page reads.
EffectiveRegion(r, topology) == IF topology = "scenario" THEN Merged[r] ELSE r

ReadRegion(r, topology) ==
  /\ page = NoPage
  /\ EffectiveRegion(r, topology) \in regions
  /\ page' = [at |-> "slots", region |-> EffectiveRegion(r, topology), slots |-> {},
              matchups |-> {}, polls |-> {}, steady |-> polls]
  /\ UNCHANGED <<regions, matchups, polls, elections, sync, changes>>

ReadSlots ==
  /\ page # NoPage /\ page.at = "slots"
  /\ page' = [page EXCEPT !.at = "matchups", !.slots = {e \in elections : e.region = page.region}]
  /\ UNCHANGED <<regions, matchups, polls, elections, sync, changes>>

ReadMatchups ==
  /\ page # NoPage /\ page.at = "matchups"
  /\ page' = [page EXCEPT !.at = "polls",
                          !.matchups = {m \in matchups : Subject[m].region = page.region}]
  /\ UNCHANGED <<regions, matchups, polls, elections, sync, changes>>

ReadPolls ==
  /\ page # NoPage /\ page.at = "polls"
  /\ page' = [page EXCEPT !.at = "done", !.polls = {p \in polls : RegionOf(p) = page.region}]
  /\ UNCHANGED <<regions, matchups, polls, elections, sync, changes>>

LeavePage ==
  /\ page # NoPage /\ page.at = "done"
  /\ page' = NoPage
  /\ UNCHANGED <<regions, matchups, polls, elections, sync, changes>>

\* The offices of the page: those of the slots, the defaults where there is no slot at
\* all, and whatever else a matchup or a poll of the region names.
OfficesOnPage ==
  (IF page.slots # {} THEN {e.office : e \in page.slots} ELSE DefaultOffices(page.region))
    \cup {Subject[m].office : m \in page.matchups} \cup {OfficeOf(p) : p \in page.polls}

\* A mutant: the slot, where there is one, says whether there are polls and which.
Entry_SlotFirst(o) ==
  LET slot == {e \in page.slots : e.office = o}
      news == Newest({p \in page.polls : OfficeOf(p) = o})
  IN  [office |-> o, day |-> IF news = {} THEN 0 ELSE (CHOOSE p \in news : TRUE).day,
       latest |-> IF slot # {} THEN (CHOOSE e \in slot : TRUE).latest
                    ELSE IF news # {} THEN (CHOOSE p \in news : TRUE).matchup ELSE NoMatchup]

\* What it says of an office: the newest poll, and only without one the slot.  has_poll_data
\* is: latest is a matchup.
Entry(o) ==
  LET slot == {e \in page.slots : e.office = o}
      news == Newest({p \in page.polls : OfficeOf(p) = o})
  IN  [office |-> o, day |-> IF news = {} THEN 0 ELSE (CHOOSE p \in news : TRUE).day,
       latest |-> IF news # {} THEN (CHOOSE p \in news : TRUE).matchup
                    ELSE IF slot # {} THEN (CHOOSE e \in slot : TRUE).latest ELSE NoMatchup]

RegionElections == {Entry(o) : o \in OfficesOnPage}

SlotNext ==
  \/ \E r \in RegionCodes : UpsertRegionCode(r) \/ \E t \in {"official", "scenario"} : ReadRegion(r, t)
  \/ \E m \in MatchupIds : \/ UpsertMatchupRow(m)
                           \/ \E k \in PollKeys, day \in 0 .. MaxDay, v \in BOOLEAN : StorePoll(k, m, day, v)
  \/ \E s \in Syncs : \/ ReadRegions(s) \/ ReadLatest(s) \/ ReadPairs(s)
                      \/ UpsertSlot(s) \/ EndSync(s) \/ LeaveSync(s)
  \/ ReadSlots \/ ReadMatchups \/ ReadPolls \/ LeavePage

SlotSpec == SlotInit /\ [][SlotNext]_slotVars

-----------------------------------------------------------------------------
(* Properties.                                                             *)

\* A poll that was stored when somebody asked for its region's page, and was not moved
\* away meanwhile, is on the page: its office is listed as one with polls and with no
\* older survey, although slots, matchups and polls are read by one query after another
\* and the slots may be from before the poll or not there at all.
PageNeverHidesPoll ==
  page # NoPage /\ page.at = "done" =>
    \A p \in page.steady :
      RegionOf(p) = page.region =>
        \E e \in RegionElections : /\ e.office = OfficeOf(p)
                                   /\ e.latest # NoMatchup
                                   /\ e.day >= p.day

\* When a synchronisation is over that nobody else wrote in, every region can be found,
\* and every slot it derives says of its region and office exactly what the tables say,
\* polls that have moved away or lost their verification included.
SlotsFollowSync ==
  \A s \in Syncs :
    sync[s] # NoSync /\ sync[s].at = "done" /\ sync[s].alone =>
      /\ SearchRegions = regions
      /\ SlotsFrom(regions, ByElectionPairs, LatestVerified) \subseteq elections
=============================================================================
