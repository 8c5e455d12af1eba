-------------------------- MODULE CandidateProfile --------------------------
(***************************************************************************)
(* The profile of one candidate: completed from the public registry when a *)
(* record is ingested (_enrich_candidate_profile, upsert_candidate), put   *)
(* under review in a second transaction (insert_review_queue), and         *)
(* completed again when the page is read (get_candidate in                 *)
(* app/api/routes.py).  Several ingest processes write it.                 *)
(*                                                                         *)
(* A field holds nothing ("none"), something an article said, or what the  *)
(* registry has; two entries of the registry are told apart by their party *)
(* and their job.  party stands for the fields the registry overrides and  *)
(* a review asks for, job for those nobody asks for, career for those the  *)
(* registry fills only when they are empty.                                *)
(***************************************************************************)
EXTENDS Integers, Sequences, FiniteSets

CONSTANTS Ingesters,    \* processes that run ingest_payload
          Names,        \* the names records give the candidate
          Noise,        \* those that are no name of a person
          Profiles,     \* the profiles records bring
          Registry,     \* Registry[name][typecode]: the registry's entries of a name
          TypeCodes,    \* the lists ingest asks for the office, in order
          ReaderCode,   \* the list the page asks
          MaxIngests,   \* bound on the records
          MaxRuns,      \* bound on the ingestion runs
          MaxFaults     \* bound on the review inserts that fail

ProfileFields == {"party", "job", "career"}
Overriding == {"party", "job"}
Required == {"party", "career"}
Profile == [ProfileFields -> STRING]
Codes == {TypeCodes[i] : i \in DOMAIN TypeCodes} \cup {ReaderCode}

ASSUME ProfileAssumption ==
  /\ Names \subseteq STRING /\ Noise \subseteq Names
  /\ Profiles \subseteq Profile /\ TypeCodes \in Seq(STRING)
  /\ MaxIngests \in Nat /\ MaxRuns \in Nat /\ MaxFaults \in Nat
  /\ \A name \in Names, code \in Codes : Registry[name][code] \in Seq(Profile)

VARIABLES profile,    \* <<>>, or the candidate's row and its profile as one
          reported,   \* the review rows of the candidate, by status
          ingester,   \* per process: its run, and whether it is about to report the candidate
          marked,     \* the runs whose candidate_profile_review_marked has the candidate
          faults,     \* review inserts that failed
          died,       \* history: processes that died between storing and reporting
          begun, ingests    \* runs and records so far

profileVars == <<profile, reported, ingester, marked, faults, died, begun, ingests>>

StoredProfile == [name : Names, fields : [ProfileFields -> STRING]]

ProfileTypeOK ==
  /\ profile \in Seq(StoredProfile) /\ Len(profile) <= 1
  /\ reported \in [{"pending", "decided"} -> Nat]
  /\ ingester \in [Ingesters -> [at : {"idle", "running", "reporting"}, run : 0 .. MaxRuns]]
  /\ marked \subseteq 1 .. begun
  /\ faults \in 0 .. MaxFaults /\ died \in Nat
  /\ begun \in 0 .. MaxRuns /\ ingests \in 0 .. MaxIngests

ProfileInit ==
  /\ profile = <<>>
  /\ reported = [s \in {"pending", "decided"} |-> 0]
  /\ ingester = [w \in Ingesters |-> [at |-> "idle", run |-> 0]]
  /\ marked = {}
  /\ faults = 0 /\ died = 0 /\ begun = 0 /\ ingests = 0

-----------------------------------------------------------------------------
Filled(p) == {f \in ProfileFields : p[f] # "none"}

\* The first of the positions with the greatest score.
FirstBest(score) ==
  CHOOSE i \in DOMAIN score : \A j \in DOMAIN score \ {i} :
    score[i] > score[j] \/ (score[i] = score[j] /\ i < j)

\* _match_item: of the entries of the name, the one that agrees best in party and job,
\* then the one that says most; the first of several.
MatchScore(item, p) ==
  LET agree(f, plus, minus) == IF p[f] = "none" THEN 0 ELSE IF item[f] = p[f] THEN plus ELSE - minus
  IN agree("party", 500, 250) + agree("job", 100, 40) + Cardinality(Filled(item))

MatchItem(items, p) ==
  items[FirstBest([i \in DOMAIN items |-> MatchScore(items[i], p)])]

\* enrich_candidate: an unreachable registry, or one without the name, changes nothing.
EnrichCandidate_Emptying(p, items) ==   \* mutant: an empty field of the registry overrides, too
  IF items = <<>> THEN p
  ELSE LET item == MatchItem(items, p)
       IN [f \in ProfileFields |-> IF f \in Overriding \/ p[f] = "none" THEN item[f] ELSE p[f]]

EnrichCandidate(p, items) ==
  IF items = <<>> THEN p
  ELSE LET item == MatchItem(items, p)
       IN [f \in ProfileFields |->
             IF item[f] # "none" /\ (f \in Overriding \/ p[f] = "none") THEN item[f] ELSE p[f]]

\* The entries of a name on a list, of the lists that can be reached just now.
Reachable(name, code, up) == IF code \in up THEN Registry[name][code] ELSE <<>>

\* _enrich_candidate_profile, of the record's own profile and what each list makes of it
\* the first with the most fields; what is no name of a person is not looked up.
BestProfile(p, name, up) ==
  LET tries == <<p>> \o [i \in DOMAIN TypeCodes |->
                           EnrichCandidate(p, Reachable(name, TypeCodes[i], up))]
  IN IF name \in Noise THEN p
     ELSE tries[FirstBest([i \in DOMAIN tries |-> Cardinality(Filled(tries[i]))])]

\* The reason for a review that _enrich_candidate_profile returns: the name, or a required
\* field that is still missing.
NeedsReview(stored) ==
  stored.name \in Noise \/ ~ Required \subseteq Filled(stored.fields)

-----------------------------------------------------------------------------
\* ingest_payload begins with an empty candidate_profile_review_marked.
BeginRun(w) ==
  /\ ingester[w].at = "idle" /\ begun < MaxRuns
  /\ begun' = begun + 1
  /\ ingester' = [ingester EXCEPT ![w] = [at |-> "running", run |-> begun + 1]]
  /\ UNCHANGED <<profile, reported, marked, faults, died, ingests>>

EndRun(w) ==
  /\ ingester[w].at = "running"
  /\ ingester' = [ingester EXCEPT ![w].at = "idle"]
  /\ UNCHANGED <<profile, reported, marked, faults, died, begun, ingests>>

\* The process dies between the two transactions.
Die(w) ==
  /\ ingester[w].at = "reporting"
  /\ ingester' = [ingester EXCEPT ![w].at = "idle"]
  /\ died' = died + 1
  /\ UNCHANGED <<profile, reported, marked, faults, begun, ingests>>

\* A record with the candidate: upsert_candidate overwrites its row and profile, and
\* commits.  The report comes next, if there is a reason and this run has made none.
UpsertCandidate(w, p, name, up) ==
  LET stored == [name |-> name, fields |-> BestProfile(p, name, up)]
  IN /\ ingester[w].at = "running" /\ ingests < MaxIngests
     /\ ingests' = ingests + 1
     /\ profile' = <<stored>>
     /\ ingester' = [ingester EXCEPT ![w].at =
                       IF NeedsReview(stored) /\ ingester[w].run \notin marked
                       THEN "reporting" ELSE "running"]
     /\ UNCHANGED <<reported, marked, faults, died, begun>>

\* insert_review_queue for the candidate, which the run then remembers.
ReportCandidate(w) ==
  /\ ingester[w].at = "reporting"
  /\ reported' = [reported EXCEPT !["pending"] = @ + 1]
  /\ marked' = marked \cup {ingester[w].run}
  /\ ingester' = [ingester EXCEPT ![w].at = "running"]
  /\ UNCHANGED <<profile, faults, died, begun, ingests>>

\* A mutant: the candidate is remembered before the insert, and stays so when it fails.
ReportFails_Marked(w) ==
  /\ ingester[w].at = "reporting" /\ faults < MaxFaults
  /\ faults' = faults + 1
  /\ marked' = marked \cup {ingester[w].run}
  /\ ingester' = [ingester EXCEPT ![w].at = "running"]
  /\ UNCHANGED <<profile, reported, died, begun, ingests>>

\* The insert fails and the failure is swallowed.  The record's next statement then fails on
\* the broken transaction and its handler rolls back: the run goes on with another record.
ReportFails(w) ==
  /\ ingester[w].at = "reporting" /\ faults < MaxFaults
  /\ faults' = faults + 1
  /\ ingester' = [ingester EXCEPT ![w].at = "running"]
  /\ UNCHANGED <<profile, reported, marked, died, begun, ingests>>

\* An operator approves or rejects a row.
DecideProfile ==
  /\ reported["pending"] > 0
  /\ reported' = [reported EXCEPT !["pending"] = @ - 1, !["decided"] = @ + 1]
  /\ UNCHANGED <<profile, ingester, marked, faults, died, begun, ingests>>

ProfileNext ==
  \/ \E w \in Ingesters :
       \/ BeginRun(w) \/ EndRun(w) \/ Die(w) \/ ReportCandidate(w) \/ ReportFails(w)
       \/ \E p \in Profiles, name \in Names, up \in SUBSET Codes : UpsertCandidate(w, p, name, up)
  \/ DecideProfile

ProfileSpec == ProfileInit /\ [][ProfileNext]_profileVars

-----------------------------------------------------------------------------
\* _build_candidate_profile_provenance
Provenance(base, final) ==
  [f \in ProfileFields |-> CASE final[f] = "none" -> "missing"
                             [] final[f] # "none" /\ base[f] = final[f] -> "ingest"
                             [] OTHER -> "data_go"]

ProfileSource(provenance) ==
  LET values == {provenance[f] : f \in ProfileFields} \ {"missing"}
  IN IF values = {} THEN "none"
     ELSE IF Cardinality(values) = 2 THEN "mixed" ELSE CHOOSE v \in values : TRUE

\* GET /api/v1/candidates/{id}: the page completes the stored fields from its own list.
GetCandidate(up) ==
  LET base == profile[1].fields
      final == EnrichCandidate(base, Reachable(profile[1].name, ReaderCode, up))
      provenance == Provenance(base, final)
      required == Required \cap Filled(final)
  IN [profile |-> final, provenance |-> provenance, source |-> ProfileSource(provenance),
      completeness |-> IF required = Required THEN "complete"
                       ELSE IF required = {} THEN "empty" ELSE "partial",
      needsReview |-> reported["pending"] > 0]

-----------------------------------------------------------------------------
\* The candidate's page: no field that ingest stored is missing from it, whichever lists
\* can be reached; a field is called the registry's only if it is what a reachable entry of
\* the candidate's name has; only a page whose fields all come from ingest is called
\* ingest's; and a stored profile with every required field never looks incomplete.
ProfilePageTruthful ==
  profile # <<>> => \A up \in SUBSET Codes :
    LET page == GetCandidate(up)
        stored == profile[1].fields
        entries == Registry[profile[1].name][ReaderCode]
    IN /\ \A f \in ProfileFields :
            /\ (page.provenance[f] = "missing") = (page.profile[f] = "none")
            /\ stored[f] # "none" => page.profile[f] # "none"
            /\ page.provenance[f] = "data_go" =>
                 ReaderCode \in up /\ \E i \in DOMAIN entries : entries[i][f] = page.profile[f]
       /\ page.source \in {"ingest", "none"} => page.profile = stored
       /\ Required \subseteq Filled(stored) => page.completeness = "complete"

\* The reports of the candidate, across runs that store and report it in two transactions
\* each: there are as many review rows as runs that remember having made one, so that a run
\* whose insert failed tries again with its next record and no run reports twice; and what
\* is stored with a gap or a bad name, by whichever run, shows as under review until an
\* operator decides, unless a run is just about to report it or a report was lost, its insert
\* having failed or its process having died before.
GapsReported ==
  /\ reported["pending"] + reported["decided"] = Cardinality(marked)
  /\ profile # <<>> /\ NeedsReview(profile[1]) =>
       \/ GetCandidate({}).needsReview \/ reported["decided"] > 0
       \/ \E w \in Ingesters : ingester[w].at = "reporting"
       \/ faults + died > 0
=============================================================================
