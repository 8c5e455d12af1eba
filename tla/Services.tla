------------------------------ MODULE Services ------------------------------
(***************************************************************************)
(* The services around the poll store that share no state with one another *)
(* beyond the database connection: the review queue, the schema and its    *)
(* healing, the data.go client, the elections master, a candidate's        *)
(* profile, the rules ingest applies to one record, and the collector that *)
(* makes the records.  A behaviour follows one of them; the others stand   *)
(* still.                                                                  *)
(***************************************************************************)
EXTENDS ReviewQueue, SchemaHeal, DataGoClient, ElectionSlots, CandidateProfile, RecordRules,
        Collector

CONSTANT Focuses   \* the ones to follow

VARIABLE focus

serviceVars == <<focus, queueVars, healVars, clientVars, slotVars, profileVars, recordVars,
  collectorVars>>

Init ==
  /\ focus \in Focuses
  /\ QueueInit /\ HealInit /\ ClientInit /\ SlotInit /\ ProfileInit
  /\ IF focus = "records" THEN RecordInit ELSE part = [rule |-> "none"] /\ outcome = <<>>
  /\ IF focus = "collector" THEN CollectorInit ELSE CollectorIdle
  /\ focus # "schema" => current        \* one state of those that stand still
  /\ focus # "slots" => regions = {}

InQueue(A) ==
  focus = "queue" /\ A
    /\ UNCHANGED <<focus, healVars, clientVars, slotVars, profileVars, recordVars, collectorVars>>
InSchema(A) ==
  focus = "schema" /\ A
    /\ UNCHANGED <<focus, queueVars, clientVars, slotVars, profileVars, recordVars, collectorVars>>
InClient(A) ==
  focus = "client" /\ A
    /\ UNCHANGED <<focus, queueVars, healVars, slotVars, profileVars, recordVars, collectorVars>>
InSlots(A) ==
  focus = "slots" /\ A
    /\ UNCHANGED <<focus, queueVars, healVars, clientVars, profileVars, recordVars, collectorVars>>
InProfile(A) ==
  focus = "profile" /\ A
    /\ UNCHANGED <<focus, queueVars, healVars, clientVars, slotVars, recordVars, collectorVars>>
InRecords(A) ==
  focus = "records" /\ A
    /\ UNCHANGED <<focus, queueVars, healVars, clientVars, slotVars, profileVars, collectorVars>>
InCollector(A) ==
  focus = "collector" /\ A
    /\ UNCHANGED <<focus, queueVars, healVars, clientVars, slotVars, profileVars, recordVars>>

Next ==
  \/ InQueue(QueueNext) \/ InSchema(HealNext) \/ InClient(ClientNext)
  \/ InSlots(SlotNext) \/ InProfile(ProfileNext) \/ InRecords(ApplyRules)
  \/ InCollector(CollectorNext)

\* The platform starts processes again, requests keep coming, and a thread that may take
\* the lock of heal_schema_once again and again, or has it, goes on.
Fairness ==
  /\ \A p \in Servers : WF_serviceVars(InSchema(Start(p) \/ StartBootstrapFails(p)))
  /\ \A t \in Requests : SF_serviceVars(InSchema(HealRequest(t)))

Spec == Init /\ [][Next]_serviceVars /\ Fairness
-----------------------------------------------------------------------------
\* Types, and what the schema leaves to the code: the column of a review row's status has
\* no CHECK, and the readers count the four statuses only.
TypeOK ==
  /\ focus \in Focuses
  /\ QueueTypeOK /\ HealTypeOK /\ ClientTypeOK /\ SlotTypeOK /\ ProfileTypeOK
  /\ phase \in {"discover", "fetch", "done"} /\ DOMAIN output = DOMAIN NoOutput

\* HealsEventually of SchemaHeal, for the behaviours that follow the schema.
SchemaHealsEventually == focus = "schema" => HealsEventually
=============================================================================
