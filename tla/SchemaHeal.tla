----------------------------- MODULE SchemaHeal -----------------------------
(***************************************************************************)
(* The database schema and who brings it up to date: the bootstrap at      *)
(* startup (app/main.py, app/runtime_db_guard.py) and the request that     *)
(* meets a missing table or column (app/api/dependencies.py).  db/schema.  *)
(* sql is one transaction, and can be run again; running it makes the      *)
(* schema what this version of the program expects.                        *)
(***************************************************************************)
EXTENDS Integers

CONSTANTS Servers,      \* API processes
          Requests,     \* request threads
          ServedBy,     \* the process of each thread
          NoRequest,
          AutoApply,    \* should_auto_apply_schema_on_startup
          MaxFailures,  \* bound on the runs of schema.sql that fail
          MaxStops,     \* bound on the processes that die
          MaxDowngrades \* bound on the times the database falls behind

ASSUME HealAssumption ==
  /\ ServedBy \in [Requests -> Servers] /\ NoRequest \notin Requests
  /\ AutoApply \in BOOLEAN
  /\ MaxFailures \in Nat /\ MaxStops \in Nat /\ MaxDowngrades \in Nat

VARIABLES current,  \* the schema is the one the program expects
          server,   \* per process: running, _schema_healed_once, _schema_heal_lock
          heal,     \* what each request thread is doing about the schema
          applied,  \* history: the process has itself healed the schema in this life
          trouble   \* how many failures, stops and downgrades there have been

healVars == <<current, server, heal, applied, trouble>>

Server == [up : BOOLEAN, healed : BOOLEAN, lock : Requests \cup {NoRequest}]
Down == [up |-> FALSE, healed |-> FALSE, lock |-> NoRequest]
Steps == {"idle", "mismatch", "applying"}
Bound(what) == CASE what = "failures" -> MaxFailures
                 [] what = "stops" -> MaxStops
                 [] what = "downgrades" -> MaxDowngrades

HealTypeOK ==
  /\ current \in BOOLEAN
  /\ server \in [Servers -> Server]
  /\ heal \in [Requests -> Steps]
  /\ applied \in [Servers -> BOOLEAN]
  /\ trouble \in [{"failures", "stops", "downgrades"} -> Nat]

\* One more trouble of a kind.
Suffers(what) ==
  /\ trouble[what] < Bound(what)
  /\ trouble' = [trouble EXCEPT ![what] = @ + 1]

HealInit ==
  /\ current \in BOOLEAN
  /\ server = [p \in Servers |-> Down]
  /\ heal = [t \in Requests |-> "idle"]
  /\ applied = [p \in Servers |-> FALSE]
  /\ trouble = [w \in {"failures", "stops", "downgrades"} |-> 0]

\* Startup: the bootstrap applies the schema when it is enabled and does not set the
\* flag of heal_schema_once.
Start(p) ==
  /\ ~ server[p].up
  /\ server' = [server EXCEPT ![p] = [Down EXCEPT !.up = TRUE]]
  /\ current' = (current \/ AutoApply)
  /\ UNCHANGED <<heal, applied, trouble>>

\* apply_schema_bootstrap keeps an exception to itself: the process serves all the same.
StartBootstrapFails(p) ==
  /\ ~ server[p].up /\ AutoApply
  /\ Suffers("failures")
  /\ server' = [server EXCEPT ![p] = [Down EXCEPT !.up = TRUE]]
  /\ UNCHANGED <<current, heal, applied>>

\* The process dies, its requests with it.
Stop(p) ==
  /\ server[p].up
  /\ Suffers("stops")
  /\ server' = [server EXCEPT ![p] = Down]
  /\ heal' = [t \in Requests |-> IF ServedBy[t] = p THEN "idle" ELSE heal[t]]
  /\ applied' = [applied EXCEPT ![p] = FALSE]
  /\ UNCHANGED current

\* The database is restored from an old backup or replaced by an empty one.
Downgrade == current /\ Suffers("downgrades") /\ current' = FALSE /\ UNCHANGED <<server, heal, applied>>

\* A statement of the request fails with 42P01 or 42703.
MeetMismatch(t) ==
  /\ server[ServedBy[t]].up /\ heal[t] = "idle" /\ ~ current
  /\ heal' = [heal EXCEPT ![t] = "mismatch"]
  /\ UNCHANGED <<current, server, applied, trouble>>

\* heal_schema_once, lock taken and flag set: False, and 503 "mismatch detected".
HealedBefore(t) ==
  /\ heal[t] = "mismatch"
  /\ server[ServedBy[t]].lock = NoRequest /\ server[ServedBy[t]].healed
  /\ heal' = [heal EXCEPT ![t] = "idle"]
  /\ UNCHANGED <<current, server, applied, trouble>>

\* heal_schema_once, lock taken and flag not set.
StartHeal(t) ==
  /\ heal[t] = "mismatch"
  /\ server[ServedBy[t]].lock = NoRequest /\ ~ server[ServedBy[t]].healed
  /\ server' = [server EXCEPT ![ServedBy[t]].lock = t]
  /\ heal' = [heal EXCEPT ![t] = "applying"]
  /\ UNCHANGED <<current, applied, trouble>>

\* run_schema commits, the flag is set: True, and 503 "auto-healed; retry request".
Heal(t) ==
  /\ heal[t] = "applying"
  /\ current' = TRUE
  /\ server' = [server EXCEPT ![ServedBy[t]].lock = NoRequest, ![ServedBy[t]].healed = TRUE]
  /\ applied' = [applied EXCEPT ![ServedBy[t]] = TRUE]
  /\ heal' = [heal EXCEPT ![t] = "idle"]
  /\ UNCHANGED trouble

\* A mutant: the flag is set before the schema is run.
HealFails_Marked(t) ==
  /\ heal[t] = "applying"
  /\ Suffers("failures")
  /\ server' = [server EXCEPT ![ServedBy[t]].lock = NoRequest, ![ServedBy[t]].healed = TRUE]
  /\ heal' = [heal EXCEPT ![t] = "idle"]
  /\ UNCHANGED <<current, applied>>

\* run_schema raises: nothing is applied, the lock is released, 503.
HealFails(t) ==
  /\ heal[t] = "applying"
  /\ Suffers("failures")
  /\ server' = [server EXCEPT ![ServedBy[t]].lock = NoRequest]
  /\ heal' = [heal EXCEPT ![t] = "idle"]
  /\ UNCHANGED <<current, applied>>

HealRequest(t) == MeetMismatch(t) \/ HealedBefore(t) \/ StartHeal(t) \/ Heal(t)

HealNext ==
  \/ \E p \in Servers : Start(p) \/ StartBootstrapFails(p) \/ Stop(p)
  \/ \E t \in Requests : HealRequest(t) \/ HealFails(t)
  \/ Downgrade

HealSpec == HealInit /\ [][HealNext]_healVars

-----------------------------------------------------------------------------
(* A database that stays behind has used up every process: each has healed *)
(* it once in its life and will not again (_schema_healed_once).  While a  *)
(* process has not, requests that fail, heals that fail, the bootstrap     *)
(* that failed and other threads waiting for the lock do not keep the      *)
(* schema from being applied in the end.                                   *)
HealsEventually == <>[](~ current) => \A p \in Servers : <>[](applied[p])
=============================================================================
