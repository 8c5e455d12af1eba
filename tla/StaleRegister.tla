--------------------------- MODULE StaleRegister ---------------------------
(***************************************************************************)
(* What a client of a cached read endpoint may rely on: the database goes  *)
(* through numbered versions, and an answer holds a version that was       *)
(* current at most Bound time units before it is given.  Nothing is said   *)
(* of caches, processes or invalidation: ReadCache implements this.        *)
(***************************************************************************)
EXTENDS Integers

CONSTANTS Clients,   \* the threads that receive answers
          Versions,  \* the versions the database goes through: 0 .. last
          Bound      \* how old an answer may be

VARIABLES now,        \* the clock
          version,    \* the current version of the database
          replaced,   \* replaced[v]: when version v stopped being current
          answer      \* answer[c]: the version in the answer c was given last

NoAnswer == -1

\* Version v was current at some moment of the last Bound time units.
Recent(v) == v = version \/ (v \in 0 .. version - 1 /\ replaced[v] + Bound >= now)

Init == /\ now = 0
        /\ version = 0
        /\ replaced = [v \in Versions |-> 0]
        /\ answer = [c \in Clients |-> NoAnswer]

Tick == now' = now + 1 /\ UNCHANGED <<version, replaced, answer>>

\* The write of a client gives up what it was told, too; a write of somebody else
\* does not.
Commit == /\ version + 1 \in Versions
          /\ version' = version + 1
          /\ replaced' = [replaced EXCEPT ![version] = now]
          /\ \/ UNCHANGED answer
             \/ \E c \in Clients : answer' = [answer EXCEPT ![c] = NoAnswer]
          /\ UNCHANGED now

\* A client that asks again gives up what it was told.
Ask(c) == /\ answer' = [answer EXCEPT ![c] = NoAnswer]
          /\ UNCHANGED <<now, version, replaced>>

Answer(c) == /\ \E v \in 0 .. version : Recent(v) /\ answer' = [answer EXCEPT ![c] = v]
             /\ UNCHANGED <<now, version, replaced>>

Next == Tick \/ Commit \/ \E c \in Clients : Ask(c) \/ Answer(c)

Spec == Init /\ [][Next]_<<now, version, replaced, answer>>
=============================================================================
