--------------------------- MODULE ServiceProofs ----------------------------
(***************************************************************************)
(* The services, for any number of threads, any bounds, any tables and any *)
(* answers of the registries: what the page guards, the operators and the  *)
(* operations pages make of the review queue, that the clients of data.go  *)
(* never get ahead of the configured rate, what the synchronisation of     *)
(* election slots leaves behind, and what the region and candidate pages   *)
(* show.  At the end, that the services together are each what its own     *)
(* specification says.                                                     *)
(***************************************************************************)
EXTENDS Services, CollectorProofs

-----------------------------------------------------------------------------
(* The review queue.  A guard that has looked and not yet inserted counts  *)
(* like a row: it looked while there was no open one.                      *)

Inserting(s) == {g \in Guards : ensure[g] # NoEnsure /\ ensure[g].subject = s}

GuardsCounted(s) ==
  /\ IsFiniteSet(EnsuredRows(s))
  /\ Cardinality(EnsuredRows(s)) + Cardinality(Inserting(s)) <= Cardinality(Guards)

QueueInv ==
  /\ ensure \in [Guards -> Ensuring \cup {NoEnsure}]
  /\ time \in 0 .. MaxTime
  /\ \A s \in Subjects : GuardsCounted(s)

\* Fewer rows or fewer guards between their statements never break the count.
LEMMA FewerCounted ==
  ASSUME NEW s \in Subjects, GuardsCounted(s),
         EnsuredRows(s)' \subseteq EnsuredRows(s), Inserting(s)' \subseteq Inserting(s)
  PROVE  GuardsCounted(s)'
<1>1. IsFiniteSet(Guards)
  BY QueueAssumption
<1>2. Inserting(s) \subseteq Guards
  BY DEF Inserting
<1>3. IsFiniteSet(Inserting(s))
  BY <1>1, <1>2, FS_Subset
<1>4. /\ IsFiniteSet(EnsuredRows(s)')
      /\ Cardinality(EnsuredRows(s)') <= Cardinality(EnsuredRows(s))
  BY FS_Subset DEF GuardsCounted
<1>5. Cardinality(Inserting(s)') <= Cardinality(Inserting(s)) /\ IsFiniteSet(Inserting(s)')
  BY <1>3, FS_Subset
<1>6. /\ Cardinality(EnsuredRows(s)') \in Nat /\ Cardinality(EnsuredRows(s)) \in Nat
      /\ Cardinality(Inserting(s)') \in Nat /\ Cardinality(Inserting(s)) \in Nat
      /\ Cardinality(Guards) \in Nat
  BY <1>1, <1>3, <1>4, <1>5, FS_CardinalityType DEF GuardsCounted
<1>7. QED
  BY <1>4, <1>5, <1>6 DEF GuardsCounted

\* A guard that looks finds no open row, so whatever the other guards are about to
\* insert, they are no more than all of them.
LEMMA SelectCounted ==
  ASSUME QueueInv, NEW g \in Guards, NEW s \in Subjects, EnsureSelect(g, s)
  PROVE  \A q \in Subjects : GuardsCounted(q)'
<1> SUFFICES ASSUME NEW q \in Subjects PROVE GuardsCounted(q)'
  OBVIOUS
<1>1. EnsuredRows(q)' = EnsuredRows(q)
  BY DEF EnsureSelect, EnsuredRows, OpenRows
<1>2. CASE q = s
  <2>1. EnsuredRows(q) = {}
    BY <1>2 DEF EnsureSelect, EnsuredRows
  <2>2. IsFiniteSet(EnsuredRows(q)') /\ Cardinality(EnsuredRows(q)') = 0
    BY <1>1, <2>1, FS_EmptySet
  <2>3. Inserting(q)' \subseteq Guards
    BY DEF Inserting
  <2>4. /\ Cardinality(Inserting(q)') <= Cardinality(Guards)
        /\ Cardinality(Inserting(q)') \in Nat
    BY <2>3, FS_Subset, FS_CardinalityType, QueueAssumption
  <2>5. QED
    BY <2>2, <2>4 DEF GuardsCounted
<1>3. CASE q # s
  <2>1. Inserting(q)' \subseteq Inserting(q)
    BY <1>3 DEF EnsureSelect, Inserting, QueueInv, NoEnsure
  <2>2. QED
    BY <1>1, <2>1, FewerCounted DEF QueueInv
<1>4. QED
  BY <1>2, <1>3

\* The row it inserts takes the place of the guard.
LEMMA InsertCounted ==
  ASSUME QueueInv, NEW g \in Guards, EnsureInsert(g)
  PROVE  \A q \in Subjects : GuardsCounted(q)'
<1> SUFFICES ASSUME NEW q \in Subjects PROVE GuardsCounted(q)'
  OBVIOUS
<1> DEFINE row == [id |-> Cardinality(queue) + 1, subject |-> ensure[g].subject,
                   status |-> "pending", by |-> "ensure",
                   created |-> ensure[g].began, updated |-> ensure[g].began]
<1>1. queue' = queue \cup {row}
  BY DEF EnsureInsert, Appended
<1>2. EnsuredRows(q)' \subseteq EnsuredRows(q) \cup {row}
  BY <1>1 DEF EnsuredRows, OpenRows, IsOpen
<1>3. Inserting(q)' = Inserting(q) \ {g}
  BY DEF EnsureInsert, Inserting, QueueInv
<1>4. CASE ensure[g].subject = q
  <2>1. g \in Inserting(q)
    BY <1>4 DEF EnsureInsert, Inserting
  <2>2. IsFiniteSet(Guards) /\ Inserting(q) \subseteq Guards
    BY QueueAssumption DEF Inserting
  <2>3. IsFiniteSet(Inserting(q))
    BY <2>2, FS_Subset
  <2>4. Cardinality(Inserting(q)') = Cardinality(Inserting(q)) - 1
    BY <1>3, <2>1, <2>3, FS_RemoveElement
  <2>5. IsFiniteSet(EnsuredRows(q))
    BY DEF QueueInv, GuardsCounted
  <2>6. /\ IsFiniteSet(EnsuredRows(q) \cup {row})
        /\ Cardinality(EnsuredRows(q) \cup {row}) <= Cardinality(EnsuredRows(q)) + 1
    <3> HIDE DEF row
    <3>1. Cardinality(EnsuredRows(q)) \in Nat
      BY <2>5, FS_CardinalityType
    <3>2. /\ IsFiniteSet(EnsuredRows(q) \cup {row})
          /\ Cardinality(EnsuredRows(q) \cup {row}) =
               IF row \in EnsuredRows(q) THEN Cardinality(EnsuredRows(q))
                                         ELSE Cardinality(EnsuredRows(q)) + 1
      BY <2>5, FS_AddElement, Zenon
    <3>3. QED
      BY <3>1, <3>2
  <2>7. /\ IsFiniteSet(EnsuredRows(q)')
        /\ Cardinality(EnsuredRows(q)') <= Cardinality(EnsuredRows(q) \cup {row})
    BY <1>2, <2>6, FS_Subset
  <2>8. /\ Cardinality(EnsuredRows(q)) \in Nat /\ Cardinality(EnsuredRows(q)') \in Nat
        /\ Cardinality(EnsuredRows(q) \cup {row}) \in Nat
        /\ Cardinality(Inserting(q)) \in Nat /\ Cardinality(Guards) \in Nat
    BY <2>2, <2>3, <2>5, <2>6, <2>7, FS_CardinalityType
  <2>9. Cardinality(EnsuredRows(q)) + Cardinality(Inserting(q)) <= Cardinality(Guards)
    BY DEF QueueInv, GuardsCounted
  <2>10. QED
    BY <2>4, <2>6, <2>7, <2>8, <2>9 DEF GuardsCounted
<1>5. CASE ensure[g].subject # q
  <2>1. EnsuredRows(q)' \subseteq EnsuredRows(q)
    BY <1>1, <1>5 DEF EnsuredRows, OpenRows, IsOpen
  <2>2. Inserting(q)' \subseteq Inserting(q)
    BY <1>3
  <2>3. QED
    BY <2>1, <2>2, FewerCounted DEF QueueInv
<1>6. QED
  BY <1>4, <1>5

LEMMA QueueInvInit == QueueInit => QueueInv
<1> SUFFICES ASSUME QueueInit PROVE QueueInv
  OBVIOUS
<1>1. ensure \in [Guards -> Ensuring \cup {NoEnsure}] /\ time \in 0 .. MaxTime
  BY QueueAssumption DEF QueueInit
<1>2. ASSUME NEW s \in Subjects PROVE GuardsCounted(s)
  <2>1. EnsuredRows(s) = {} /\ Inserting(s) = {}
    BY DEF QueueInit, EnsuredRows, OpenRows, Inserting
  <2>2. Cardinality(Guards) \in Nat
    BY QueueAssumption, FS_CardinalityType
  <2>3. QED
    BY <2>1, <2>2, FS_EmptySet DEF GuardsCounted
<1>3. QED
  BY <1>1, <1>2 DEF QueueInv

LEMMA QueueInvNext == QueueInv /\ [QueueNext]_queueVars => QueueInv'
<1> SUFFICES ASSUME QueueInv, [QueueNext]_queueVars PROVE QueueInv'
  OBVIOUS
<1>1. ASSUME NEW s \in Subjects, InsertReviewQueue(s) PROVE QueueInv'
  <2>1. \A q \in Subjects : EnsuredRows(q)' \subseteq EnsuredRows(q)
    BY <1>1 DEF InsertReviewQueue, Appended, EnsuredRows, OpenRows, IsOpen
  <2>2. \A q \in Subjects : Inserting(q)' = Inserting(q)
    BY <1>1 DEF InsertReviewQueue, Inserting
  <2>3. QED
    BY <1>1, <2>1, <2>2, FewerCounted DEF QueueInv, InsertReviewQueue
<1>2. ASSUME NEW s \in Subjects, NEW g \in Guards, EnsureSelect(g, s) PROVE QueueInv'
  <2>1. ensure' \in [Guards -> Ensuring \cup {NoEnsure}] /\ time' \in 0 .. MaxTime
    BY <1>2 DEF EnsureSelect, QueueInv, Ensuring
  <2>2. QED
    BY <1>2, <2>1, SelectCounted DEF QueueInv
<1>3. ASSUME NEW g \in Guards, EnsureInsert(g) PROVE QueueInv'
  <2>1. ensure' \in [Guards -> Ensuring \cup {NoEnsure}] /\ time' \in 0 .. MaxTime
    BY <1>3 DEF EnsureInsert, QueueInv
  <2>2. QED
    BY <1>3, <2>1, InsertCounted DEF QueueInv
<1>4. ASSUME NEW g \in Guards, EnsureFails(g) PROVE QueueInv'
  <2>1. ensure' \in [Guards -> Ensuring \cup {NoEnsure}] /\ time' \in 0 .. MaxTime
    BY <1>4 DEF EnsureFails, QueueInv
  <2>2. \A q \in Subjects : EnsuredRows(q)' = EnsuredRows(q)
    BY <1>4 DEF EnsureFails, EnsuredRows, OpenRows
  <2>3. \A q \in Subjects : Inserting(q)' \subseteq Inserting(q)
    BY <1>4 DEF EnsureFails, Inserting, QueueInv
  <2>4. QED
    BY <2>1, <2>2, <2>3, FewerCounted DEF QueueInv
<1>5. ASSUME NEW r \in queue, NEW d \in Decisions, Decide(r, d) PROVE QueueInv'
  <2>1. d \notin {"pending", "in_progress"}
    BY QueueAssumption
  <2>2. [r EXCEPT !.status = d, !.updated = time].status = d \/
          ~ IsOpen([r EXCEPT !.status = d, !.updated = time])
    OBVIOUS
  <2>3. \A q \in Subjects : EnsuredRows(q)' \subseteq EnsuredRows(q)
    BY <1>5, <2>1, <2>2 DEF Decide, EnsuredRows, OpenRows, IsOpen
  <2>4. \A q \in Subjects : Inserting(q)' = Inserting(q)
    BY <1>5 DEF Decide, Inserting
  <2>5. QED
    BY <1>5, <2>3, <2>4, FewerCounted DEF QueueInv, Decide
<1>6. ASSUME UNCHANGED <<queue, ensure>>, time' \in 0 .. MaxTime PROVE QueueInv'
  <2>1. \A q \in Subjects : EnsuredRows(q)' = EnsuredRows(q) /\ Inserting(q)' = Inserting(q)
    BY <1>6 DEF EnsuredRows, OpenRows, Inserting
  <2>2. QED
    BY <1>6, <2>1, FewerCounted DEF QueueInv
<1>7. CASE QueueTick
  <2>1. UNCHANGED <<queue, ensure>> /\ time' \in 0 .. MaxTime
    BY <1>7, QueueAssumption DEF QueueTick, QueueInv
  <2>2. QED
    BY <1>6, <2>1
<1>8. CASE StartListing("") \/ StartListing("pending") \/ ReadPage \/ EndListing
  BY <1>6, <1>8 DEF StartListing, ReadPage, EndListing, QueueInv
<1>9. CASE BeginOps("metrics") \/ BeginOps("stats") \/ CountFirst \/ CountSecond
  BY <1>6, <1>9 DEF BeginOps, CountFirst, CountSecond, QueueInv
<1>10. CASE UNCHANGED queueVars
  BY <1>6, <1>10 DEF queueVars, QueueInv
<1>11. QED
  BY <1>1, <1>2, <1>3, <1>4, <1>5, <1>7, <1>8, <1>9, <1>10 DEF QueueNext

\* However many threads look at pages, fail, or are overtaken, and however often
\* operators decide: ensure_review_queue_pending never leaves more open rows of a
\* subject than there are threads.
THEOREM DuplicatesTheorem == QueueSpec => []DuplicatesBounded
<1>1. QueueInv => DuplicatesBounded
  <2> SUFFICES ASSUME QueueInv, NEW s \in Subjects
               PROVE  Cardinality(EnsuredRows(s)) <= Cardinality(Guards)
    BY DEF DuplicatesBounded
  <2>1. IsFiniteSet(Inserting(s)) /\ IsFiniteSet(Guards)
    BY QueueAssumption, FS_Subset DEF Inserting
  <2>2. /\ Cardinality(EnsuredRows(s)) \in Nat /\ Cardinality(Inserting(s)) \in Nat
        /\ Cardinality(Guards) \in Nat
    BY <2>1, FS_CardinalityType DEF QueueInv, GuardsCounted
  <2>3. QED
    BY <2>2 DEF QueueInv, GuardsCounted
<1>2. QED
  BY <1>1, QueueInvInit, QueueInvNext, PTL DEF QueueSpec

-----------------------------------------------------------------------------
(* The data.go clients.  Each slot is an interval after the one before, so *)
(* the requests that have left and those that sleep fit below the next     *)
(* slot, and those due by a time fit below that time.                      *)

Asleep == {t \in Callers : call[t].at = "sleep"}
Due(x) == {t \in Asleep : call[t].slot <= x}

Calls ==
  [at : {"reserve", "sleep", "sent", "store"}, attempt : Nat, slot : Nat, pages : Seq(Nat)]

ClientTyped ==
  /\ clock \in Nat /\ nextAllowed \in Nat /\ sent \in Nat
  /\ call \in [Callers -> Calls \cup {NoCall}]

SlotsBooked == (sent + Cardinality(Asleep)) * Interval <= nextAllowed

DueInTime ==
  \A x \in Nat : x >= clock => (sent + Cardinality(Due(x))) * Interval <= x + Interval

RateInv == ClientTyped /\ SlotsBooked /\ DueInTime

LEMMA OneMoreInterval ==
  ASSUME NEW n \in Nat PROVE (n + 1) * Interval = n * Interval + Interval
BY ClientAssumption

LEMMA FewerIntervals ==
  ASSUME NEW m \in Nat, NEW n \in Nat, m <= n
  PROVE  m * Interval <= n * Interval /\ m * Interval \in Nat /\ n * Interval \in Nat
<1>1. n - m \in Nat /\ Interval \in Nat
  BY ClientAssumption
<1>2. (n - m) * Interval \in Nat
  BY <1>1
<1>3. (n - m) * Interval = n * Interval - m * Interval
  BY <1>1
<1>4. m * Interval \in Nat /\ n * Interval \in Nat
  BY <1>1
<1>5. QED
  BY <1>2, <1>3, <1>4

LEMMA SleepersFinite ==
  /\ IsFiniteSet(Asleep) /\ Cardinality(Asleep) \in Nat
  /\ \A x : /\ IsFiniteSet(Due(x)) /\ Cardinality(Due(x)) \in Nat
            /\ Cardinality(Due(x)) <= Cardinality(Asleep)
<1>1. IsFiniteSet(Callers) /\ Asleep \subseteq Callers
  BY ClientAssumption DEF Asleep
<1>2. IsFiniteSet(Asleep) /\ Cardinality(Asleep) \in Nat
  BY <1>1, FS_Subset, FS_CardinalityType
<1>3. ASSUME NEW x
      PROVE  /\ IsFiniteSet(Due(x)) /\ Cardinality(Due(x)) \in Nat
             /\ Cardinality(Due(x)) <= Cardinality(Asleep)
  <2>1. Due(x) \subseteq Asleep
    BY DEF Due
  <2>2. QED
    BY <1>2, <2>1, FS_Subset, FS_CardinalityType
<1>4. QED
  BY <1>2, <1>3

\* As long as the sleepers and their slots stay, time may pass.
LEMMA RateFrame ==
  ASSUME RateInv, ClientTyped', clock' >= clock, nextAllowed' = nextAllowed, sent' = sent,
         Asleep' = Asleep, \A t \in Asleep : call'[t].slot = call[t].slot
  PROVE  RateInv'
<1>1. SlotsBooked'
  BY DEF RateInv, SlotsBooked
<1>2. \A x : Due(x)' = Due(x)
  BY DEF Due
<1>3. \A x \in Nat : x >= clock' => x >= clock
  BY DEF RateInv, ClientTyped
<1>4. DueInTime'
  BY <1>2, <1>3 DEF RateInv, DueInTime
<1>5. QED
  BY <1>1, <1>4 DEF RateInv

\* The slot a thread reserves lies behind all that are booked.
LEMMA RateReserve ==
  ASSUME RateInv, NEW t \in Callers, Reserve(t)
  PROVE  RateInv'
<1> DEFINE slot == Later(clock, nextAllowed)
<1>1. slot \in Nat /\ slot >= clock /\ slot >= nextAllowed
  BY DEF RateInv, ClientTyped, Later
<1>2. ClientTyped'
  <2>1. nextAllowed' \in Nat
    BY <1>1, ClientAssumption DEF Reserve, NextSlot
  <2>2. call' \in [Callers -> Calls \cup {NoCall}]
    BY <1>1 DEF RateInv, ClientTyped, Reserve, Calls
  <2>3. QED
    BY <2>1, <2>2 DEF RateInv, ClientTyped, Reserve
<1>3. /\ call'[t].at = "sleep" /\ call'[t].slot = slot
      /\ \A u \in Callers : u # t => call'[u] = call[u]
  BY DEF RateInv, ClientTyped, Reserve, Calls
<1>4. t \notin Asleep /\ Asleep' = Asleep \cup {t}
  BY <1>3 DEF Asleep, Reserve
<1>5. Cardinality(Asleep') = Cardinality(Asleep) + 1
  BY <1>4, SleepersFinite, FS_AddElement
<1>6. SlotsBooked'
  <2>1. sent' = sent /\ nextAllowed' = slot + Interval
    BY DEF Reserve, NextSlot
  <2>2. sent + Cardinality(Asleep) \in Nat /\ (sent + Cardinality(Asleep)) * Interval \in Nat
    BY SleepersFinite, ClientAssumption DEF RateInv, ClientTyped
  <2>3. (sent + Cardinality(Asleep')) * Interval = (sent + Cardinality(Asleep)) * Interval + Interval
    <3>1. sent + Cardinality(Asleep') = (sent + Cardinality(Asleep)) + 1
      BY <1>5, SleepersFinite DEF RateInv, ClientTyped
    <3>2. QED
      BY <2>2, <3>1, OneMoreInterval
  <2>4. (sent + Cardinality(Asleep)) * Interval <= nextAllowed
    BY DEF RateInv, SlotsBooked
  <2>5. QED
    BY <1>1, <2>1, <2>2, <2>3, <2>4, ClientAssumption DEF SlotsBooked, RateInv, ClientTyped
<1>7. ASSUME NEW x \in Nat, x >= clock'
      PROVE  (sent' + Cardinality(Due(x)')) * Interval <= x + Interval
  <2>1. clock' = clock /\ sent' = sent
    BY DEF Reserve
  <2>2. CASE x < slot
    <3>1. Due(x)' = Due(x)
      BY <1>1, <1>3, <1>4, <2>2 DEF Due, Asleep
    <3>2. QED
      BY <1>7, <2>1, <3>1 DEF RateInv, DueInTime
  <2>3. CASE x >= slot
    <3>1. Due(x)' = Due(x) \cup {t} /\ t \notin Due(x)
      BY <1>3, <1>4, <2>3 DEF Due, Asleep
    <3>2. Cardinality(Due(x)') = Cardinality(Due(x)) + 1
      BY <3>1, SleepersFinite, FS_AddElement
    <3>3. /\ sent + Cardinality(Due(x)) \in Nat /\ sent + Cardinality(Asleep) \in Nat
          /\ sent + Cardinality(Due(x)) <= sent + Cardinality(Asleep)
          /\ sent + Cardinality(Due(x)') = (sent + Cardinality(Due(x))) + 1
      BY <3>2, SleepersFinite DEF RateInv, ClientTyped
    <3>4. /\ (sent + Cardinality(Due(x))) * Interval <= (sent + Cardinality(Asleep)) * Interval
          /\ (sent + Cardinality(Due(x))) * Interval \in Nat
          /\ (sent + Cardinality(Asleep)) * Interval \in Nat
      BY <3>3, FewerIntervals
    <3>5. (sent + Cardinality(Asleep)) * Interval <= nextAllowed
      BY DEF RateInv, SlotsBooked
    <3>6. (sent + Cardinality(Due(x))) * Interval <= x
      BY <1>1, <2>3, <3>4, <3>5 DEF RateInv, ClientTyped
    <3>7. (sent + Cardinality(Due(x)')) * Interval = (sent + Cardinality(Due(x))) * Interval + Interval
      BY <3>3, OneMoreInterval
    <3>8. QED
      BY <2>1, <3>4, <3>6, <3>7, ClientAssumption
  <2>4. QED
    BY <1>1, <2>2, <2>3
<1>8. QED
  BY <1>2, <1>6, <1>7 DEF RateInv, DueInTime

\* A request that leaves was due.
LEMMA RateSend ==
  ASSUME RateInv, NEW t \in Callers, Send(t)
  PROVE  RateInv'
<1>1. ClientTyped'
  BY DEF RateInv, ClientTyped, Send, Calls
<1>2. call'[t].at = "sent" /\ \A u \in Callers : u # t => call'[u] = call[u]
  BY DEF RateInv, ClientTyped, Send, Calls
<1>3. t \in Asleep /\ Asleep' = Asleep \ {t}
  BY <1>2 DEF Asleep, Send
<1>4. sent' + Cardinality(Asleep') = sent + Cardinality(Asleep)
  <2>1. Cardinality(Asleep') = Cardinality(Asleep) - 1
    BY <1>3, SleepersFinite, FS_RemoveElement
  <2>2. QED
    BY <2>1, SleepersFinite DEF Send, RateInv, ClientTyped
<1>5. SlotsBooked'
  BY <1>4 DEF RateInv, SlotsBooked, Send
<1>6. ASSUME NEW x \in Nat, x >= clock'
      PROVE  (sent' + Cardinality(Due(x)')) * Interval <= x + Interval
  <2>1. x >= clock /\ clock >= call[t].slot /\ call[t].slot \in Nat
    BY <1>6 DEF Send, RateInv, ClientTyped, Calls
  <2>2. t \in Due(x) /\ Due(x)' = Due(x) \ {t}
    BY <1>2, <1>3, <2>1 DEF Due, Asleep, RateInv, ClientTyped
  <2>3. Cardinality(Due(x)') = Cardinality(Due(x)) - 1
    BY <2>2, SleepersFinite, FS_RemoveElement
  <2>4. sent' + Cardinality(Due(x)') = sent + Cardinality(Due(x))
    BY <2>3, SleepersFinite DEF Send, RateInv, ClientTyped
  <2>5. QED
    BY <2>1, <2>4 DEF RateInv, DueInTime
<1>7. QED
  BY <1>1, <1>5, <1>6 DEF RateInv, DueInTime

LEMMA RateInvInit == ClientInit => RateInv
<1> SUFFICES ASSUME ClientInit PROVE RateInv
  OBVIOUS
<1>1. ClientTyped
  BY DEF ClientInit, ClientTyped
<1>2. Asleep = {} /\ \A x : Due(x) = {}
  BY DEF ClientInit, Asleep, Due, NoCall
<1>3. Cardinality({}) = 0
  BY FS_EmptySet
<1>4. QED
  <2>1. sent = 0 /\ nextAllowed = 0 /\ clock = 0
    BY DEF ClientInit
  <2>2. sent + Cardinality(Asleep) = 0 /\ \A x : sent + Cardinality(Due(x)) = 0
    BY <1>2, <1>3, <2>1
  <2>3. 0 * Interval = 0 /\ Interval \in Nat
    BY ClientAssumption
  <2>4. QED
    BY <1>1, <2>1, <2>2, <2>3 DEF RateInv, SlotsBooked, DueInTime

LEMMA RateInvNext == RateInv /\ [ClientNext]_clientVars => RateInv'
<1> SUFFICES ASSUME RateInv, [ClientNext]_clientVars PROVE RateInv'
  OBVIOUS
<1>1. ASSUME NEW t \in Callers, CacheMiss(t) PROVE RateInv'
  <2>1. call'[t].at = "reserve" /\ call[t].at = "idle"
    BY <1>1 DEF CacheMiss, RateInv, ClientTyped, NoCall
  <2>2. \A u \in Callers : u # t => call'[u] = call[u]
    BY <1>1 DEF CacheMiss, RateInv, ClientTyped
  <2>3. Asleep' = Asleep /\ \A u \in Asleep : call'[u].slot = call[u].slot
    BY <2>1, <2>2 DEF Asleep
  <2>4. ClientTyped'
    BY <1>1 DEF CacheMiss, RateInv, ClientTyped, Calls
  <2>5. QED
    BY <1>1, <2>3, <2>4, RateFrame DEF CacheMiss, RateInv, ClientTyped
<1>2. ASSUME NEW t \in Callers, Answer(t) \/ FailRetryably(t) \/ GiveUp(t) \/ Store(t)
      PROVE  RateInv'
  <2>1. /\ call[t] \in Calls /\ call[t].at \in {"sent", "store"}
        /\ UNCHANGED <<clock, nextAllowed, sent>>
    BY <1>2 DEF Answer, FailRetryably, GiveUp, Store, RateInv, ClientTyped
  <2>2. Len(call[t].pages) + 1 \in Nat /\ Append(call[t].pages, Len(call[t].pages) + 1) \in Seq(Nat)
    BY <2>1 DEF Calls
  <2>3. ClientTyped'
    <3>1. CASE Answer(t)
      BY <2>1, <2>2, <3>1 DEF Answer, RateInv, ClientTyped, Calls
    <3>2. CASE FailRetryably(t)
      BY <2>1, <3>2 DEF FailRetryably, RateInv, ClientTyped, Calls
    <3>3. CASE GiveUp(t) \/ Store(t)
      BY <2>1, <3>3 DEF GiveUp, Store, RateInv, ClientTyped
    <3>4. QED
      BY <1>2, <3>1, <3>2, <3>3
  <2>4. call'[t].at # "sleep" /\ \A u \in Callers : u # t => call'[u] = call[u]
    BY <1>2, <2>1 DEF Answer, FailRetryably, GiveUp, Store, RateInv, ClientTyped, NoCall, Calls
  <2>5. Asleep' = Asleep /\ \A u \in Asleep : call'[u].slot = call[u].slot
    BY <2>1, <2>4 DEF Asleep
  <2>6. QED
    BY <2>1, <2>3, <2>5, RateFrame DEF RateInv, ClientTyped
<1>3. CASE ClientTick
  <2>1. ClientTyped' /\ clock' >= clock
    BY <1>3 DEF ClientTick, RateInv, ClientTyped
  <2>2. Asleep' = Asleep /\ \A u \in Asleep : call'[u].slot = call[u].slot
    BY <1>3 DEF ClientTick, Asleep
  <2>3. QED
    BY <1>3, <2>1, <2>2, RateFrame DEF ClientTick
<1>4. CASE UNCHANGED clientVars
  <2>1. ClientTyped' /\ clock' >= clock
    BY <1>4 DEF clientVars, RateInv, ClientTyped
  <2>2. Asleep' = Asleep /\ \A u \in Asleep : call'[u].slot = call[u].slot
    BY <1>4 DEF clientVars, Asleep
  <2>3. QED
    BY <1>4, <2>1, <2>2, RateFrame DEF clientVars
<1>5. QED
  BY <1>1, <1>2, <1>3, <1>4, RateReserve, RateSend DEF ClientNext

\* The quotient a client is measured by.
LEMMA RateBound ==
  ASSUME NEW n \in Nat, NEW c \in Nat, n * Interval <= c + Interval
  PROVE  n <= c \div Interval + 1
<1> DEFINE q == c \div Interval
<1>1. Interval \in Nat /\ Interval > 0
  BY ClientAssumption
<1>2. q \in Nat /\ c < q * Interval + Interval
  BY <1>1, Z3
<1>3. SUFFICES ASSUME n >= q + 2 PROVE FALSE
  BY <1>2
<1>4. q + 1 \in Nat /\ q + 2 \in Nat /\ q + 2 = (q + 1) + 1
  BY <1>2
<1>5. /\ (q + 1) * Interval = q * Interval + Interval
      /\ (q + 2) * Interval = (q + 1) * Interval + Interval
  BY <1>2, <1>4, OneMoreInterval
<1>6. (q + 2) * Interval <= n * Interval /\ n * Interval \in Nat /\ (q + 2) * Interval \in Nat
  BY <1>3, <1>4, FewerIntervals
<1>7. q * Interval \in Nat
  BY <1>1, <1>2
<1>8. QED
  <2> HIDE DEF q
  <2>1. QED
    BY <1>1, <1>2, <1>5, <1>6, <1>7

\* However many threads share a client, however often their requests fail and are sent
\* again, and however late a sleeping thread wakes: never more requests have left than
\* the configured rate allows.
THEOREM RateTheorem == ClientSpec => []NeverAheadOfRate
<1>1. RateInv => NeverAheadOfRate
  <2> SUFFICES ASSUME RateInv PROVE NeverAheadOfRate
    OBVIOUS
  <2>1. clock \in Nat /\ sent \in Nat /\ Cardinality(Due(clock)) \in Nat
    BY SleepersFinite DEF RateInv, ClientTyped
  <2>2. (sent + Cardinality(Due(clock))) * Interval <= clock + Interval
    BY <2>1 DEF RateInv, DueInTime
  <2>3. sent * Interval <= (sent + Cardinality(Due(clock))) * Interval
    BY <2>1, FewerIntervals
  <2>4. sent * Interval <= clock + Interval
    BY <2>1, <2>2, <2>3, ClientAssumption
  <2>5. QED
    BY <2>1, <2>4, RateBound DEF NeverAheadOfRate
<1>2. QED
  BY <1>1, RateInvInit, RateInvNext, PTL DEF ClientSpec

-----------------------------------------------------------------------------
(* What the readers of the queue rely on: ids are given out once and a row  *)
(* keeps its id and the time at which it was created.                       *)

Serially ==
  /\ IsFiniteSet(queue)
  /\ \A r \in queue : r.id \in 1 .. Cardinality(queue)
  /\ \A r, q \in queue : r.id = q.id => r = q

RowsInv == QueueTypeOK /\ Serially

\* A row as it is appended.
LEMMA AppendTyped ==
  ASSUME RowsInv, NEW s \in Subjects, NEW by \in {"insert", "ensure"},
         NEW began \in 0 .. MaxTime, Cardinality(queue) < MaxRows, queue' = Appended(s, by, began)
  PROVE  queue' \subseteq ReviewRow /\ Serially' /\ queue \subseteq queue'
<1> DEFINE row == [id |-> Cardinality(queue) + 1, subject |-> s, status |-> "pending",
                   by |-> by, created |-> began, updated |-> began]
<1>1. queue' = queue \cup {row}
  BY DEF Appended
<1>2. Cardinality(queue) \in Nat
  BY FS_CardinalityType DEF RowsInv, Serially
<1>3. row.id = Cardinality(queue) + 1 /\ row \notin queue
  BY <1>2 DEF RowsInv, Serially
<1>4. row \in ReviewRow
  BY <1>2, QueueAssumption DEF ReviewRow, Statuses
<1>5. IsFiniteSet(queue') /\ Cardinality(queue') = Cardinality(queue) + 1
  <2> HIDE DEF row
  <2> QED
    BY <1>1, <1>3, FS_AddElement DEF RowsInv, Serially
<1>6. \A r \in queue' : r.id \in 1 .. Cardinality(queue')
  BY <1>1, <1>2, <1>3, <1>5 DEF RowsInv, Serially
<1>7. \A r, q \in queue' : r.id = q.id => r = q
  <2> HIDE DEF row
  <2>1. \A r \in queue : r.id # row.id
    BY <1>2, <1>3 DEF RowsInv, Serially
  <2> QED
    BY <1>1, <2>1 DEF RowsInv, Serially
<1>8. queue' \subseteq ReviewRow
  BY <1>1, <1>4 DEF RowsInv, QueueTypeOK
<1>9. QED
  BY <1>1, <1>5, <1>6, <1>7, <1>8 DEF Serially

\* A decision changes the status and the time of the last change.
LEMMA DecideTyped ==
  ASSUME RowsInv, NEW r \in queue, NEW d \in Decisions, Decide(r, d)
  PROVE  /\ queue' \subseteq ReviewRow /\ Serially'
         /\ \E s \in ReviewRow : /\ s.id = r.id /\ s.created = r.created
                                 /\ s.subject = r.subject
                                 /\ queue' = (queue \ {r}) \cup {s}
<1> DEFINE s == [r EXCEPT !.status = d, !.updated = time]
<1>1. queue' = (queue \ {r}) \cup {s}
  BY DEF Decide
<1>2. r \in ReviewRow
  BY DEF RowsInv, QueueTypeOK
<1>3. /\ s \in ReviewRow /\ s.id = r.id /\ s.created = r.created
      /\ s.subject = r.subject
  BY <1>2, QueueAssumption DEF ReviewRow, Statuses, RowsInv, QueueTypeOK
<1> HIDE DEF s
<1>4. s \notin queue \ {r}
  BY <1>3 DEF RowsInv, Serially
<1>5. /\ IsFiniteSet(queue \ {r}) /\ Cardinality(queue \ {r}) = Cardinality(queue) - 1
      /\ Cardinality(queue) \in Nat
  BY FS_RemoveElement, FS_CardinalityType DEF RowsInv, Serially
<1>6. IsFiniteSet(queue') /\ Cardinality(queue') = Cardinality(queue)
  BY <1>1, <1>4, <1>5, FS_AddElement
<1>7. \A q \in queue' : q.id \in 1 .. Cardinality(queue')
  BY <1>1, <1>3, <1>6 DEF RowsInv, Serially
<1>8. \A p, q \in queue' : p.id = q.id => p = q
  BY <1>1, <1>3 DEF RowsInv, Serially
<1>9. QED
  BY <1>1, <1>2, <1>3, <1>6, <1>7, <1>8 DEF Serially, RowsInv, QueueTypeOK

\* Whatever happens, a row is still there under its id, created when it was.
RowsStay == \A r \in queue : \E q \in queue' : q.id = r.id /\ q.created = r.created

\* The ids of typed rows are within the bound.
LEMMA IdsBounded ==
  ASSUME RowsInv, NEW S \in SUBSET queue PROVE {r.id : r \in S} \subseteq 1 .. MaxRows
BY DEF RowsInv, QueueTypeOK, ReviewRow

LEMMA RowsInvInit == QueueInit => RowsInv
<1> SUFFICES ASSUME QueueInit PROVE RowsInv
  OBVIOUS
<1>1. QueueTypeOK
  BY QueueAssumption DEF QueueInit, QueueTypeOK
<1>2. Serially
  BY FS_EmptySet DEF QueueInit, Serially
<1>3. QED
  BY <1>1, <1>2 DEF RowsInv

\* The state of the pager tells what it is used for.
LEMMA PagerKinds ==
  ASSUME pager \in Listing \cup OpsPage \cup {NoListing}
  PROVE  /\ pager.at \in {"reading", "done"} => pager \in Listing
         /\ pager.at \in {"begun", "half", "told"} => pager \in OpsPage
<1>1. \A p \in Listing : p.at \in {"reading", "done"}
  BY DEF Listing
<1>2. \A p \in OpsPage : p.at \in {"begun", "half", "told"}
  BY DEF OpsPage
<1>3. NoListing.at = "idle"
  BY DEF NoListing
<1>4. QED
  BY <1>1, <1>2, <1>3

\* What a page read, and what a query of an operations page, changes.
LEMMA ListingChanged ==
  ASSUME pager \in Listing, NEW o, NEW s, NEW a, o \in Nat, s \in SUBSET (1 .. MaxRows),
         a \in {"reading", "done"},
         pager' = [pager EXCEPT !.offset = o, !.seen = s, !.at = a]
  PROVE  /\ pager' \in Listing /\ pager'.offset = o /\ pager'.seen = s /\ pager'.at = a
         /\ pager'.what = pager.what /\ pager'.existed = pager.existed
         /\ pager'.decided = pager.decided
<1>1. PICK p \in Listing : p = pager
  OBVIOUS
<1>2. pager' = [p EXCEPT !.offset = o, !.seen = s, !.at = a]
  BY <1>1
<1>3. QED
  BY <1>1, <1>2 DEF Listing

LEMMA FirstCounted ==
  ASSUME pager \in OpsPage, NEW s, s \in SUBSET (1 .. MaxRows),
         pager' = [pager EXCEPT !.at = "half", !.first = s]
  PROVE  /\ pager' \in OpsPage /\ pager'.at = "half" /\ pager'.first = s
         /\ pager'.began = pager.began
<1>1. PICK p \in OpsPage : p = pager
  OBVIOUS
<1>2. pager' = [p EXCEPT !.at = "half", !.first = s]
  BY <1>1
<1>3. QED
  BY <1>1, <1>2 DEF OpsPage

LEMMA SecondCounted ==
  ASSUME pager \in OpsPage, NEW s, s \in SUBSET (1 .. MaxRows),
         pager' = [pager EXCEPT !.at = "told", !.second = s]
  PROVE  /\ pager' \in OpsPage /\ pager'.at = "told" /\ pager'.second = s
         /\ pager'.first = pager.first
<1>1. PICK p \in OpsPage : p = pager
  OBVIOUS
<1>2. pager' = [p EXCEPT !.at = "told", !.second = s]
  BY <1>1
<1>3. QED
  BY <1>1, <1>2 DEF OpsPage

\* What the two queries count.
LEMMA CountsFirst ==
  ASSUME RowsInv, CountFirst
  PROVE  /\ pager' \in OpsPage /\ pager'.at = "half" /\ pager'.began = pager.began
         /\ queue' = queue /\ pager'.first \subseteq {r.id : r \in Windowed(pager.began)}
<1>1. pager \in OpsPage
  BY PagerKinds DEF CountFirst, RowsInv, QueueTypeOK
<1> DEFINE ids == {r.id : r \in {q \in Windowed(pager.began) :
                            pager.what = "metrics" => q.subject \in MappingErrors}}
<1>2. ids \in SUBSET (1 .. MaxRows) /\ ids \subseteq {r.id : r \in Windowed(pager.began)}
  BY IdsBounded DEF Windowed
<1>3. pager' = [pager EXCEPT !.at = "half", !.first = ids] /\ queue' = queue
  BY DEF CountFirst
<1> HIDE DEF ids
<1>4. pager' \in OpsPage /\ pager'.at = "half" /\ pager'.began = pager.began /\ pager'.first = ids
  BY <1>1, <1>2, <1>3, FirstCounted, Zenon
<1>5. QED
  BY <1>2, <1>3, <1>4

LEMMA CountsSecond ==
  ASSUME RowsInv, CountSecond
  PROVE  /\ pager' \in OpsPage /\ pager'.at = "told" /\ pager'.first = pager.first
         /\ pager'.second = {r.id : r \in Windowed(pager.began)}
<1>1. pager \in OpsPage
  BY PagerKinds DEF CountSecond, RowsInv, QueueTypeOK
<1>2. {r.id : r \in Windowed(pager.began)} \in SUBSET (1 .. MaxRows)
  BY IdsBounded DEF Windowed
<1>3. QED
  BY <1>1, <1>2, SecondCounted, Zenon DEF CountSecond

\* What the pager holds stays typed.
LEMMA PagerTyped ==
  ASSUME RowsInv, [QueueNext]_queueVars
  PROVE  pager' \in Listing \cup OpsPage \cup {NoListing}
<1>0. pager \in Listing \cup OpsPage \cup {NoListing}
  BY DEF RowsInv, QueueTypeOK
<1>1. ASSUME NEW what \in {"", "pending"}, StartListing(what) PROVE pager' \in Listing
  <2>1. {r.id : r \in {q \in queue : what = "" \/ q.status = what}} \subseteq 1 .. MaxRows
    BY IdsBounded
  <2>2. QED
    BY <1>1, <2>1 DEF StartListing, Listing
<1>2. CASE ReadPage
  <2>1. PICK rowsRead \in {Page(pager.what, pager.offset)} :
          pager' = [pager EXCEPT !.offset = @ + PageSize, !.seen = @ \cup {r.id : r \in rowsRead},
                              !.at = IF Cardinality(rowsRead) < PageSize THEN "done" ELSE @]
    BY <1>2 DEF ReadPage
  <2>2. rowsRead \in SUBSET queue
    BY DEF Page
  <2>3. {r.id : r \in rowsRead} \subseteq 1 .. MaxRows
    BY <2>2, IdsBounded
  <2>4. pager \in Listing
    BY <1>2, <1>0, PagerKinds DEF ReadPage
  <2> DEFINE at == IF Cardinality(rowsRead) < PageSize THEN "done" ELSE pager.at
             ids == {r.id : r \in rowsRead}
  <2>5. at \in {"reading", "done"} /\ pager.seen \cup ids \in SUBSET (1 .. MaxRows)
    <3>1. pager.at = "reading" /\ pager.seen \in SUBSET (1 .. MaxRows)
      BY <1>2, <2>4 DEF ReadPage, Listing
    <3>2. QED
      BY <2>3, <3>1
  <2>6. pager.offset + PageSize \in Nat
    <3>1. pager.offset \in Nat
      BY <2>4 DEF Listing
    <3>2. QED
      BY <3>1, QueueAssumption
  <2>7. pager' = [pager EXCEPT !.offset = pager.offset + PageSize,
                               !.seen = pager.seen \cup ids, !.at = at]
    BY <2>1
  <2> HIDE DEF at, ids
  <2>8. QED
    BY <2>4, <2>5, <2>6, <2>7, ListingChanged, Zenon
<1>3. ASSUME NEW what \in {"metrics", "stats"}, BeginOps(what) PROVE pager' \in OpsPage
  BY <1>3 DEF BeginOps, OpsPage, RowsInv, QueueTypeOK
<1>4. CASE CountFirst
  BY <1>4, CountsFirst
<1>5. CASE CountSecond
  BY <1>5, CountsSecond
<1>6. ASSUME NEW r, NEW d, Decide(r, d) PROVE pager' \in Listing \cup OpsPage \cup {NoListing}
  BY <1>6, <1>0, PagerKinds DEF Decide, IsListing, Listing
<1>7. CASE \/ \E s \in Subjects : InsertReviewQueue(s) \/ \E g \in Guards : EnsureSelect(g, s)
           \/ \E g \in Guards : EnsureInsert(g) \/ EnsureFails(g)
           \/ EndListing \/ QueueTick \/ UNCHANGED queueVars
  BY <1>0, <1>7 DEF InsertReviewQueue, EnsureSelect, EnsureInsert, EnsureFails, EndListing, QueueTick,
              queueVars
<1>8. QED
  BY <1>1, <1>2, <1>3, <1>4, <1>5, <1>6, <1>7 DEF QueueNext

LEMMA RowsInvNext ==
  RowsInv /\ [QueueNext]_queueVars => RowsInv' /\ RowsStay
<1> SUFFICES ASSUME RowsInv, [QueueNext]_queueVars PROVE RowsInv' /\ RowsStay
  OBVIOUS
<1>0. pager' \in Listing \cup OpsPage \cup {NoListing}
  BY PagerTyped
<1>1. ASSUME queue' = queue, time' \in 0 .. MaxTime, ensure' \in [Guards -> Ensuring \cup {NoEnsure}]
      PROVE  RowsInv' /\ RowsStay
  BY <1>0, <1>1 DEF RowsInv, QueueTypeOK, Serially, RowsStay
<1>2. ASSUME NEW s \in Subjects, InsertReviewQueue(s) PROVE RowsInv' /\ RowsStay
  <2>1. queue' \subseteq ReviewRow /\ Serially' /\ queue \subseteq queue'
    BY <1>2, AppendTyped DEF InsertReviewQueue, RowsInv, QueueTypeOK
  <2>2. QED
    BY <1>0, <1>2, <2>1 DEF InsertReviewQueue, RowsInv, QueueTypeOK, RowsStay
<1>3. ASSUME NEW g \in Guards, EnsureInsert(g) PROVE RowsInv' /\ RowsStay
  <2>1. ensure[g] \in Ensuring
    BY <1>3 DEF EnsureInsert, RowsInv, QueueTypeOK
  <2>2. ensure[g].subject \in Subjects /\ ensure[g].began \in 0 .. MaxTime
    BY <2>1 DEF Ensuring
  <2>3. queue' \subseteq ReviewRow /\ Serially' /\ queue \subseteq queue'
    BY <1>3, <2>2, AppendTyped DEF EnsureInsert, RowsInv, QueueTypeOK
  <2>4. ensure' \in [Guards -> Ensuring \cup {NoEnsure}]
    BY <1>3 DEF EnsureInsert, RowsInv, QueueTypeOK
  <2>5. QED
    BY <1>0, <1>3, <2>3, <2>4 DEF EnsureInsert, RowsInv, QueueTypeOK, RowsStay
<1>4. ASSUME NEW r \in queue, NEW d \in Decisions, Decide(r, d) PROVE RowsInv' /\ RowsStay
  <2>1. queue' \subseteq ReviewRow /\ Serially'
    BY <1>4, DecideTyped
  <2>2. PICK s \in ReviewRow : /\ s.id = r.id /\ s.created = r.created
                               /\ queue' = (queue \ {r}) \cup {s}
    BY <1>4, DecideTyped
  <2>3. RowsStay
    BY <2>2 DEF RowsStay
  <2>4. QED
    BY <1>0, <1>4, <2>1, <2>3 DEF Decide, RowsInv, QueueTypeOK
<1>5. CASE \E s \in Subjects, g \in Guards : EnsureSelect(g, s)
  <2>1. PICK s \in Subjects, g \in Guards : EnsureSelect(g, s)
    BY <1>5
  <2>2. ensure' \in [Guards -> Ensuring \cup {NoEnsure}]
    BY <2>1 DEF EnsureSelect, RowsInv, QueueTypeOK, Ensuring
  <2>3. QED
    BY <1>1, <2>1, <2>2 DEF EnsureSelect, RowsInv, QueueTypeOK
<1>6. CASE \E g \in Guards : EnsureFails(g)
  BY <1>1, <1>6 DEF EnsureFails, RowsInv, QueueTypeOK
<1>7. CASE QueueTick
  BY <1>1, <1>7, QueueAssumption DEF QueueTick, RowsInv, QueueTypeOK
<1>8. CASE \/ StartListing("") \/ StartListing("pending") \/ ReadPage \/ EndListing
           \/ BeginOps("metrics") \/ BeginOps("stats") \/ CountFirst \/ CountSecond
           \/ UNCHANGED queueVars
  BY <1>1, <1>8 DEF StartListing, ReadPage, EndListing, BeginOps, CountFirst, CountSecond,
     queueVars, RowsInv, QueueTypeOK
<1>9. QED
  BY <1>2, <1>3, <1>4, <1>5, <1>6, <1>7, <1>8 DEF QueueNext

\* The rows of the queue, its clock, the guards and the pages keep their types, and ids
\* stay within the sequence.
THEOREM QueueTypesTheorem == QueueSpec => []QueueTypeOK
<1>1. RowsInv => QueueTypeOK
  BY DEF RowsInv
<1>2. QED
  BY <1>1, RowsInvInit, RowsInvNext, PTL DEF QueueSpec

-----------------------------------------------------------------------------
(* The operations pages.                                                   *)

CountedStay == pager.at = "half" => pager.first \subseteq {r.id : r \in Windowed(pager.began)}
OpsInv == RowsInv /\ CountedStay /\ OpsPageCoherent

LEMMA OpsInvInit == QueueInit => OpsInv
BY RowsInvInit DEF QueueInit, NoListing, OpsInv, CountedStay, OpsPageCoherent

LEMMA OpsInvNext == OpsInv /\ [QueueNext]_queueVars => OpsInv'
<1> SUFFICES ASSUME OpsInv, [QueueNext]_queueVars PROVE OpsInv'
  OBVIOUS
<1>1. RowsInv' /\ RowsStay
  BY RowsInvNext DEF OpsInv
<1>2. CASE pager' = pager
  <2>1. OpsPageCoherent'
    BY <1>2 DEF OpsInv, OpsPageCoherent
  <2>2. ASSUME pager.at = "half", NEW r \in Windowed(pager.began)
        PROVE  \E q \in Windowed(pager.began)' : q.id = r.id
    BY <1>1, <1>2 DEF Windowed, RowsStay
  <2>3. CountedStay'
    BY <1>2, <2>2 DEF OpsInv, CountedStay
  <2>4. QED
    BY <1>1, <2>1, <2>3 DEF OpsInv
<1>3. CASE CountFirst
  <2>1. CountedStay' /\ OpsPageCoherent'
    BY <1>3, CountsFirst DEF CountedStay, OpsPageCoherent, Windowed, OpsInv
  <2>2. QED
    BY <1>1, <2>1 DEF OpsInv
<1>4. CASE CountSecond
  <2>1. CountedStay' /\ OpsPageCoherent'
    BY <1>4, CountsSecond DEF CountSecond, CountedStay, OpsPageCoherent, OpsInv
  <2>2. QED
    BY <1>1, <2>1 DEF OpsInv
<1>5. CASE pager'.at \notin {"half", "told"}
  BY <1>1, <1>5 DEF OpsInv, CountedStay, OpsPageCoherent
<1>6. pager' = pager \/ CountFirst \/ CountSecond \/ pager'.at \notin {"half", "told"}
  <2>1. ASSUME NEW r, NEW d, Decide(r, d) PROVE pager' = pager \/ pager'.at \notin {"half", "told"}
    <3>1. IsListing => pager \in Listing
      BY PagerKinds DEF IsListing, OpsInv, RowsInv, QueueTypeOK
    <3>2. QED
      BY <2>1, <3>1 DEF Decide, IsListing, Listing
  <2>2. ASSUME ReadPage PROVE pager'.at \notin {"half", "told"}
    <3>1. pager \in Listing
      BY <2>2, PagerKinds DEF ReadPage, OpsInv, RowsInv, QueueTypeOK
    <3>2. \A o, q, a : [pager EXCEPT !.offset = o, !.seen = q, !.at = a].at = a
      BY <3>1 DEF Listing
    <3>3. QED
      BY <2>2, <3>2 DEF ReadPage
  <2>3. ASSUME NEW what, StartListing(what) \/ BeginOps(what)
        PROVE  pager'.at \notin {"half", "told"}
    <3>1. ASSUME NEW q
          PROVE  [at |-> "reading", what |-> what, offset |-> 0, seen |-> {},
                  decided |-> FALSE, existed |-> q].at = "reading"
      OBVIOUS
    <3>2. StartListing(what) => pager'.at = "reading"
      BY <3>1, Zenon DEF StartListing
    <3>3. BeginOps(what) => pager'.at = "begun"
      BY DEF BeginOps
    <3>4. QED
      BY <2>3, <3>2, <3>3
  <2>4. ASSUME EndListing PROVE pager'.at \notin {"half", "told"}
    BY <2>4 DEF EndListing, NoListing
  <2>5. QED
    BY <2>1, <2>2, <2>3, <2>4 DEF QueueNext, InsertReviewQueue, EnsureSelect, EnsureInsert,
       EnsureFails, QueueTick, queueVars
<1>7. QED
  BY <1>2, <1>3, <1>4, <1>5, <1>6

\* The queries of one operations page see more and more of the queue, over one window:
\* no row is deleted, none changes the time it was created, so what an earlier query
\* counted a later one counts.
THEOREM OpsPagesTheorem == QueueSpec => []OpsPageCoherent
<1>1. OpsInv => OpsPageCoherent
  BY DEF OpsInv
<1>2. QED
  BY <1>1, OpsInvInit, OpsInvNext, PTL DEF QueueSpec

-----------------------------------------------------------------------------
(* Reading page by page.  A row that was there and has not been read is at  *)
(* least as far down the list as the offset: inserts only push rows down,   *)
(* decisions move none while no status is asked for.                        *)

Filtered(Q, what) == {r \in Q : what = "" \/ r.status = what}
Ahead(Q, r, what) == {q \in Filtered(Q, what) : ListedBefore(q, r)}
IdsAhead(Q, r, what) == {q.id : q \in Ahead(Q, r, what)}

Unseen ==
  pager.at = "reading" /\ (pager.what = "" \/ ~ pager.decided) =>
    \A i \in pager.existed \ pager.seen :
      \E r \in Filtered(queue, pager.what) :
        r.id = i /\ Cardinality(IdsAhead(queue, r, pager.what)) >= pager.offset

ListInv == RowsInv /\ Unseen /\ PagingSkipsNothing

\* Counting ids is counting rows.
LEMMA IdsCounted ==
  ASSUME NEW S, IsFiniteSet(S), \A r, q \in S : r.id = q.id => r = q
  PROVE  /\ IsFiniteSet({r.id : r \in S})
         /\ Cardinality({r.id : r \in S}) = Cardinality(S) /\ Cardinality(S) \in Nat
<1> DEFINE ids == {r.id : r \in S}
           f == [r \in S |-> r.id]
<1>2. f \in Bijection(S, ids)
  <2>1. \A r, q \in S : f[r] = f[q] => r = q
    OBVIOUS
  <2>2. f \in [S -> ids] /\ \A i \in ids : \E r \in S : f[r] = i
    OBVIOUS
  <2> HIDE DEF f, ids
  <2>3. QED
    BY <2>1, <2>2 DEF Bijection, Injection, Surjection, IsInjective
<1>3. IsFiniteSet(ids) /\ Cardinality(ids) = Cardinality(S)
  <2> HIDE DEF f, ids
  <2>1. ExistsBijection(S, ids)
    BY <1>2 DEF ExistsBijection
  <2>2. QED
    BY <2>1, FS_Bijection
<1>4. QED
  BY <1>3, FS_CardinalityType

\* A row is listed behind as many rows as there are ids ahead of it, fewer than all,
\* and no two rows are listed behind equally many.
LEMMA Ranked ==
  ASSUME RowsInv, NEW what
  PROVE  /\ IsFiniteSet(Filtered(queue, what)) /\ Cardinality(Filtered(queue, what)) \in Nat
         /\ \A r \in Filtered(queue, what) :
              /\ Cardinality(IdsAhead(queue, r, what)) = Cardinality(Ahead(queue, r, what))
              /\ Cardinality(Ahead(queue, r, what)) \in 0 .. Cardinality(Filtered(queue, what)) - 1
              /\ Cardinality(IdsAhead(queue, r, what)) >= 0
         /\ \A r, q \in Filtered(queue, what) :
              Cardinality(Ahead(queue, r, what)) = Cardinality(Ahead(queue, q, what)) => r = q
<1>1. /\ IsFiniteSet(Filtered(queue, what)) /\ Cardinality(Filtered(queue, what)) \in Nat
      /\ Filtered(queue, what) \subseteq queue
  BY FS_Subset, FS_CardinalityType DEF Filtered, RowsInv, Serially
<1>2. \A r \in Filtered(queue, what) : r.id \in Int /\ r.created \in Int
  BY <1>1 DEF RowsInv, QueueTypeOK, ReviewRow
<1>3. ASSUME NEW r \in Filtered(queue, what)
      PROVE  /\ Cardinality(IdsAhead(queue, r, what)) = Cardinality(Ahead(queue, r, what))
             /\ IsFiniteSet(Ahead(queue, r, what))
             /\ Cardinality(Ahead(queue, r, what)) \in 0 .. Cardinality(Filtered(queue, what)) - 1
             /\ Cardinality(IdsAhead(queue, r, what)) >= 0
  <2>1. Ahead(queue, r, what) \in SUBSET Filtered(queue, what) /\ r \notin Ahead(queue, r, what)
    BY <1>2 DEF Ahead, ListedBefore
  <2>2. /\ IsFiniteSet(Ahead(queue, r, what)) /\ Cardinality(Ahead(queue, r, what)) \in Nat
        /\ Cardinality(IdsAhead(queue, r, what)) = Cardinality(Ahead(queue, r, what))
    <3>1. IsFiniteSet(Ahead(queue, r, what))
      BY <1>1, <2>1, FS_Subset
    <3>2. \A p, q \in Ahead(queue, r, what) : p.id = q.id => p = q
      BY <1>1, <2>1 DEF RowsInv, Serially
    <3>3. QED
      BY <3>1, <3>2, IdsCounted, FS_CardinalityType DEF IdsAhead
  <2>3. /\ Cardinality(Ahead(queue, r, what)) <= Cardinality(Filtered(queue, what))
        /\ Cardinality(Filtered(queue, what)) # Cardinality(Ahead(queue, r, what))
    BY <1>1, <2>1, FS_Subset
  <2>4. QED
    BY <1>1, <2>2, <2>3
<1>4. ASSUME NEW r \in Filtered(queue, what), NEW q \in Filtered(queue, what), ListedBefore(r, q)
      PROVE  Cardinality(Ahead(queue, r, what)) # Cardinality(Ahead(queue, q, what))
  <2>1. \A p \in Filtered(queue, what) : ListedBefore(p, r) => ListedBefore(p, q)
    BY <1>2, <1>4 DEF ListedBefore
  <2>2. Ahead(queue, r, what) \in SUBSET Ahead(queue, q, what)
    BY <2>1 DEF Ahead
  <2>3. r \in Ahead(queue, q, what) /\ r \notin Ahead(queue, r, what)
    BY <1>2, <1>4 DEF Ahead, ListedBefore
  <2>4. QED
    BY <1>3, <2>2, <2>3, FS_Subset
<1>5. ASSUME NEW r \in Filtered(queue, what), NEW q \in Filtered(queue, what), r # q
      PROVE  ListedBefore(r, q) \/ ListedBefore(q, r)
  <2>1. r.id # q.id
    BY <1>1, <1>5 DEF RowsInv, Serially
  <2>2. QED
    BY <1>2, <2>1 DEF ListedBefore
<1>6. \A r, q \in Filtered(queue, what) :
        Cardinality(Ahead(queue, r, what)) = Cardinality(Ahead(queue, q, what)) => r = q
  BY <1>4, <1>5
<1>7. QED
  BY <1>1, <1>3, <1>6

LEMMA PageRanks ==
  ASSUME NEW what, NEW offset
  PROVE  Page(what, offset) =
           {r \in Filtered(queue, what) : Cardinality(Ahead(queue, r, what)) \in offset .. offset + PageSize - 1}
BY DEF Page, Filtered, Ahead

\* As long as a row is listed behind the page, the page is full: the ranks leave no gap.
LEMMA PageFull ==
  ASSUME RowsInv, NEW what, NEW offset \in Nat, NEW r \in Filtered(queue, what),
         Cardinality(Ahead(queue, r, what)) >= offset + PageSize
  PROVE  Cardinality(Page(what, offset)) = PageSize
<1> DEFINE n == Cardinality(Filtered(queue, what))
           f == [q \in Filtered(queue, what) |-> Cardinality(Ahead(queue, q, what))]
           rowsRead == Page(what, offset)
           places == offset .. offset + PageSize - 1
           g == [q \in rowsRead |-> Cardinality(Ahead(queue, q, what))]
<1>1. n \in Nat /\ IsFiniteSet(Filtered(queue, what))
  BY Ranked
<1>2. f \in Injection(Filtered(queue, what), 0 .. n - 1)
  <2>1. f \in [Filtered(queue, what) -> 0 .. n - 1]
    BY Ranked
  <2>2. \A q, p \in Filtered(queue, what) : f[q] = f[p] => q = p
    BY Ranked
  <2> HIDE DEF f, n
  <2>3. QED
    BY <2>1, <2>2 DEF Injection, IsInjective
<1>3. IsFiniteSet(0 .. n - 1) /\ Cardinality(0 .. n - 1) = n
  <2> HIDE DEF n
  <2>1. 0 \in Int /\ n - 1 \in Int
    BY <1>1
  <2>2. /\ IsFiniteSet(0 .. n - 1)
        /\ Cardinality(0 .. n - 1) = IF 0 > n - 1 THEN 0 ELSE n - 1 - 0 + 1
    BY <2>1, FS_Interval
  <2>3. QED
    BY <1>1, <2>2
<1>4. f \in Surjection(Filtered(queue, what), 0 .. n - 1)
  <2> HIDE DEF f
  <2> QED
    BY <1>2, <1>3, FS_Injection
<1>5. \A k \in 0 .. n - 1 : \E q \in Filtered(queue, what) : Cardinality(Ahead(queue, q, what)) = k
  BY <1>4 DEF Surjection
<1>6. places \subseteq 0 .. n - 1
  <2>1. Cardinality(Ahead(queue, r, what)) \in 0 .. n - 1
    BY Ranked
  <2>2. QED
    BY <1>1, <2>1, QueueAssumption
<1>7. rowsRead = {q \in Filtered(queue, what) : Cardinality(Ahead(queue, q, what)) \in places}
  BY PageRanks
<1>8. g \in Bijection(rowsRead, places)
  <2>1. g \in [rowsRead -> places]
    BY <1>7
  <2>2. \A q, p \in rowsRead : g[q] = g[p] => q = p
    BY <1>7, Ranked
  <2>3. \A k \in places : \E q \in rowsRead : g[q] = k
    BY <1>5, <1>6, <1>7
  <2> HIDE DEF g, rowsRead, places
  <2>4. QED
    BY <2>1, <2>2, <2>3 DEF Bijection, Injection, Surjection, IsInjective
<1>9. IsFiniteSet(rowsRead)
  BY <1>1, <1>7, FS_Subset
<1>10. Cardinality(places) = PageSize
  <2>1. offset \in Int /\ offset + PageSize - 1 \in Int /\ ~ offset > offset + PageSize - 1
    BY QueueAssumption
  <2>2. QED
    BY <2>1, FS_Interval, QueueAssumption
<1>11. Cardinality(places) = Cardinality(rowsRead)
  <2> HIDE DEF g, rowsRead, places
  <2>1. ExistsBijection(rowsRead, places)
    BY <1>8 DEF ExistsBijection
  <2>2. QED
    BY <1>9, <2>1, FS_Bijection
<1>12. QED
  BY <1>10, <1>11

LEMMA ListInvInit == QueueInit => ListInv
<1> SUFFICES ASSUME QueueInit PROVE ListInv
  OBVIOUS
<1>1. pager.at = "idle"
  BY DEF QueueInit, NoListing
<1>2. QED
  BY <1>1, RowsInvInit DEF ListInv, Unseen, PagingSkipsNothing

LEMMA Larger == \A a, b, o \in Nat : b >= o /\ b <= a => a >= o
OBVIOUS

\* What was listed before a row stays listed before it, and nothing changes for a listing
\* without a filter when somebody decides.
LEMMA RowsPushed ==
  ASSUME RowsInv, RowsInv', pager' = pager, Unseen, queue \subseteq queue'
  PROVE  Unseen'
<1> SUFFICES ASSUME pager.at = "reading", pager.what = "" \/ ~ pager.decided,
                    NEW i \in pager.existed \ pager.seen, NEW what, what = pager.what
             PROVE  \E r \in Filtered(queue', what) :
                      r.id = i /\ Cardinality(IdsAhead(queue', r, what)) >= pager.offset
  BY DEF Unseen
<1>1. PICK r \in Filtered(queue, what) :
        r.id = i /\ Cardinality(IdsAhead(queue, r, what)) >= pager.offset
  BY DEF Unseen
<1>2. Filtered(queue, what) \subseteq Filtered(queue', what)
  BY DEF Filtered
<1>3. IdsAhead(queue, r, what) \in SUBSET IdsAhead(queue', r, what)
  BY <1>2 DEF IdsAhead, Ahead
<1>4. /\ Ahead(queue', r, what) \in SUBSET queue' /\ IsFiniteSet(queue')
      /\ \A p, q \in queue' : p.id = q.id => p = q
  BY DEF Ahead, Filtered, RowsInv, Serially
<1>5. IsFiniteSet(IdsAhead(queue', r, what))
  BY <1>4, IdsCounted, FS_Subset DEF IdsAhead
<1>6. /\ Cardinality(IdsAhead(queue, r, what)) <= Cardinality(IdsAhead(queue', r, what))
      /\ Cardinality(IdsAhead(queue', r, what)) \in Nat /\ Cardinality(IdsAhead(queue, r, what)) \in Nat
  BY <1>3, <1>5, FS_Subset, FS_CardinalityType
<1>7. pager.offset \in Nat
  <2>1. pager \in Listing
    BY PagerKinds DEF RowsInv, QueueTypeOK
  <2>2. QED
    BY <2>1 DEF Listing
<1>8. Cardinality(IdsAhead(queue', r, what)) >= pager.offset
  BY <1>1, <1>6, <1>7, Larger, Zenon
<1>9. QED
  BY <1>1, <1>2, <1>8

\* A page read takes the rows of its ranks; while it is full the rest is further down,
\* and when it is not there is no rest.
LEMMA ReadPageListed == ASSUME ListInv, RowsInv', ReadPage PROVE ListInv'
<1>1. PICK rowsRead \in {Page(pager.what, pager.offset)} :
        pager' = [pager EXCEPT !.offset = @ + PageSize, !.seen = @ \cup {r.id : r \in rowsRead},
                               !.at = IF Cardinality(rowsRead) < PageSize THEN "done" ELSE @]
  BY DEF ReadPage
<1>2. pager \in Listing /\ pager.at = "reading"
  BY PagerKinds DEF ListInv, RowsInv, QueueTypeOK, ReadPage
<1>3. PICK ids : ids = {r.id : r \in rowsRead}
  OBVIOUS
<1>4. PICK at : at = IF Cardinality(rowsRead) < PageSize THEN "done" ELSE "reading"
  OBVIOUS
<1>5. /\ pager' \in Listing /\ pager'.offset = pager.offset + PageSize
      /\ pager'.seen = pager.seen \cup ids /\ pager'.at = at /\ pager'.what = pager.what
      /\ pager'.existed = pager.existed /\ pager'.decided = pager.decided
  <2>1. pager.offset + PageSize \in Nat /\ pager.seen \in SUBSET (1 .. MaxRows)
    <3>1. pager.offset \in Nat /\ pager.seen \in SUBSET (1 .. MaxRows)
      BY <1>2 DEF Listing
    <3>2. QED
      BY <3>1, QueueAssumption
  <2>2. ids \subseteq 1 .. MaxRows
    BY <1>3, IdsBounded DEF Page, ListInv
  <2>3. at \in {"reading", "done"}
    BY <1>4
  <2>4. pager' = [pager EXCEPT !.offset = pager.offset + PageSize,
                               !.seen = pager.seen \cup ids, !.at = at]
    BY <1>1, <1>2, <1>3, <1>4
  <2>5. pager.seen \cup ids \in SUBSET (1 .. MaxRows)
    BY <2>1, <2>2
  <2>6. QED
    BY <1>2, <2>1, <2>3, <2>4, <2>5, ListingChanged
<1>6. queue' = queue
  BY DEF ReadPage
<1>7. ASSUME pager.what = "" \/ ~ pager.decided, NEW i \in pager'.existed \ pager'.seen
      PROVE  /\ at = "reading"
             /\ \E r \in Filtered(queue', pager'.what) :
                  /\ r.id = i
                  /\ Cardinality(IdsAhead(queue', r, pager'.what)) >= pager'.offset
  <2>1. i \in pager.existed \ pager.seen /\ i \notin ids
    BY <1>5, <1>7
  <2>2. PICK r \in Filtered(queue, pager.what) :
          r.id = i /\ Cardinality(IdsAhead(queue, r, pager.what)) >= pager.offset
    BY <1>2, <1>7, <2>1 DEF ListInv, Unseen
  <2>3. r \notin Page(pager.what, pager.offset)
    BY <1>1, <1>3, <2>1, <2>2
  <2>4. PICK rank \in Nat : /\ rank = Cardinality(Ahead(queue, r, pager.what))
                            /\ rank = Cardinality(IdsAhead(queue, r, pager.what))
    BY Ranked DEF ListInv
  <2>5. rank \notin pager.offset .. pager.offset + PageSize - 1
    BY <2>3, <2>4, PageRanks
  <2>6. pager.offset \in Nat
    BY <1>2 DEF Listing
  <2>7. rank >= pager.offset + PageSize
    BY <2>2, <2>4, <2>5, <2>6, QueueAssumption
  <2>8. Cardinality(rowsRead) = PageSize
    BY <1>1, <2>4, <2>6, <2>7, PageFull DEF ListInv
  <2>9. QED
    BY <1>4, <1>5, <1>6, <2>2, <2>4, <2>7, <2>8, QueueAssumption
<1>8. Unseen'
  BY <1>5, <1>7 DEF Unseen
<1>9. PagingSkipsNothing'
  BY <1>4, <1>5, <1>7 DEF PagingSkipsNothing
<1>10. QED
  BY <1>8, <1>9 DEF ListInv

\* A decision moves no row of a list without a filter; a filtered one is marked.
LEMMA DecideListed ==
  ASSUME ListInv, RowsInv', NEW r \in queue, NEW d \in Decisions, Decide(r, d)
  PROVE  ListInv'
<1>1. PICK s \in ReviewRow : /\ s.id = r.id /\ s.created = r.created
                             /\ queue' = (queue \ {r}) \cup {s}
  BY DecideTyped DEF ListInv
<1>2. CASE ~ IsListing
  BY <1>2 DEF Decide, IsListing, ListInv, Unseen, PagingSkipsNothing
<1>3. CASE IsListing
  <2>1. pager \in Listing
    BY <1>3, PagerKinds DEF IsListing, ListInv, RowsInv, QueueTypeOK
  <2>2. /\ pager'.at = pager.at /\ pager'.what = pager.what /\ pager'.decided
        /\ pager'.existed = pager.existed /\ pager'.seen = pager.seen
        /\ pager'.offset = pager.offset
    <3>1. pager' = [pager EXCEPT !.decided = TRUE]
      BY <1>3 DEF Decide
    <3>2. QED
      BY <2>1, <3>1 DEF Listing
  <2>3. PagingSkipsNothing'
    BY <2>2 DEF ListInv, PagingSkipsNothing
  <2>4. ASSUME pager.at = "reading", pager.what = "", NEW i \in pager.existed \ pager.seen
        PROVE  \E p \in Filtered(queue', "") :
                 p.id = i /\ Cardinality(IdsAhead(queue', p, "")) >= pager.offset
    <3>1. PICK q \in Filtered(queue, "") :
            q.id = i /\ Cardinality(IdsAhead(queue, q, "")) >= pager.offset
      BY <2>4 DEF ListInv, Unseen
    <3>2. PICK p \in queue' : p.id = q.id /\ p.created = q.created
      BY <1>1, <3>1 DEF Filtered
    <3>3. \A x \in queue : \E y \in queue' : y.id = x.id /\ y.created = x.created
      BY <1>1
    <3>4. \A x \in queue' : \E y \in queue : y.id = x.id /\ y.created = x.created
      BY <1>1
    <3>5. IdsAhead(queue', p, "") = IdsAhead(queue, q, "")
      BY <3>2, <3>3, <3>4 DEF IdsAhead, Ahead, Filtered, ListedBefore
    <3>6. QED
      BY <3>1, <3>2, <3>5 DEF Filtered
  <2>5. Unseen'
    BY <2>2, <2>4 DEF Unseen
  <2>6. QED
    BY <2>3, <2>5 DEF ListInv
<1>4. QED
  BY <1>2, <1>3

LEMMA ListInvNext == ListInv /\ [QueueNext]_queueVars => ListInv'
<1> SUFFICES ASSUME ListInv, [QueueNext]_queueVars PROVE ListInv'
  OBVIOUS
<1>1. RowsInv'
  BY RowsInvNext DEF ListInv
<1>2. ASSUME queue \subseteq queue', pager' = pager PROVE ListInv'
  BY <1>1, <1>2, RowsPushed DEF ListInv, PagingSkipsNothing
<1>3. ASSUME NEW what \in {"", "pending"}, StartListing(what) PROVE ListInv'
  <2>1. PICK e : e = {r.id : r \in Filtered(queue, what)}
    OBVIOUS
  <2>2. /\ pager'.at = "reading" /\ pager'.what = what /\ pager'.offset = 0
        /\ pager'.existed = e /\ queue' = queue
    BY <1>3, <2>1 DEF StartListing, Filtered
  <2>3. \A i \in e : \E r \in Filtered(queue', what) : r.id = i
    BY <2>1, <2>2
  <2>4. \A r \in Filtered(queue', what) : Cardinality(IdsAhead(queue', r, what)) >= 0
    BY <2>2, Ranked, Zenon DEF ListInv
  <2>5. QED
    BY <1>1, <2>2, <2>3, <2>4 DEF ListInv, Unseen, PagingSkipsNothing
<1>4. ASSUME NEW what, BeginOps(what) PROVE ListInv'
  <2>1. pager'.at = "begun"
    BY <1>4 DEF BeginOps
  <2>2. QED
    BY <1>1, <2>1 DEF ListInv, Unseen, PagingSkipsNothing
<1>5. CASE CountFirst \/ CountSecond \/ EndListing
  <2>1. pager'.at \notin {"reading", "done"}
    <3>1. EndListing => pager'.at = "idle"
      BY DEF EndListing, NoListing
    <3>2. QED
      BY <1>5, <3>1, CountsFirst, CountsSecond DEF ListInv
  <2>2. QED
    BY <1>1, <2>1 DEF ListInv, Unseen, PagingSkipsNothing
<1>6. ASSUME NEW s, InsertReviewQueue(s) PROVE ListInv'
  BY <1>2, <1>6 DEF InsertReviewQueue, Appended
<1>7. ASSUME NEW g, EnsureInsert(g) PROVE ListInv'
  BY <1>2, <1>7 DEF EnsureInsert, Appended
<1>8. ASSUME NEW g, NEW s, EnsureSelect(g, s) PROVE ListInv'
  BY <1>2, <1>8 DEF EnsureSelect
<1>9. ASSUME NEW g, EnsureFails(g) PROVE ListInv'
  BY <1>2, <1>9 DEF EnsureFails
<1>10. CASE QueueTick \/ UNCHANGED queueVars
  BY <1>2, <1>10 DEF QueueTick, queueVars
<1>11. QED
  BY <1>1, <1>3, <1>4, <1>5, <1>6, <1>7, <1>8, <1>9, <1>10, ReadPageListed, DecideListed
  DEF QueueNext

\* Rows are only ever pushed down the list: whoever reads on with OFFSET until a short
\* page has met every row that was there when he began, unless a filter by status let
\* a decision take rows from under his feet.
THEOREM PagingTheorem == QueueSpec => []PagingSkipsNothing
<1>1. ListInv => PagingSkipsNothing
  BY DEF ListInv
<1>2. QED
  BY <1>1, ListInvInit, ListInvNext, PTL DEF QueueSpec

-------------------------------------------------------------------------------
(* The election slots: ids, what the page has read, what the job has written. *)

\* Ids of polls are given out once and stay with the key.
PollsNumbered ==
  /\ IsFiniteSet(polls)
  /\ \A p \in polls : p.id \in 1 .. Cardinality(polls)
  /\ \A p, q \in polls : p.id = q.id \/ p.key = q.key => p = q

\* Steady polls are in the table until the page reads it, and on the page from then on.
SteadyRead ==
  page # NoPage =>
    /\ page.at \in {"slots", "matchups", "polls"} => page.steady \subseteq polls
    /\ page.at = "done" => /\ {p \in page.steady : RegionOf(p) = page.region} \subseteq page.polls
                           /\ \A p, q \in page.polls : p.id = q.id => p = q

\* What a job that is alone has read is what the tables say, and what it has not written
\* yet is still to do.
JobTrue(s) ==
  sync[s] # NoSync /\ sync[s].alone =>
    /\ sync[s].regions = regions
    /\ sync[s].at \in {"pairs", "write", "done"} => sync[s].latest = LatestVerified
    /\ sync[s].at = "write" =>
         /\ sync[s].todo \subseteq SlotsFrom(regions, ByElectionPairs, LatestVerified)
         /\ SlotsFrom(regions, ByElectionPairs, LatestVerified) \subseteq sync[s].todo \cup elections
    /\ sync[s].at = "done" =>
         SlotsFrom(regions, ByElectionPairs, LatestVerified) \subseteq elections

SlotInv == SlotTypeOK /\ PollsNumbered /\ SteadyRead /\ \A s \in Syncs : JobTrue(s)

-----------------------------------------------------------------------------
(* Operators.                                                              *)

\* A non-empty set of naturals with an upper bound has a greatest element.
LEMMA GreatestNumber ==
  ASSUME NEW S, NEW n \in Nat, S \subseteq 0 .. n, S # {}
  PROVE  \E m \in S : \A k \in S : k <= m
<1> DEFINE T == {n - k : k \in S}
           R == {pair \in Nat \X Nat : pair[1] < pair[2]}
<1>1. T \subseteq Nat /\ T # {}
  <2>1. \A k \in S : n - k \in Nat
    OBVIOUS
  <2>2. QED
    BY <2>1
<1>2. PICK t \in T : \A u \in T : <<u, t>> \notin R
  <2>1. IsWellFoundedOn(R, Nat)
    BY NatLessThanWellFounded, Zenon DEF OpToRel
  <2> HIDE DEF T, R
  <2>2. QED
    BY <1>1, <2>1, WFMin
<1>3. ASSUME NEW u \in T PROVE t <= u
  <2>1. u \in Nat /\ t \in Nat
    BY <1>1, <1>2
  <2>2. <<u, t>> \notin R
    BY <1>2
  <2>3. u < t => <<u, t>> \in R
    BY <2>1
  <2> HIDE DEF T, R
  <2>4. QED
    BY <2>1, <2>2, <2>3
<1>4. PICK m \in S : t = n - m
  OBVIOUS
<1>5. ASSUME NEW k \in S PROVE k <= m
  <2>1. t <= n - k
    BY <1>3
  <2>2. QED
    BY <1>4, <2>1
<1>6. QED
  BY <1>5

\* Polls with ids of their own have a newest one, and its survey is the latest.
LEMMA NewestExists ==
  ASSUME NEW rows \in SUBSET Poll, rows # {}, \A p, q \in rows : p.id = q.id => p = q
  PROVE  /\ Newest(rows) # {}
         /\ \A p \in Newest(rows) : p \in rows /\ \A q \in rows : p.day >= q.day
<1> DEFINE days == {p.day : p \in rows}
<1>0. /\ Cardinality(PollKeys) \in Nat /\ MaxDay \in Nat
      /\ \A p \in rows : p.day \in 0 .. MaxDay /\ p.id \in 0 .. Cardinality(PollKeys)
  BY SlotAssumption, FS_CardinalityType DEF Poll
<1>1. PICK d \in days : \A e \in days : e <= d
  <2>1. days \subseteq 0 .. MaxDay /\ days # {}
    BY <1>0
  <2> HIDE DEF days
  <2>2. QED
    BY <1>0, <2>1, GreatestNumber
<1> DEFINE latest == {p \in rows : p.day = d}
           ids == {p.id : p \in latest}
<1>2. PICK i \in ids : \A j \in ids : j <= i
  <2>1. ids \subseteq 0 .. Cardinality(PollKeys) /\ ids # {}
    BY <1>0, <1>1
  <2> HIDE DEF ids
  <2>2. QED
    BY <1>0, <2>1, GreatestNumber
<1>3. PICK n \in latest : n.id = i
  BY <1>2
<1>4. ASSUME NEW q \in rows, q # n PROVE NewerPoll(n, q)
  <2>1. q.day \in Int /\ q.id \in Int /\ n.day \in Int /\ n.id \in Int /\ n.day = d
    BY <1>0, <1>3
  <2>2. q.day <= d /\ (q.day = d => q.id <= i)
    BY <1>1, <1>2
  <2>3. q.id # n.id
    BY <1>3, <1>4
  <2>4. QED
    BY <1>3, <2>1, <2>2, <2>3 DEF NewerPoll
<1>5. n \in Newest(rows)
  BY <1>3, <1>4 DEF Newest
<1>6. ASSUME NEW p \in Newest(rows), NEW q \in rows PROVE p \in rows /\ p.day >= q.day
  <2>1. p \in rows /\ (q = p \/ NewerPoll(p, q))
    BY DEF Newest
  <2>2. p.day \in Int /\ q.day \in Int
    BY <1>0, <2>1
  <2>3. QED
    BY <2>1, <2>2 DEF NewerPoll
<1>7. QED
  BY <1>5, <1>6

\* What the tables say is a set of slots; there is at most one for a region and office,
\* and every region has one.
LEMMA LatestTyped == polls \subseteq Poll => LatestVerified \subseteq Slot
<1> SUFFICES ASSUME polls \subseteq Poll, NEW x \in LatestVerified PROVE x \in Slot
  OBVIOUS
<1>1. PICK p \in polls : x = [region |-> RegionOf(p), office |-> OfficeOf(p), latest |-> p.matchup]
  BY DEF LatestVerified
<1>2. p.matchup \in MatchupIds
  BY DEF Poll
<1>3. RegionOf(p) \in RegionCodes /\ OfficeOf(p) \in OfficeTypes
  BY <1>2, SlotAssumption DEF RegionOf, OfficeOf
<1>4. QED
  BY <1>1, <1>2, <1>3 DEF Slot

LEMMA PairsTyped ==
  polls \subseteq Poll /\ matchups \subseteq MatchupIds
    => \A s \in ByElectionPairs : s.region \in RegionCodes /\ s.office \in OfficeTypes
BY SlotAssumption DEF ByElectionPairs, Poll

LEMMA DefaultsTyped ==
  \A r : DefaultOffices(r) # {} /\ DefaultOffices(r) \subseteq OfficeTypes
BY SlotAssumption DEF DefaultOffices

LEMMA SlotsShape ==
  ASSUME NEW codes, NEW pairs, NEW latest, NEW x \in SlotsFrom(codes, pairs, latest)
  PROVE  \E r \in codes :
           \E o \in DefaultOffices(r) \cup {s.office : s \in {t \in pairs : t.region = r}} :
             x = [region |-> r, office |-> o,
                  latest |-> IF \E l \in latest : l.region = r /\ l.office = o
                    THEN (CHOOSE l \in latest : l.region = r /\ l.office = o).latest
                    ELSE NoMatchup]
BY DEF SlotsFrom

LEMMA SlotsTyped ==
  ASSUME NEW codes \in SUBSET RegionCodes, NEW pairs, NEW latest \in SUBSET Slot,
         \A s \in pairs : s.region \in RegionCodes /\ s.office \in OfficeTypes
  PROVE  SlotsFrom(codes, pairs, latest) \subseteq Slot
<1> SUFFICES ASSUME NEW x \in SlotsFrom(codes, pairs, latest) PROVE x \in Slot
  OBVIOUS
<1>1. PICK r, o :
        /\ r \in codes
        /\ o \in DefaultOffices(r) \cup {s.office : s \in {t \in pairs : t.region = r}}
        /\ x = [region |-> r, office |-> o,
                latest |-> IF \E l \in latest : l.region = r /\ l.office = o
                  THEN (CHOOSE l \in latest : l.region = r /\ l.office = o).latest
                  ELSE NoMatchup]
  BY SlotsShape
<1>2. r \in RegionCodes /\ o \in OfficeTypes
  BY <1>1, DefaultsTyped
<1>3. (\E l \in latest : l.region = r /\ l.office = o)
        => (CHOOSE l \in latest : l.region = r /\ l.office = o) \in latest
  OBVIOUS
<1>4. x.latest \in MatchupIds \cup {NoMatchup}
  BY <1>1, <1>3 DEF Slot
<1>5. QED
  BY <1>1, <1>2, <1>4 DEF Slot

LEMMA SlotsDistinct ==
  ASSUME NEW codes, NEW pairs, NEW latest,
         NEW x \in SlotsFrom(codes, pairs, latest), NEW y \in SlotsFrom(codes, pairs, latest),
         x.region = y.region, x.office = y.office
  PROVE  x = y
<1> DEFINE Of(r, o) == [region |-> r, office |-> o,
                        latest |-> IF \E l \in latest : l.region = r /\ l.office = o
                          THEN (CHOOSE l \in latest : l.region = r /\ l.office = o).latest
                          ELSE NoMatchup]
<1>1. \A r, o : Of(r, o).region = r /\ Of(r, o).office = o
  OBVIOUS
<1>2. /\ \E r, o : x = Of(r, o)
      /\ \E r, o : y = Of(r, o)
  BY SlotsShape
<1> HIDE DEF Of
<1>3. QED
  BY <1>1, <1>2

LEMMA EverySlotted ==
  ASSUME NEW codes, NEW pairs, NEW latest, NEW r \in codes
  PROVE  \E x \in SlotsFrom(codes, pairs, latest) : x.region = r
<1>1. PICK o \in DefaultOffices(r) : TRUE
  BY DefaultsTyped
<1> DEFINE Of(q, w) == [region |-> q, office |-> w,
                        latest |-> IF \E l \in latest : l.region = q /\ l.office = w
                          THEN (CHOOSE l \in latest : l.region = q /\ l.office = w).latest
                          ELSE NoMatchup]
           OfficesAt(q) == DefaultOffices(q) \cup {s.office : s \in {t \in pairs : t.region = q}}
<1>2. SlotsFrom(codes, pairs, latest) = UNION {{Of(q, w) : w \in OfficesAt(q)} : q \in codes}
  BY DEF SlotsFrom
<1>3. Of(r, o).region = r /\ o \in OfficesAt(r)
  OBVIOUS
<1> HIDE DEF Of, OfficesAt
<1>4. QED
  BY <1>2, <1>3
-----------------------------------------------------------------------------
(* The polls: their ids and keys.                                           *)

\* Distinct keys are as many as there are polls, so an id given out is one of the bound.
LEMMA KeysCounted ==
  ASSUME NEW rows, IsFiniteSet(rows), \A p \in rows : p.key \in PollKeys,
         \A p, q \in rows : p.key = q.key => p = q
  PROVE  /\ Cardinality(rows) <= Cardinality(PollKeys)
         /\ Cardinality(rows) \in Nat /\ Cardinality(PollKeys) \in Nat
<1> DEFINE f == [p \in rows |-> p.key]
<1>1. f \in [rows -> PollKeys] /\ \A p, q \in rows : f[p] = f[q] => p = q
  OBVIOUS
<1> HIDE DEF f
<1>2. f \in Injection(rows, PollKeys)
  BY <1>1 DEF Injection, IsInjective
<1>3. QED
  BY <1>2, SlotAssumption, FS_Injection, FS_CardinalityType

\* A poll is stored in a row of its own or in the one that has its key.
LEMMA PollStored ==
  ASSUME polls \subseteq Poll, PollsNumbered, NEW k \in PollKeys, NEW m \in MatchupIds,
         NEW day \in 0 .. MaxDay, NEW v \in BOOLEAN, StorePoll(k, m, day, v)
  PROVE  /\ polls' \subseteq Poll /\ PollsNumbered'
         /\ polls \ {p \in polls : p.key = k} \subseteq polls'
         /\ page' = IF page = NoPage THEN NoPage
                      ELSE [page EXCEPT !.steady = page.steady \ {p \in polls : p.key = k}]
<1> DEFINE old == {p \in polls : p.key = k}
<1>1. PICK new :
        /\ polls' = (polls \ old) \cup {new}
        /\ new = [key |-> k, matchup |-> m, day |-> day, verified |-> v,
                  id |-> IF old = {} THEN Cardinality(polls) + 1 ELSE (CHOOSE p \in old : TRUE).id]
        /\ page' = IF page = NoPage THEN NoPage ELSE [page EXCEPT !.steady = page.steady \ old]
  BY DEF StorePoll
<1>2. new.key = k /\ new.matchup = m /\ new.day = day /\ new.verified = v
  BY <1>1
<1>3. Cardinality(polls) \in Nat
  BY FS_CardinalityType DEF PollsNumbered
<1>4. /\ IsFiniteSet(polls') /\ Cardinality(polls') \in Nat
      /\ Cardinality(polls) <= Cardinality(polls')
      /\ new.id \in 1 .. Cardinality(polls') /\ \A p \in polls \ old : p.id # new.id
  <2>1. CASE old = {}
    <3>1. new \notin polls /\ polls' = polls \cup {new} /\ new.id = Cardinality(polls) + 1
      BY <1>1, <1>2, <2>1
    <3>2. IsFiniteSet(polls') /\ Cardinality(polls') = Cardinality(polls) + 1
      BY <3>1, FS_AddElement DEF PollsNumbered
    <3>3. \A p \in polls : p.id # new.id
      BY <1>3, <3>1 DEF PollsNumbered
    <3>4. QED
      BY <1>3, <3>1, <3>2, <3>3
  <2>2. CASE old # {}
    <3>1. PICK o \in old : o = CHOOSE p \in old : TRUE
      BY <2>2
    <3>2. old = {o} /\ o \in polls
      BY <3>1 DEF PollsNumbered
    <3>3. new.id = o.id /\ polls' = (polls \ {o}) \cup {new}
      BY <1>1, <2>2, <3>1, <3>2
    <3>4. new \notin polls \ {o}
      BY <1>2, <3>2
    <3>5. IsFiniteSet(polls \ {o}) /\ Cardinality(polls \ {o}) = Cardinality(polls) - 1
      BY <3>2, FS_RemoveElement DEF PollsNumbered
    <3>6. IsFiniteSet(polls') /\ Cardinality(polls') = Cardinality(polls)
      BY <1>3, <3>3, <3>4, <3>5, FS_AddElement
    <3>7. \A p \in polls \ old : p.id # new.id
      BY <3>2, <3>3 DEF PollsNumbered
    <3>8. new.id \in 1 .. Cardinality(polls')
      BY <3>2, <3>3, <3>6 DEF PollsNumbered
    <3>9. QED
      BY <1>3, <3>6, <3>7, <3>8
  <2>3. QED
    BY <2>1, <2>2
<1>5. \A p \in polls' : p.id \in 1 .. Cardinality(polls')
  BY <1>1, <1>3, <1>4 DEF PollsNumbered
<1>6. \A p, q \in polls' : p.id = q.id \/ p.key = q.key => p = q
  BY <1>1, <1>2, <1>4 DEF PollsNumbered
<1>7. Cardinality(polls') <= Cardinality(PollKeys) /\ Cardinality(PollKeys) \in Nat
  <2>1. \A p \in polls' : p.key \in PollKeys
    BY <1>1, <1>2 DEF Poll
  <2>2. QED
    BY <1>4, <1>6, <2>1, KeysCounted
<1>8. new.id \in 1 .. Cardinality(PollKeys)
  BY <1>4, <1>7
<1>9. new \in Poll
  BY <1>1, <1>8 DEF Poll
<1>10. QED
  BY <1>1, <1>4, <1>5, <1>6, <1>9 DEF PollsNumbered

-----------------------------------------------------------------------------
(* The jobs and the page: their types.                                      *)

LEMMA JobKinds ==
  /\ NoSync \notin SyncJob /\ NoPage \notin RegionPage
BY DEF NoSync, SyncJob, NoPage, RegionPage

\* Whoever writes leaves no running job alone.
LEMMA DisturbedJobs ==
  ASSUME SlotTypeOK
  PROVE  /\ Disturbed \in [Syncs -> SyncJob \cup {NoSync}]
         /\ \A s \in Syncs : Disturbed[s] # NoSync => ~ Disturbed[s].alone
<1>1. ASSUME NEW s \in Syncs, sync[s] # NoSync
      PROVE  /\ [sync[s] EXCEPT !.alone = FALSE] \in SyncJob
             /\ ~ [sync[s] EXCEPT !.alone = FALSE].alone
  <2>1. PICK j \in SyncJob : j = sync[s]
    BY <1>1 DEF SlotTypeOK
  <2>2. [j EXCEPT !.alone = FALSE] \in SyncJob /\ ~ [j EXCEPT !.alone = FALSE].alone
    BY DEF SyncJob
  <2>3. QED
    BY <2>1, <2>2
<1>2. QED
  BY <1>1 DEF Disturbed

\* The steps of a job, field by field.
LEMMA LatestRead ==
  ASSUME SlotTypeOK, NEW s \in Syncs, ReadLatest(s)
  PROVE  /\ sync' \in [Syncs -> SyncJob \cup {NoSync}] /\ sync'[s] \in SyncJob
         /\ sync'[s].at = "pairs" /\ sync'[s].latest = LatestVerified
         /\ sync'[s].regions = sync[s].regions /\ sync'[s].alone = sync[s].alone
         /\ \A t \in Syncs \ {s} : sync'[t] = sync[t]
<1>1. PICK j \in SyncJob : j = sync[s]
  BY DEF SlotTypeOK, ReadLatest
<1>2. PICK latest \in SUBSET Slot : latest = LatestVerified
  BY LatestTyped DEF SlotTypeOK
<1>3. PICK i : i = [j EXCEPT !.at = "pairs", !.latest = latest]
  OBVIOUS
<1>4. /\ i \in SyncJob /\ i.at = "pairs" /\ i.latest = latest
      /\ i.regions = j.regions /\ i.alone = j.alone
  BY <1>3 DEF SyncJob
<1>5. sync' = [sync EXCEPT ![s] = i]
  BY <1>1, <1>2, <1>3 DEF ReadLatest
<1>6. QED
  BY <1>1, <1>2, <1>4, <1>5 DEF SlotTypeOK

LEMMA PairsRead ==
  ASSUME SlotTypeOK, NEW s \in Syncs, ReadPairs(s)
  PROVE  /\ sync' \in [Syncs -> SyncJob \cup {NoSync}] /\ sync'[s] \in SyncJob
         /\ sync'[s].at = "write" /\ sync'[s].latest = sync[s].latest
         /\ sync'[s].todo = SlotsFrom(sync[s].regions, ByElectionPairs, sync[s].latest)
         /\ sync'[s].regions = sync[s].regions /\ sync'[s].alone = sync[s].alone
         /\ \A t \in Syncs \ {s} : sync'[t] = sync[t]
<1>1. PICK j \in SyncJob : j = sync[s]
  BY DEF SlotTypeOK, ReadPairs
<1>2. PICK duties \in SUBSET Slot : duties = SlotsFrom(j.regions, ByElectionPairs, j.latest)
  <2>1. j.regions \in SUBSET RegionCodes /\ j.latest \in SUBSET Slot
    BY DEF SyncJob
  <2>2. QED
    BY <2>1, SlotsTyped, PairsTyped DEF SlotTypeOK
<1>3. PICK i : i = [j EXCEPT !.at = "write", !.todo = duties]
  OBVIOUS
<1>4. /\ i \in SyncJob /\ i.at = "write" /\ i.latest = j.latest /\ i.todo = duties
      /\ i.regions = j.regions /\ i.alone = j.alone
  BY <1>3 DEF SyncJob
<1>5. sync' = [sync EXCEPT ![s] = i]
  BY <1>1, <1>2, <1>3 DEF ReadPairs
<1>6. QED
  BY <1>1, <1>2, <1>4, <1>5 DEF SlotTypeOK

LEMMA SlotUpserted ==
  ASSUME SlotTypeOK, NEW s \in Syncs, UpsertSlot(s)
  PROVE  \E slot \in sync[s].todo :
           /\ slot \in Slot /\ elections' = Written(elections, slot)
           /\ sync' \in [Syncs -> SyncJob \cup {NoSync}] /\ sync'[s] \in SyncJob
           /\ sync'[s].at = "write" /\ sync'[s].latest = sync[s].latest
           /\ sync'[s].todo = sync[s].todo \ {slot}
           /\ sync'[s].regions = sync[s].regions /\ sync'[s].alone = sync[s].alone
           /\ \A t \in Syncs \ {s} : sync'[t] # NoSync => ~ sync'[t].alone
<1>1. PICK j \in SyncJob : j = sync[s]
  BY DEF SlotTypeOK, UpsertSlot
<1>2. PICK slot \in j.todo :
        /\ elections' = Written(elections, slot)
        /\ sync' = [Disturbed EXCEPT ![s] = [sync[s] EXCEPT !.todo = @ \ {slot}]]
  BY <1>1 DEF UpsertSlot
<1>3. PICK duties \in SUBSET Slot : duties = j.todo \ {slot}
  BY DEF SyncJob
<1>4. PICK i : i = [j EXCEPT !.todo = duties]
  OBVIOUS
<1>5. /\ i \in SyncJob /\ i.at = "write" /\ i.latest = j.latest /\ i.todo = duties
      /\ i.regions = j.regions /\ i.alone = j.alone /\ slot \in Slot
  BY <1>1, <1>4 DEF SyncJob, UpsertSlot
<1>6. sync' = [Disturbed EXCEPT ![s] = i]
  BY <1>1, <1>2, <1>3, <1>4
<1>7. QED
  BY <1>1, <1>2, <1>3, <1>5, <1>6, DisturbedJobs

LEMMA SyncEnded ==
  ASSUME SlotTypeOK, NEW s \in Syncs, EndSync(s)
  PROVE  /\ sync' \in [Syncs -> SyncJob \cup {NoSync}] /\ sync'[s] \in SyncJob
         /\ sync'[s].at = "done" /\ sync'[s].latest = sync[s].latest
         /\ sync'[s].regions = sync[s].regions /\ sync'[s].alone = sync[s].alone
         /\ \A t \in Syncs \ {s} : sync'[t] = sync[t]
<1>1. PICK j \in SyncJob : j = sync[s]
  BY DEF SlotTypeOK, EndSync
<1>2. PICK i : i = [j EXCEPT !.at = "done"]
  OBVIOUS
<1>3. /\ i \in SyncJob /\ i.at = "done" /\ i.latest = j.latest
      /\ i.regions = j.regions /\ i.alone = j.alone
  BY <1>2 DEF SyncJob
<1>4. sync' = [sync EXCEPT ![s] = i]
  BY <1>1, <1>2 DEF EndSync
<1>5. QED
  BY <1>1, <1>3, <1>4 DEF SlotTypeOK

LEMMA SyncBegun ==
  ASSUME SlotTypeOK, NEW s \in Syncs, ReadRegions(s)
  PROVE  /\ sync' \in [Syncs -> SyncJob \cup {NoSync}] /\ sync'[s] \in SyncJob
         /\ sync'[s].at = "matchups" /\ sync'[s].regions = regions
         /\ \A t \in Syncs \ {s} : sync'[t] = sync[t]
<1>1. PICK i : i = [at |-> "matchups", regions |-> regions, latest |-> {}, todo |-> {},
                   alone |-> \A o \in Syncs : sync[o] = NoSync \/ sync[o].at = "done"]
  OBVIOUS
<1>2. i \in SyncJob /\ i.at = "matchups" /\ i.regions = regions
  BY <1>1 DEF SyncJob, SlotTypeOK
<1>3. sync' = [sync EXCEPT ![s] = i]
  BY <1>1 DEF ReadRegions
<1>4. QED
  BY <1>2, <1>3 DEF SlotTypeOK

LEMMA SyncLeft ==
  ASSUME SlotTypeOK, NEW s \in Syncs, LeaveSync(s)
  PROVE  /\ sync' \in [Syncs -> SyncJob \cup {NoSync}] /\ sync'[s] = NoSync
         /\ \A t \in Syncs \ {s} : sync'[t] = sync[t]
BY DEF LeaveSync, SlotTypeOK

\* The steps of the page, field by field.
LEMMA SlotsRead ==
  ASSUME SlotTypeOK, ReadSlots
  PROVE  /\ page' \in RegionPage /\ page'.at = "matchups" /\ page'.region = page.region
         /\ page'.steady = page.steady /\ page # NoPage /\ page.at = "slots"
<1>1. PICK j \in RegionPage : j = page
  BY DEF SlotTypeOK, ReadSlots
<1>2. PICK slots \in SUBSET Slot : slots = {e \in elections : e.region = j.region}
  BY DEF SlotTypeOK
<1>3. page' = [j EXCEPT !.at = "matchups", !.slots = slots]
  BY <1>1, <1>2 DEF ReadSlots
<1>4. QED
  BY <1>1, <1>3 DEF RegionPage, ReadSlots

LEMMA MatchupsRead ==
  ASSUME SlotTypeOK, ReadMatchups
  PROVE  /\ page' \in RegionPage /\ page'.at = "polls" /\ page'.region = page.region
         /\ page'.steady = page.steady /\ page # NoPage /\ page.at = "matchups"
<1>1. PICK j \in RegionPage : j = page
  BY DEF SlotTypeOK, ReadMatchups
<1>2. PICK rows \in SUBSET MatchupIds : rows = {m \in matchups : Subject[m].region = j.region}
  BY DEF SlotTypeOK
<1>3. page' = [j EXCEPT !.at = "polls", !.matchups = rows]
  BY <1>1, <1>2 DEF ReadMatchups
<1>4. QED
  BY <1>1, <1>3 DEF RegionPage, ReadMatchups

LEMMA PollsRead ==
  ASSUME SlotTypeOK, ReadPolls
  PROVE  /\ page' \in RegionPage /\ page'.at = "done" /\ page'.region = page.region
         /\ page'.steady = page.steady /\ page # NoPage /\ page.at = "polls"
         /\ page'.polls = {p \in polls : RegionOf(p) = page.region}
<1>1. PICK j \in RegionPage : j = page
  BY DEF SlotTypeOK, ReadPolls
<1>2. PICK rows \in SUBSET Poll : rows = {p \in polls : RegionOf(p) = j.region}
  BY DEF SlotTypeOK
<1>3. page' = [j EXCEPT !.at = "done", !.polls = rows]
  BY <1>1, <1>2 DEF ReadPolls
<1>4. QED
  BY <1>1, <1>2, <1>3 DEF RegionPage, ReadPolls

LEMMA PageBegun ==
  ASSUME SlotTypeOK, NEW r \in RegionCodes, NEW t, ReadRegion(r, t)
  PROVE  /\ page' \in RegionPage /\ page'.at = "slots" /\ page'.steady = polls
<1>1. EffectiveRegion(r, t) \in RegionCodes
  BY DEF ReadRegion, SlotTypeOK
<1>2. QED
  BY <1>1 DEF ReadRegion, RegionPage, SlotTypeOK

LEMMA SteadyLost ==
  ASSUME SlotTypeOK, NEW old,
         page' = IF page = NoPage THEN NoPage ELSE [page EXCEPT !.steady = page.steady \ old]
  PROVE  /\ page' \in RegionPage \cup {NoPage} /\ (page' = NoPage <=> page = NoPage)
         /\ page # NoPage => /\ page'.at = page.at /\ page'.region = page.region
                             /\ page'.polls = page.polls
                             /\ page'.steady = page.steady \ old
<1>1. CASE page = NoPage
  BY <1>1
<1>2. CASE page # NoPage
  <2>1. PICK j \in RegionPage : j = page
    BY <1>2 DEF SlotTypeOK
  <2>2. PICK steady \in SUBSET Poll : steady = j.steady \ old
    BY DEF RegionPage
  <2>3. page' = [j EXCEPT !.steady = steady]
    BY <1>2, <2>1, <2>2
  <2>4. page' \in RegionPage
    BY <2>3 DEF RegionPage
  <2>5. QED
    BY <1>2, <2>1, <2>2, <2>3, <2>4, JobKinds DEF RegionPage
<1>3. QED
  BY <1>1, <1>2

-----------------------------------------------------------------------------
(* The invariant.                                                           *)

TypedInv == SlotTypeOK /\ PollsNumbered

LEMMA TypedInit == SlotInit => TypedInv
<1> SUFFICES ASSUME SlotInit PROVE TypedInv
  OBVIOUS
<1>1. regions \subseteq RegionCodes /\ matchups \subseteq MatchupIds
  BY DEF SlotInit
<1>2. /\ polls \subseteq Poll /\ IsFiniteSet(polls)
      /\ polls # {} => Cardinality(polls) = 1 /\ \E p : polls = {p} /\ p.id = 1
  <2>1. CASE polls = {}
    BY <2>1, FS_EmptySet
  <2>2. CASE polls # {}
    <3>1. PICK m \in matchups :
            polls = {[key |-> CHOOSE k \in PollKeys : TRUE, id |-> 1, matchup |-> m,
                      day |-> MaxDay, verified |-> TRUE]}
      BY <2>2 DEF SlotInit
    <3>2. PICK k \in PollKeys : k = CHOOSE x \in PollKeys : TRUE
      BY SlotAssumption
    <3>3. Cardinality(PollKeys) \in Nat /\ Cardinality(PollKeys) # 0
      BY SlotAssumption, FS_CardinalityType, FS_EmptySet
    <3>4. PICK p : p = [key |-> k, id |-> 1, matchup |-> m, day |-> MaxDay, verified |-> TRUE]
      OBVIOUS
    <3>5. 1 \in 1 .. Cardinality(PollKeys) /\ MaxDay \in 0 .. MaxDay /\ m \in MatchupIds
      BY <1>1, <3>3, SlotAssumption
    <3>6. p \in Poll /\ p.id = 1
      BY <3>4, <3>5 DEF Poll
    <3>7. polls = {p}
      BY <3>1, <3>2, <3>4
    <3>8. QED
      BY <3>6, <3>7, FS_Singleton
  <2>3. QED
    BY <2>1, <2>2
<1>3. PollsNumbered
  BY <1>2 DEF PollsNumbered
<1>4. SlotTypeOK
  BY <1>1, <1>2, SlotAssumption DEF SlotInit, SlotTypeOK
<1>5. QED
  BY <1>3, <1>4 DEF TypedInv

LEMMA WrittenTyped ==
  ASSUME NEW rows \in SUBSET Slot, NEW slot \in Slot PROVE Written(rows, slot) \subseteq Slot
BY DEF Written

LEMMA TypedNext == TypedInv /\ [SlotNext]_slotVars => TypedInv'
<1> SUFFICES ASSUME TypedInv, [SlotNext]_slotVars PROVE TypedInv'
  OBVIOUS
<1> USE DEF TypedInv
<1>1. ASSUME polls' = polls, regions' \subseteq RegionCodes, matchups' \subseteq MatchupIds,
             elections' \subseteq Slot, changes' \in 0 .. MaxChanges,
             sync' \in [Syncs -> SyncJob \cup {NoSync}], page' \in RegionPage \cup {NoPage}
      PROVE  TypedInv'
  BY <1>1 DEF SlotTypeOK, PollsNumbered
<1>2. ASSUME Writes
      PROVE  changes' \in 0 .. MaxChanges /\ sync' \in [Syncs -> SyncJob \cup {NoSync}]
  BY <1>2, SlotAssumption, DisturbedJobs DEF Writes, SlotTypeOK
<1>3. ASSUME NEW r \in RegionCodes, UpsertRegionCode(r) PROVE TypedInv'
  BY <1>1, <1>2, <1>3 DEF UpsertRegionCode, SlotTypeOK
<1>4. ASSUME NEW r \in RegionCodes, NEW t, ReadRegion(r, t) PROVE TypedInv'
  BY <1>1, <1>4, PageBegun DEF ReadRegion, SlotTypeOK
<1>5. ASSUME NEW m \in MatchupIds, UpsertMatchupRow(m) PROVE TypedInv'
  BY <1>1, <1>2, <1>5 DEF UpsertMatchupRow, SlotTypeOK
<1>6. ASSUME NEW m \in MatchupIds, NEW k \in PollKeys, NEW day \in 0 .. MaxDay, NEW v \in BOOLEAN,
             StorePoll(k, m, day, v)
      PROVE  TypedInv'
  <2>1. polls' \subseteq Poll /\ PollsNumbered'
    BY <1>6, PollStored DEF SlotTypeOK
  <2>2. page' \in RegionPage \cup {NoPage}
    BY <1>6, PollStored, SteadyLost DEF SlotTypeOK
  <2>3. QED
    BY <1>2, <1>6, <2>1, <2>2 DEF StorePoll, SlotTypeOK
<1>7. ASSUME NEW s \in Syncs, \/ ReadRegions(s) \/ ReadLatest(s) \/ ReadPairs(s)
                              \/ EndSync(s) \/ LeaveSync(s)
      PROVE  TypedInv'
  <2>1. sync' \in [Syncs -> SyncJob \cup {NoSync}]
    BY <1>7, SyncBegun, LatestRead, PairsRead, SyncEnded, SyncLeft
  <2>2. UNCHANGED <<regions, matchups, polls, elections, page, changes>>
    BY <1>7 DEF ReadRegions, ReadLatest, ReadPairs, EndSync, LeaveSync
  <2>3. QED
    BY <1>1, <2>1, <2>2 DEF SlotTypeOK
<1>8. ASSUME NEW s \in Syncs, UpsertSlot(s) PROVE TypedInv'
  <2>1. elections' \subseteq Slot /\ sync' \in [Syncs -> SyncJob \cup {NoSync}]
    BY <1>8, SlotUpserted, WrittenTyped DEF SlotTypeOK
  <2>2. QED
    BY <1>1, <1>8, <2>1 DEF UpsertSlot, SlotTypeOK
<1>9. CASE ReadSlots \/ ReadMatchups \/ ReadPolls \/ LeavePage
  <2>1. page' \in RegionPage \cup {NoPage}
    BY <1>9, SlotsRead, MatchupsRead, PollsRead DEF LeavePage
  <2>2. QED
    BY <1>1, <1>9, <2>1 DEF ReadSlots, ReadMatchups, ReadPolls, LeavePage, SlotTypeOK
<1>10. CASE UNCHANGED slotVars
  BY <1>1, <1>10 DEF slotVars, SlotTypeOK
<1>11. QED
  BY <1>3, <1>4, <1>5, <1>6, <1>7, <1>8, <1>9, <1>10 DEF SlotNext

\* The tables, the jobs and the page keep their types; in particular ids of polls stay
\* below the number of keys.
THEOREM SlotTypesTheorem == SlotSpec => []SlotTypeOK
<1>1. TypedInv => SlotTypeOK
  BY DEF TypedInv
<1>2. QED
  BY <1>1, TypedInit, TypedNext, PTL DEF SlotSpec

-----------------------------------------------------------------------------
(* The region page.                                                         *)

PageInv == TypedInv /\ SteadyRead

LEMMA SteadyReadNext ==
  ASSUME PageInv, [SlotNext]_slotVars PROVE SteadyRead'
<1> USE DEF PageInv, TypedInv
<1>1. ASSUME page' = page, polls' = polls PROVE SteadyRead'
  BY <1>1 DEF SteadyRead
<1>2. ASSUME NEW r \in RegionCodes, NEW t, ReadRegion(r, t) PROVE SteadyRead'
  <2>1. page'.at = "slots" /\ page'.steady = polls /\ polls' = polls
    BY <1>2, PageBegun DEF ReadRegion
  <2>2. QED
    BY <2>1 DEF SteadyRead
<1>3. ASSUME NEW m \in MatchupIds, NEW k \in PollKeys, NEW day \in 0 .. MaxDay, NEW v \in BOOLEAN,
             StorePoll(k, m, day, v)
      PROVE  SteadyRead'
  <2>1. PICK old : old = {p \in polls : p.key = k}
    OBVIOUS
  <2>2. /\ polls \ old \subseteq polls'
        /\ page' = IF page = NoPage THEN NoPage ELSE [page EXCEPT !.steady = page.steady \ old]
    BY <1>3, <2>1, PollStored DEF SlotTypeOK
  <2>3. /\ page' = NoPage <=> page = NoPage
        /\ page # NoPage => /\ page'.at = page.at /\ page'.region = page.region
                            /\ page'.polls = page.polls
                            /\ page'.steady = page.steady \ old
    BY <2>2, SteadyLost
  <2>4. QED
    BY <2>2, <2>3 DEF SteadyRead
<1>4. CASE ReadSlots
  BY <1>4, SlotsRead DEF ReadSlots, SteadyRead
<1>5. CASE ReadMatchups
  BY <1>5, MatchupsRead DEF ReadMatchups, SteadyRead
<1>6. CASE ReadPolls
  <2>1. /\ page'.at = "done" /\ page'.region = page.region /\ page'.steady = page.steady
        /\ page # NoPage /\ page.at = "polls"
        /\ page'.polls = {p \in polls : RegionOf(p) = page.region}
    BY <1>6, PollsRead
  <2>2. page.steady \subseteq polls
    BY <2>1 DEF SteadyRead
  <2>3. QED
    BY <2>1, <2>2 DEF SteadyRead, PollsNumbered
<1>7. CASE LeavePage
  BY <1>7 DEF LeavePage, SteadyRead
<1>8. CASE \/ \E r \in RegionCodes : UpsertRegionCode(r)
           \/ \E m \in MatchupIds : UpsertMatchupRow(m)
           \/ \E s \in Syncs : \/ ReadRegions(s) \/ ReadLatest(s) \/ ReadPairs(s)
                               \/ UpsertSlot(s) \/ EndSync(s) \/ LeaveSync(s)
           \/ UNCHANGED slotVars
  BY <1>1, <1>8 DEF UpsertRegionCode, UpsertMatchupRow, ReadRegions, ReadLatest, ReadPairs,
     UpsertSlot, EndSync, LeaveSync, slotVars
<1>9. QED
  BY <1>2, <1>3, <1>4, <1>5, <1>6, <1>7, <1>8 DEF SlotNext

\* What the entry of an office says when the page has polls of it.
LEMMA EntryOfPolls ==
  ASSUME page # NoPage, page \in RegionPage, NEW p \in page.polls,
         \A x, y \in page.polls : x.id = y.id => x = y
  PROVE  /\ Entry(OfficeOf(p)) \in RegionElections /\ Entry(OfficeOf(p)).office = OfficeOf(p)
         /\ Entry(OfficeOf(p)).latest # NoMatchup /\ Entry(OfficeOf(p)).day >= p.day
<1> DEFINE o == OfficeOf(p)
           rows == {q \in page.polls : OfficeOf(q) = o}
<1>1. page.polls \in SUBSET Poll
  BY DEF RegionPage
<1>2. rows \in SUBSET Poll /\ p \in rows /\ \A x, y \in rows : x.id = y.id => x = y
  BY <1>1
<1>3. PICK news : news = Newest(rows)
  OBVIOUS
<1>4. PICK n : n = CHOOSE x \in news : TRUE
  OBVIOUS
<1>5. news # {} /\ n \in rows /\ n.day >= p.day
  <2> HIDE DEF rows
  <2>1. /\ Newest(rows) # {}
        /\ \A x \in Newest(rows) : x \in rows /\ \A q \in rows : x.day >= q.day
    BY <1>2, NewestExists
  <2>2. QED
    BY <1>2, <1>3, <1>4, <2>1
<1>6. n.matchup \in MatchupIds
  BY <1>2, <1>5 DEF Poll
<1>7. Entry(o).office = o /\ Entry(o).day = n.day /\ Entry(o).latest = n.matchup
  BY <1>3, <1>4, <1>5 DEF Entry
<1>8. o \in OfficesOnPage
  BY DEF OfficesOnPage
<1>9. QED
  BY <1>5, <1>6, <1>7, <1>8, SlotAssumption DEF RegionElections

\* Whatever is written between the queries of a region page, and however old its slots
\* are: a poll that was there all along is on it, under its office and with no older
\* survey.
THEOREM RegionPageTheorem == SlotSpec => []PageNeverHidesPoll
<1>1. SlotInit => PageInv
  BY TypedInit DEF PageInv, SlotInit, SteadyRead
<1>2. PageInv /\ [SlotNext]_slotVars => PageInv'
  BY TypedNext, SteadyReadNext DEF PageInv
<1>3. PageInv => PageNeverHidesPoll
  <2> SUFFICES ASSUME PageInv, page # NoPage, page.at = "done", NEW p \in page.steady,
                      RegionOf(p) = page.region
               PROVE  \E e \in RegionElections : /\ e.office = OfficeOf(p)
                                                 /\ e.latest # NoMatchup
                                                 /\ e.day >= p.day
    BY DEF PageNeverHidesPoll
  <2>1. p \in page.polls /\ \A x, y \in page.polls : x.id = y.id => x = y
    BY DEF PageInv, SteadyRead
  <2>2. page \in RegionPage
    BY DEF PageInv, TypedInv, SlotTypeOK
  <2>3. QED
    BY <2>1, <2>2, EntryOfPolls
<1>4. QED
  BY <1>1, <1>2, <1>3, PTL DEF SlotSpec

-----------------------------------------------------------------------------
(* The synchronisation.                                                     *)

SyncInv == TypedInv /\ \A s \in Syncs : JobTrue(s)

\* As long as a job and the tables stay, or it is not alone, it is true.
LEMMA JobStays ==
  ASSUME NEW s \in Syncs, JobTrue(s), sync'[s] = sync[s],
         UNCHANGED <<regions, matchups, polls, elections>>
  PROVE  JobTrue(s)'
BY DEF JobTrue, LatestVerified, ByElectionPairs

LEMMA SyncInvNext == SyncInv /\ [SlotNext]_slotVars => SyncInv'
<1> SUFFICES ASSUME SyncInv, [SlotNext]_slotVars, NEW s \in Syncs PROVE JobTrue(s)'
  BY TypedNext DEF SyncInv
<1>0. SlotTypeOK /\ JobTrue(s)
  BY DEF SyncInv, TypedInv
<1>1. ASSUME sync'[s] # NoSync => ~ sync'[s].alone PROVE JobTrue(s)'
  BY <1>1 DEF JobTrue
<1>2. CASE Writes
  BY <1>0, <1>1, <1>2, DisturbedJobs DEF Writes
<1>3. ASSUME NEW t \in Syncs \ {s}, \/ ReadRegions(t) \/ ReadLatest(t) \/ ReadPairs(t)
                                    \/ EndSync(t) \/ LeaveSync(t)
      PROVE  JobTrue(s)'
  <2>1. sync'[s] = sync[s]
    BY <1>0, <1>3, SyncBegun, LatestRead, PairsRead, SyncEnded, SyncLeft
  <2>2. UNCHANGED <<regions, matchups, polls, elections>>
    BY <1>3 DEF ReadRegions, ReadLatest, ReadPairs, EndSync, LeaveSync
  <2>3. QED
    BY <1>0, <2>1, <2>2, JobStays
<1>4. ASSUME NEW t \in Syncs \ {s}, UpsertSlot(t) PROVE JobTrue(s)'
  BY <1>0, <1>1, <1>4, SlotUpserted
<1>5. CASE ReadRegions(s)
  BY <1>0, <1>5, SyncBegun DEF ReadRegions, JobTrue
<1>6. CASE ReadLatest(s)
  <2>1. UNCHANGED <<regions, matchups, polls, elections>> /\ sync[s] # NoSync
    BY <1>6 DEF ReadLatest
  <2>2. LatestVerified' = LatestVerified
    BY <2>1 DEF LatestVerified
  <2>3. QED
    BY <1>0, <1>6, <2>1, <2>2, LatestRead DEF JobTrue
<1>7. CASE ReadPairs(s)
  <2>1. /\ UNCHANGED <<regions, matchups, polls, elections>>
        /\ sync[s] # NoSync /\ sync[s].at = "pairs"
    BY <1>7 DEF ReadPairs
  <2>2. LatestVerified' = LatestVerified /\ ByElectionPairs' = ByElectionPairs
    BY <2>1 DEF LatestVerified, ByElectionPairs
  <2>3. QED
    BY <1>0, <1>7, <2>1, <2>2, PairsRead DEF JobTrue
<1>8. CASE UpsertSlot(s)
  <2>1. UNCHANGED <<regions, matchups, polls>> /\ sync[s] # NoSync /\ sync[s].at = "write"
    BY <1>8 DEF UpsertSlot
  <2>2. LatestVerified' = LatestVerified /\ ByElectionPairs' = ByElectionPairs
    BY <2>1 DEF LatestVerified, ByElectionPairs
  <2>3. PICK slot \in sync[s].todo :
          /\ elections' = Written(elections, slot)
          /\ sync'[s].at = "write" /\ sync'[s].latest = sync[s].latest
          /\ sync'[s].todo = sync[s].todo \ {slot}
          /\ sync'[s].regions = sync[s].regions /\ sync'[s].alone = sync[s].alone
    BY <1>0, <1>8, SlotUpserted
  <2>4. PICK all : all = SlotsFrom(regions, ByElectionPairs, LatestVerified)
    OBVIOUS
  <2>5. ASSUME sync[s].alone
        PROVE  /\ sync'[s].todo \subseteq all /\ all \subseteq sync'[s].todo \cup elections'
    <3>1. sync[s].todo \subseteq all /\ all \subseteq sync[s].todo \cup elections
      BY <1>0, <2>1, <2>4, <2>5 DEF JobTrue
    <3>2. ASSUME NEW x \in all, x # slot, x \in elections PROVE x \in elections'
      <4>1. x.region # slot.region \/ x.office # slot.office
        BY <2>3, <2>4, <3>1, <3>2, SlotsDistinct
      <4>2. QED
        BY <2>3, <3>2, <4>1 DEF Written
    <3>3. slot \in elections'
      BY <2>3 DEF Written
    <3>4. QED
      BY <2>3, <3>1, <3>2, <3>3
  <2>6. SlotsFrom(regions', ByElectionPairs', LatestVerified') = all
    BY <2>1, <2>2, <2>4
  <2>7. QED
    BY <1>0, <2>1, <2>2, <2>3, <2>5, <2>6 DEF JobTrue
<1>9. CASE EndSync(s)
  <2>1. /\ UNCHANGED <<regions, matchups, polls, elections>>
        /\ sync[s] # NoSync /\ sync[s].at = "write" /\ sync[s].todo = {}
    BY <1>9 DEF EndSync
  <2>2. LatestVerified' = LatestVerified /\ ByElectionPairs' = ByElectionPairs
    BY <2>1 DEF LatestVerified, ByElectionPairs
  <2>3. QED
    BY <1>0, <1>9, <2>1, <2>2, SyncEnded DEF JobTrue
<1>10. CASE LeaveSync(s)
  BY <1>0, <1>10, SyncLeft DEF JobTrue
<1>11. CASE ReadSlots \/ ReadMatchups \/ ReadPolls \/ LeavePage \/ UNCHANGED slotVars
            \/ \E r \in RegionCodes, t \in {"official", "scenario"} : ReadRegion(r, t)
  BY <1>0, <1>11, JobStays DEF ReadSlots, ReadMatchups, ReadPolls, LeavePage, ReadRegion, slotVars
<1>12. CASE \/ \E r \in RegionCodes : UpsertRegionCode(r)
            \/ \E m \in MatchupIds : UpsertMatchupRow(m)
            \/ \E m \in MatchupIds, k \in PollKeys, day \in 0 .. MaxDay, v \in BOOLEAN :
                 StorePoll(k, m, day, v)
  BY <1>2, <1>12 DEF UpsertRegionCode, UpsertMatchupRow, StorePoll
<1>13. QED
  BY <1>3, <1>4, <1>5, <1>6, <1>7, <1>8, <1>9, <1>10, <1>11, <1>12 DEF SlotNext

\* A synchronisation that nobody disturbs leaves every region to be found and every slot
\* it derives as the tables have it, whatever was in the table before and in whatever
\* order it writes.
THEOREM SlotSyncTheorem == SlotSpec => []SlotsFollowSync
<1>1. SlotInit => SyncInv
  BY TypedInit DEF SyncInv, SlotInit, JobTrue
<1>2. SyncInv => SlotsFollowSync
  <2> SUFFICES ASSUME SyncInv, NEW s \in Syncs, sync[s] # NoSync, sync[s].at = "done", sync[s].alone
               PROVE  /\ SearchRegions = regions
                      /\ SlotsFrom(regions, ByElectionPairs, LatestVerified) \subseteq elections
    BY DEF SlotsFollowSync
  <2>1. SlotsFrom(regions, ByElectionPairs, LatestVerified) \subseteq elections
    BY DEF SyncInv, JobTrue
  <2>2. \A r \in regions : \E e \in elections : e.region = r
    BY <2>1, EverySlotted
  <2>3. QED
    BY <2>1, <2>2 DEF SearchRegions
<1>3. QED
  BY <1>1, <1>2, SyncInvNext, PTL DEF SlotSpec

-----------------------------------------------------------------------------
(* The candidate's page.                                                    *)

\* A non-empty sequence of bounded scores has a first greatest one.
LEMMA FirstBestExists ==
  ASSUME NEW n \in Nat \ {0}, NEW bound \in Nat, NEW low \in Nat,
         NEW score \in [1 .. n -> Int], \A i \in 1 .. n : score[i] + low \in 0 .. bound
  PROVE  FirstBest(score) \in 1 .. n
<1> DEFINE scores == {score[i] + low : i \in 1 .. n}
<1>1. PICK m \in scores : \A k \in scores : k <= m
  <2>1. scores \subseteq 0 .. bound /\ scores # {}
    OBVIOUS
  <2> HIDE DEF scores
  <2>2. QED
    BY <2>1, GreatestNumber
<1> DEFINE back == {n - i : i \in {k \in 1 .. n : score[k] + low = m}}
<1>2. PICK b \in back : \A c \in back : c <= b
  <2>1. back \subseteq 0 .. n /\ back # {}
    <3>1. \A i \in 1 .. n : n - i \in 0 .. n
      OBVIOUS
    <3>2. \E i \in 1 .. n : score[i] + low = m
      BY <1>1
    <3>3. QED
      BY <3>1, <3>2
  <2> HIDE DEF back
  <2>2. QED
    BY <2>1, GreatestNumber
<1>3. PICK i \in 1 .. n : score[i] + low = m /\ b = n - i
  BY <1>2
<1>4. ASSUME NEW j \in 1 .. n, j # i
      PROVE  score[i] > score[j] \/ (score[i] = score[j] /\ i < j)
  <2>1. score[j] + low <= m /\ score[i] \in Int /\ score[j] \in Int
    BY <1>1
  <2>2. CASE score[j] + low = m
    <3>1. n - j \in back
      <4>1. j \in {k \in 1 .. n : score[k] + low = m}
        BY <2>2, <1>4
      <4>2. QED
        BY <4>1
    <3>2. n - j <= b
      BY <1>2, <3>1
    <3>3. n - j <= n - i
      BY <1>3, <3>2
    <3> HIDE DEF back, scores
    <3>4. i \in Int /\ j \in Int /\ n \in Int /\ i # j
      BY <1>3, <1>4
    <3>5. i < j
      BY <3>3, <3>4
    <3>6. score[i] = score[j]
      BY <1>3, <2>1, <2>2
    <3>7. QED
      BY <3>5, <3>6
  <2>3. CASE score[j] + low # m
    <3>1. score[i] + low = m /\ score[j] + low <= m /\ low \in Nat
      BY <1>3, <2>1
    <3> HIDE DEF back, scores
    <3>2. QED
      BY <2>1, <2>3, <3>1
  <2>4. QED
    BY <2>2, <2>3
<1>5. DOMAIN score = 1 .. n
  OBVIOUS
<1>6. QED
  BY <1>4, <1>5 DEF FirstBest

LEMMA FieldsCounted ==
  ASSUME NEW p PROVE /\ Cardinality(Filled(p)) \in 0 .. 3
                     /\ IsFiniteSet(ProfileFields) /\ Cardinality(ProfileFields) = 3
<1>1. IsFiniteSet({"party"}) /\ Cardinality({"party"}) = 1
  BY FS_Singleton
<1>2. IsFiniteSet({"party"} \cup {"job"}) /\ Cardinality({"party"} \cup {"job"}) = 2
  BY <1>1, FS_AddElement
<1>3. /\ IsFiniteSet(({"party"} \cup {"job"}) \cup {"career"})
      /\ Cardinality(({"party"} \cup {"job"}) \cup {"career"}) = 3
  BY <1>2, FS_AddElement
<1>4. ProfileFields = ({"party"} \cup {"job"}) \cup {"career"}
  BY DEF ProfileFields
<1>5. Filled(p) \in SUBSET ProfileFields
  BY DEF Filled
<1>6. QED
  BY <1>3, <1>4, <1>5, FS_Subset, FS_CardinalityType

\* The entry that is taken is one of the registry.
LEMMA MatchItemIn ==
  ASSUME NEW items \in Seq(Profile), items # <<>>, NEW p
  PROVE  \E i \in DOMAIN items : MatchItem(items, p) = items[i] /\ items[i] \in Profile
<1> DEFINE n == Len(items)
           score == [i \in DOMAIN items |-> MatchScore(items[i], p)]
<1>1. n \in Nat \ {0} /\ DOMAIN items = 1 .. n /\ \A i \in 1 .. n : items[i] \in Profile
  OBVIOUS
<1>2. ASSUME NEW i \in 1 .. n
      PROVE  MatchScore(items[i], p) \in Int /\ MatchScore(items[i], p) + 290 \in 0 .. 893
  <2> DEFINE agree(f, plus, minus) ==
               IF p[f] = "none" THEN 0 ELSE IF items[i][f] = p[f] THEN plus ELSE - minus
  <2>1. PICK c \in 0 .. 3 : c = Cardinality(Filled(items[i]))
    BY FieldsCounted
  <2>2. PICK a \in {0, 500, - 250} : a = agree("party", 500, 250)
    OBVIOUS
  <2>3. PICK b \in {0, 100, - 40} : b = agree("job", 100, 40)
    OBVIOUS
  <2>4. MatchScore(items[i], p)
          = agree("party", 500, 250) + agree("job", 100, 40) + Cardinality(Filled(items[i]))
    BY DEF MatchScore
  <2> HIDE DEF agree
  <2>5. MatchScore(items[i], p) = a + b + c
    BY <2>1, <2>2, <2>3, <2>4
  <2>6. a + b + c \in Int /\ (a + b + c) + 290 \in 0 .. 893
    OBVIOUS
  <2>7. QED
    BY <2>5, <2>6
<1>3. score \in [1 .. n -> Int] /\ \A i \in 1 .. n : score[i] + 290 \in 0 .. 893
  <2>1. \A i \in 1 .. n : MatchScore(items[i], p) \in Int
    BY <1>2
  <2>2. \A i \in 1 .. n : MatchScore(items[i], p) + 290 \in 0 .. 893
    BY <1>2
  <2>3. QED
    BY <1>1, <2>1, <2>2
<1>4. FirstBest(score) \in 1 .. n
  <2> HIDE DEF score, n
  <2>0. n \in Nat \ {0} /\ score \in [1 .. n -> Int]
    BY <1>1, <1>3
  <2>1. PICK low \in Nat : low = 290
    OBVIOUS
  <2>2. PICK bound \in Nat : bound = 893
    OBVIOUS
  <2>3. \A i \in 1 .. n : score[i] + low \in 0 .. bound
    BY <1>3, <2>1, <2>2
  <2>4. QED
    BY <2>0, <2>3, FirstBestExists, Zenon
<1>5. MatchItem(items, p) = items[FirstBest(score)]
  BY DEF MatchItem
<1>6. QED
  BY <1>1, <1>4, <1>5

\* Completing a profile fills fields and empties none, and what changes comes from an
\* entry of the list.
LEMMA ProfileEnriched ==
  ASSUME NEW p \in Profile, NEW items \in Seq(Profile)
  PROVE  /\ EnrichCandidate(p, items) \in Profile
         /\ \A f \in ProfileFields :
              /\ p[f] # "none" => EnrichCandidate(p, items)[f] # "none"
              /\ EnrichCandidate(p, items)[f] # p[f] =>
                   \E i \in DOMAIN items : items[i][f] = EnrichCandidate(p, items)[f]
<1>1. CASE items = <<>>
  BY <1>1 DEF EnrichCandidate
<1>2. CASE items # <<>>
  <2>1. PICK i \in DOMAIN items : MatchItem(items, p) = items[i] /\ items[i] \in Profile
    BY <1>2, MatchItemIn
  <2>2. PICK item \in Profile : item = items[i]
    BY <2>1
  <2>3. EnrichCandidate(p, items) =
          [f \in ProfileFields |->
             IF item[f] # "none" /\ (f \in Overriding \/ p[f] = "none") THEN item[f] ELSE p[f]]
    BY <1>2, <2>1, <2>2 DEF EnrichCandidate
  <2>4. QED
    BY <2>1, <2>2, <2>3 DEF Profile
<1>3. QED
  BY <1>1, <1>2

LEMMA ReachableTyped ==
  ASSUME NEW name \in Names, NEW code \in Codes, NEW up \in SUBSET Codes
  PROVE  Reachable(name, code, up) \in Seq(Profile)
<1>1. Registry[name][code] \in Seq(Profile)
  BY ProfileAssumption
<1>2. <<>> \in Seq(Profile)
  OBVIOUS
<1>3. QED
  BY <1>1, <1>2, Zenon DEF Reachable

LEMMA BestTyped ==
  ASSUME NEW p \in Profile, NEW name \in Names, NEW up \in SUBSET Codes
  PROVE  BestProfile(p, name, up) \in Profile
<1> DEFINE tries == <<p>> \o [i \in DOMAIN TypeCodes |->
                              EnrichCandidate(p, Reachable(name, TypeCodes[i], up))]
           score == [i \in DOMAIN tries |-> Cardinality(Filled(tries[i]))]
           n == Len(tries)
<1>1. tries \in Seq(Profile) /\ n \in Nat \ {0}
  <2>1. [i \in DOMAIN TypeCodes |-> EnrichCandidate(p, Reachable(name, TypeCodes[i], up))]
          \in Seq(Profile)
    <3>1. \A i \in DOMAIN TypeCodes : TypeCodes[i] \in Codes
      BY DEF Codes
    <3>2. \A i \in DOMAIN TypeCodes :
            EnrichCandidate(p, Reachable(name, TypeCodes[i], up)) \in Profile
      BY <3>1, ReachableTyped, ProfileEnriched
    <3> DEFINE Tried(i) == EnrichCandidate(p, Reachable(name, TypeCodes[i], up))
    <3>3. \A i \in DOMAIN TypeCodes : Tried(i) \in Profile
      BY <3>2
    <3>4. PICK m \in Nat : DOMAIN TypeCodes = 1 .. m
      BY ProfileAssumption
    <3> HIDE DEF Tried
    <3>5. [i \in DOMAIN TypeCodes |-> Tried(i)] \in Seq(Profile)
      BY <3>3, <3>4
    <3>6. QED
      BY <3>5 DEF Tried
  <2>2. <<p>> \in Seq(Profile) /\ Len(<<p>>) = 1
    OBVIOUS
  <2>3. QED
    BY <2>1, <2>2
<1>2. DOMAIN tries = 1 .. n
  BY <1>1
<1>3. score \in [1 .. n -> Int] /\ \A i \in 1 .. n : score[i] + 0 \in 0 .. 3
  <2> HIDE DEF tries, n
  <2>1. \A i \in 1 .. n : Cardinality(Filled(tries[i])) \in 0 .. 3
    BY FieldsCounted
  <2>2. QED
    BY <1>2, <2>1
<1>4. FirstBest(score) \in 1 .. n
  <2> HIDE DEF score, n
  <2>1. PICK low \in Nat : low = 0
    OBVIOUS
  <2>2. PICK bound \in Nat : bound = 3
    OBVIOUS
  <2>3. \A i \in 1 .. n : score[i] + low \in 0 .. bound
    BY <1>3, <2>1, <2>2
  <2>4. QED
    BY <1>1, <1>3, <2>3, FirstBestExists, Zenon
<1>5. BestProfile(p, name, up) = IF name \in Noise THEN p ELSE tries[FirstBest(score)]
  BY DEF BestProfile
<1>6. QED
  <2> HIDE DEF score, tries
  <2>1. QED
    BY <1>1, <1>2, <1>4, <1>5

-----------------------------------------------------------------------------
\* The runs at work are told apart, and none that has yet to report has reported.
RunsApart ==
  /\ \A w \in Ingesters : ingester[w].at # "idle" => ingester[w].run \in 1 .. begun
  /\ \A w, v \in Ingesters :
       w # v /\ ingester[w].at # "idle" /\ ingester[v].at # "idle" =>
         ingester[w].run # ingester[v].run
  /\ \A w \in Ingesters : ingester[w].at = "reporting" => ingester[w].run \notin marked

\* The review rows are those of the runs that reported.
RowsCounted == reported["pending"] + reported["decided"] = Cardinality(marked)

\* A gap or a bad name was reported by some run, or is about to be, or its report was lost.
GapExplained ==
  profile # <<>> /\ NeedsReview(profile[1]) =>
    \/ marked # {}
    \/ \E w \in Ingesters : ingester[w].at = "reporting"
    \/ faults + died > 0

ProfileInv == ProfileTypeOK /\ RunsApart /\ RowsCounted /\ GapExplained

LEMMA ProfileInvInit == ProfileInit => ProfileInv
<1> SUFFICES ASSUME ProfileInit PROVE ProfileInv
  OBVIOUS
<1>1. ProfileTypeOK
  <2>1. profile \in Seq(StoredProfile) /\ Len(profile) <= 1
    BY DEF ProfileInit
  <2>2. ingests \in 0 .. MaxIngests /\ faults \in 0 .. MaxFaults /\ begun \in 0 .. MaxRuns
    BY ProfileAssumption DEF ProfileInit
  <2>3. reported \in [{"pending", "decided"} -> Nat] /\ died \in Nat /\ marked \subseteq 1 .. begun
    BY DEF ProfileInit
  <2>4. ingester \in [Ingesters -> [at : {"idle", "running", "reporting"}, run : 0 .. MaxRuns]]
    BY ProfileAssumption DEF ProfileInit
  <2>5. QED
    BY <2>1, <2>2, <2>3, <2>4 DEF ProfileTypeOK
<1>2. RunsApart /\ GapExplained
  BY DEF ProfileInit, RunsApart, GapExplained
<1>3. RowsCounted
  BY FS_EmptySet DEF ProfileInit, RowsCounted
<1>4. QED
  BY <1>1, <1>2, <1>3 DEF ProfileInv

\* A process moves on: what the others are doing stays.
LEMMA IngesterMoves ==
  ASSUME ProfileTypeOK, NEW w \in Ingesters, NEW at \in {"idle", "running", "reporting"},
         NEW run \in 0 .. MaxRuns,
         ingester' = [ingester EXCEPT ![w] = [at |-> at, run |-> run]]
  PROVE  /\ ingester' \in [Ingesters -> [at : {"idle", "running", "reporting"}, run : 0 .. MaxRuns]]
         /\ ingester'[w].at = at /\ ingester'[w].run = run
         /\ \A v \in Ingesters \ {w} :
              ingester'[v].at = ingester[v].at /\ ingester'[v].run = ingester[v].run
BY DEF ProfileTypeOK

LEMMA IngesterSteps ==
  ASSUME ProfileTypeOK, NEW w \in Ingesters, NEW at \in {"idle", "running", "reporting"},
         ingester' = [ingester EXCEPT ![w].at = at]
  PROVE  /\ ingester' \in [Ingesters -> [at : {"idle", "running", "reporting"}, run : 0 .. MaxRuns]]
         /\ ingester'[w].at = at /\ ingester'[w].run = ingester[w].run
         /\ \A v \in Ingesters \ {w} :
              ingester'[v].at = ingester[v].at /\ ingester'[v].run = ingester[v].run
BY DEF ProfileTypeOK

\* One more run that reported is one more row.
LEMMA MarkedGrows ==
  ASSUME ProfileTypeOK, NEW run \in Nat, run \notin marked
  PROVE  Cardinality(marked \cup {run}) = Cardinality(marked) + 1
<1>1. IsFiniteSet(marked)
  <2>1. begun \in Int
    BY ProfileAssumption DEF ProfileTypeOK
  <2>2. IsFiniteSet(1 .. begun)
    BY <2>1, FS_Interval
  <2>3. QED
    BY <2>2, FS_Subset DEF ProfileTypeOK
<1>2. QED
  BY <1>1, FS_AddElement

LEMMA ProfileInvNext == ProfileInv /\ [ProfileNext]_profileVars => ProfileInv'
<1> SUFFICES ASSUME ProfileInv, [ProfileNext]_profileVars PROVE ProfileInv'
  OBVIOUS
<1> USE DEF ProfileInv
<1>0. begun \in Nat /\ MaxRuns \in Nat /\ faults \in Nat /\ died \in Nat /\ MaxFaults \in Nat
  BY ProfileAssumption DEF ProfileTypeOK
<1>1. ASSUME NEW w \in Ingesters, BeginRun(w) PROVE ProfileInv'
  <2>1. /\ begun' = begun + 1 /\ begun + 1 \in 0 .. MaxRuns /\ ingester[w].at = "idle"
        /\ ingester' = [ingester EXCEPT ![w] = [at |-> "running", run |-> begun + 1]]
        /\ UNCHANGED <<profile, reported, marked, faults, died, ingests>>
    BY <1>0, <1>1 DEF BeginRun
  <2>2. PICK next \in 0 .. MaxRuns : next = begun + 1
    BY <2>1
  <2>3. ingester' = [ingester EXCEPT ![w] = [at |-> "running", run |-> next]]
    BY <2>1, <2>2
  <2>4. /\ ingester' \in [Ingesters -> [at : {"idle", "running", "reporting"}, run : 0 .. MaxRuns]]
        /\ ingester'[w].at = "running" /\ ingester'[w].run = next
        /\ \A v \in Ingesters \ {w} :
             ingester'[v].at = ingester[v].at /\ ingester'[v].run = ingester[v].run
    BY <2>3, IngesterMoves
  <2>5. 1 .. begun \subseteq 1 .. begun' /\ next \in 1 .. begun' /\ next \notin 1 .. begun
    BY <1>0, <2>1, <2>2
  <2>6. ProfileTypeOK'
    BY <2>1, <2>4, <2>5 DEF ProfileTypeOK
  <2>7. RunsApart'
    BY <2>1, <2>4, <2>5 DEF RunsApart
  <2>8. GapExplained'
    BY <2>1, <2>4 DEF GapExplained, NeedsReview
  <2>9. QED
    BY <2>1, <2>6, <2>7, <2>8 DEF RowsCounted
<1>2. ASSUME NEW w \in Ingesters, EndRun(w) PROVE ProfileInv'
  <2>1. /\ ingester' \in [Ingesters -> [at : {"idle", "running", "reporting"}, run : 0 .. MaxRuns]]
        /\ ingester'[w].at = "idle" /\ ingester'[w].run = ingester[w].run
        /\ \A v \in Ingesters \ {w} :
             ingester'[v].at = ingester[v].at /\ ingester'[v].run = ingester[v].run
    BY <1>2, IngesterSteps DEF EndRun
  <2>2. /\ UNCHANGED <<profile, reported, marked, faults, died, begun, ingests>>
        /\ ingester[w].at = "running"
    BY <1>2 DEF EndRun
  <2>3. RunsApart'
    BY <2>1, <2>2 DEF RunsApart
  <2>4. GapExplained'
    BY <2>1, <2>2 DEF GapExplained, NeedsReview
  <2>5. QED
    BY <2>1, <2>2, <2>3, <2>4 DEF ProfileTypeOK, RowsCounted
<1>3. ASSUME NEW w \in Ingesters, Die(w) PROVE ProfileInv'
  <2>1. /\ ingester' \in [Ingesters -> [at : {"idle", "running", "reporting"}, run : 0 .. MaxRuns]]
        /\ ingester'[w].at = "idle" /\ ingester'[w].run = ingester[w].run
        /\ \A v \in Ingesters \ {w} :
             ingester'[v].at = ingester[v].at /\ ingester'[v].run = ingester[v].run
    BY <1>3, IngesterSteps DEF Die
  <2>2. UNCHANGED <<profile, reported, marked, faults, begun, ingests>> /\ died' = died + 1
    BY <1>3 DEF Die
  <2>3. RunsApart'
    BY <2>1, <2>2 DEF RunsApart
  <2>4. died' \in Nat /\ faults' + died' > 0
    BY <1>0, <2>2
  <2>5. QED
    BY <2>1, <2>2, <2>3, <2>4 DEF ProfileTypeOK, RowsCounted, GapExplained
<1>4. ASSUME NEW w \in Ingesters, ReportCandidate(w) PROVE ProfileInv'
  <2>1. /\ ingester' \in [Ingesters -> [at : {"idle", "running", "reporting"}, run : 0 .. MaxRuns]]
        /\ ingester'[w].at = "running" /\ ingester'[w].run = ingester[w].run
        /\ \A v \in Ingesters \ {w} :
             ingester'[v].at = ingester[v].at /\ ingester'[v].run = ingester[v].run
    BY <1>4, IngesterSteps DEF ReportCandidate
  <2>2. /\ ingester[w].at = "reporting"
        /\ reported' = [reported EXCEPT !["pending"] = @ + 1]
        /\ marked' = marked \cup {ingester[w].run}
        /\ UNCHANGED <<profile, faults, died, begun, ingests>>
    BY <1>4 DEF ReportCandidate
  <2>3. PICK run \in 1 .. begun : run = ingester[w].run /\ run \notin marked
    BY <2>2 DEF RunsApart
  <2>4. marked' \subseteq 1 .. begun /\ marked' # {} /\ marked' = marked \cup {run}
    BY <2>2, <2>3 DEF ProfileTypeOK
  <2>5. /\ reported' \in [{"pending", "decided"} -> Nat]
        /\ reported'["pending"] + reported'["decided"]
             = reported["pending"] + reported["decided"] + 1
    <3>1. reported \in [{"pending", "decided"} -> Nat]
      BY DEF ProfileTypeOK
    <3>2. QED
      BY <2>2, <3>1
  <2>6. RowsCounted'
    <3>1. Cardinality(marked') = Cardinality(marked) + 1
      BY <1>0, <2>3, <2>4, MarkedGrows
    <3>2. QED
      BY <2>5, <3>1 DEF RowsCounted
  <2>7. RunsApart'
    <3>1. \A v \in Ingesters \ {w} : ingester[v].at = "reporting" =>
            ingester[v].run # run /\ ingester[v].run \notin marked
      BY <2>2, <2>3 DEF RunsApart
    <3>2. \A v \in Ingesters : ingester'[v].at = "reporting" => ingester'[v].run \notin marked'
      BY <2>1, <2>4, <3>1
    <3>3. QED
      BY <2>1, <2>2, <3>2 DEF RunsApart
  <2>8. QED
    BY <2>1, <2>2, <2>4, <2>5, <2>6, <2>7 DEF ProfileTypeOK, GapExplained
<1>5. ASSUME NEW w \in Ingesters, ReportFails(w) PROVE ProfileInv'
  <2>1. /\ ingester' \in [Ingesters -> [at : {"idle", "running", "reporting"}, run : 0 .. MaxRuns]]
        /\ ingester'[w].at = "running" /\ ingester'[w].run = ingester[w].run
        /\ \A v \in Ingesters \ {w} :
             ingester'[v].at = ingester[v].at /\ ingester'[v].run = ingester[v].run
    BY <1>5, IngesterSteps DEF ReportFails
  <2>2. /\ UNCHANGED <<profile, reported, marked, died, begun, ingests>>
        /\ faults' = faults + 1 /\ faults < MaxFaults /\ ingester[w].at = "reporting"
    BY <1>5 DEF ReportFails
  <2>3. RunsApart'
    BY <2>1, <2>2 DEF RunsApart
  <2>4. faults' \in 0 .. MaxFaults /\ faults' + died' > 0
    BY <1>0, <2>2
  <2>5. QED
    BY <2>1, <2>2, <2>3, <2>4 DEF ProfileTypeOK, RowsCounted, GapExplained
<1>6. ASSUME NEW w \in Ingesters, NEW p \in Profiles, NEW name \in Names, NEW up \in SUBSET Codes,
             UpsertCandidate(w, p, name, up)
      PROVE  ProfileInv'
  <2>1. PICK stored : stored = [name |-> name, fields |-> BestProfile(p, name, up)]
    OBVIOUS
  <2>2. stored \in StoredProfile
    BY <2>1, BestTyped, ProfileAssumption DEF Profile, StoredProfile
  <2>3. PICK at \in {"running", "reporting"} :
          at = IF NeedsReview(stored) /\ ingester[w].run \notin marked
               THEN "reporting" ELSE "running"
    OBVIOUS
  <2>4. /\ ingester[w].at = "running" /\ ingests < MaxIngests /\ ingests' = ingests + 1
        /\ profile' = <<stored>>
        /\ ingester' = [ingester EXCEPT ![w].at = at]
        /\ UNCHANGED <<reported, marked, faults, died, begun>>
    BY <1>6, <2>1, <2>3, Zenon DEF UpsertCandidate
  <2>5. /\ ingester' \in [Ingesters -> [at : {"idle", "running", "reporting"}, run : 0 .. MaxRuns]]
        /\ ingester'[w].at = at /\ ingester'[w].run = ingester[w].run
        /\ \A v \in Ingesters \ {w} :
             ingester'[v].at = ingester[v].at /\ ingester'[v].run = ingester[v].run
    BY <2>3, <2>4, IngesterSteps
  <2>6. ingests' \in 0 .. MaxIngests
    BY <2>4, ProfileAssumption DEF ProfileTypeOK
  <2>7. profile' \in Seq(StoredProfile) /\ Len(profile') <= 1 /\ profile'[1] = stored
    BY <2>2, <2>4
  <2>8. RunsApart'
    BY <2>3, <2>4, <2>5 DEF RunsApart
  <2>9. GapExplained'
    <3>1. NeedsReview(stored) => at = "reporting" \/ marked # {}
      BY <2>3
    <3>2. NeedsReview(profile'[1]) => ingester'[w].at = "reporting" \/ marked' # {}
      BY <2>4, <2>5, <2>7, <3>1
    <3>3. QED
      BY <3>2 DEF GapExplained, NeedsReview
  <2>10. QED
    BY <2>4, <2>5, <2>6, <2>7, <2>8, <2>9 DEF ProfileTypeOK, RowsCounted
<1>7. CASE DecideProfile
  <2>1. reported \in [{"pending", "decided"} -> Nat]
    BY DEF ProfileTypeOK
  <2>2. /\ reported' \in [{"pending", "decided"} -> Nat]
        /\ reported'["pending"] + reported'["decided"]
             = reported["pending"] + reported["decided"]
    BY <1>7, <2>1 DEF DecideProfile
  <2>3. UNCHANGED <<profile, ingester, marked, faults, died, begun, ingests>>
    BY <1>7 DEF DecideProfile
  <2>4. QED
    BY <2>2, <2>3 DEF ProfileTypeOK, RunsApart, RowsCounted, GapExplained, NeedsReview
<1>8. CASE UNCHANGED profileVars
  BY <1>8 DEF profileVars, ProfileTypeOK, RunsApart, RowsCounted, GapExplained, NeedsReview
<1>9. QED
  BY <1>1, <1>2, <1>3, <1>4, <1>5, <1>6, <1>7, <1>8 DEF ProfileNext

\* Across runs of any number of processes, whichever inserts fail and whichever processes
\* die: one review row for each run that remembers a report, and no gap out of sight but
\* those whose report was lost.
THEOREM GapsReportedTheorem == ProfileSpec => []GapsReported
<1>1. ProfileInv => GapsReported
  <2> SUFFICES ASSUME ProfileInv PROVE GapsReported
    OBVIOUS
  <2>1. PICK p \in Nat, d \in Nat : p = reported["pending"] /\ d = reported["decided"]
    BY DEF ProfileInv, ProfileTypeOK
  <2>2. p + d = Cardinality(marked)
    BY <2>1 DEF ProfileInv, RowsCounted
  <2>3. marked # {} => p > 0 \/ d > 0
    <3>1. ASSUME marked # {} PROVE Cardinality(marked) # 0
      <4>1. IsFiniteSet(marked)
        <5>1. begun \in Int
          BY ProfileAssumption DEF ProfileInv, ProfileTypeOK
        <5>2. IsFiniteSet(1 .. begun)
          BY <5>1, FS_Interval
        <5>3. QED
          BY <5>2, FS_Subset DEF ProfileInv, ProfileTypeOK
      <4>2. QED
        BY <3>1, <4>1, FS_EmptySet
    <3>2. QED
      BY <2>2, <3>1
  <2>4. GetCandidate({}).needsReview = (p > 0)
    BY <2>1 DEF GetCandidate
  <2>5. profile # <<>> /\ NeedsReview(profile[1]) =>
          \/ marked # {}
          \/ \E w \in Ingesters : ingester[w].at = "reporting"
          \/ faults + died > 0
    BY DEF ProfileInv, GapExplained
  <2>6. QED
    BY <2>1, <2>2, <2>3, <2>4, <2>5 DEF GapsReported
<1>2. QED
  BY <1>1, ProfileInvInit, ProfileInvNext, PTL DEF ProfileSpec

\* What the page calls the source of the whole.
LEMMA SourceOfAll ==
  ASSUME NEW provenance, \A f \in ProfileFields : provenance[f] \in {"missing", "ingest", "data_go"},
         ProfileSource(provenance) \in {"ingest", "none"}
  PROVE  \A f \in ProfileFields : provenance[f] # "data_go"
<1> DEFINE values == {provenance[f] : f \in ProfileFields} \ {"missing"}
<1>1. SUFFICES ASSUME "data_go" \in values PROVE FALSE
  OBVIOUS
<1>2. CASE values = {"data_go"}
  BY <1>2 DEF ProfileSource
<1>3. CASE values # {"data_go"}
  <2>0. values \subseteq {"data_go", "ingest"}
    OBVIOUS
  <2>1. values = {"data_go"} \cup {"ingest"}
    <3> HIDE DEF values
    <3>1. QED
      BY <1>1, <1>3, <2>0
  <2>2. Cardinality({"data_go"} \cup {"ingest"}) = 2
    <3>1. IsFiniteSet({"data_go"}) /\ Cardinality({"data_go"}) = 1 /\ "ingest" \notin {"data_go"}
      BY FS_Singleton
    <3>2. QED
      BY <3>1, FS_AddElement
  <2> HIDE DEF values
  <2>3. ProfileSource(provenance) = "mixed"
    BY <2>1, <2>2 DEF ProfileSource, values
  <2>4. QED
    BY <2>3
<1>4. QED
  BY <1>2, <1>3

\* However often and under whatever names the candidate comes with new articles, whatever
\* lists of the registry answer then and when the page is read, and whatever is reported,
\* lost or decided: the page empties nothing, invents nothing and names its sources.
THEOREM CandidatePageTheorem == ProfileSpec => []ProfilePageTruthful
<1>1. ProfileInv => ProfilePageTruthful
  <2> SUFFICES ASSUME ProfileInv, profile # <<>>, NEW up \in SUBSET Codes
               PROVE  LET shown == GetCandidate(up)
                          stored == profile[1].fields
                          entries == Registry[profile[1].name][ReaderCode]
                      IN /\ \A f \in ProfileFields :
                              /\ (shown.provenance[f] = "missing") = (shown.profile[f] = "none")
                              /\ stored[f] # "none" => shown.profile[f] # "none"
                              /\ shown.provenance[f] = "data_go" =>
                                   /\ ReaderCode \in up
                                   /\ \E i \in DOMAIN entries : entries[i][f] = shown.profile[f]
                         /\ shown.source \in {"ingest", "none"} => shown.profile = stored
                         /\ Required \subseteq Filled(stored) => shown.completeness = "complete"
    BY DEF ProfilePageTruthful
  <2>0. profile[1] \in StoredProfile
    BY DEF ProfileInv, ProfileTypeOK
  <2>1. PICK base \in Profile, name \in Names : base = profile[1].fields /\ name = profile[1].name
    BY <2>0 DEF StoredProfile, Profile
  <2>2. PICK items \in Seq(Profile) : items = Reachable(name, ReaderCode, up)
    BY ReachableTyped DEF Codes
  <2>3. PICK final \in Profile : final = EnrichCandidate(base, items)
    BY ProfileEnriched
  <2>4. \A f \in ProfileFields :
          /\ base[f] # "none" => final[f] # "none"
          /\ final[f] # base[f] => \E i \in DOMAIN items : items[i][f] = final[f]
    BY <2>3, ProfileEnriched
  <2>5. PICK prov : prov = Provenance(base, final)
    OBVIOUS
  <2>6. \A f \in ProfileFields :
          /\ final[f] = "none" => prov[f] = "missing"
          /\ final[f] # "none" /\ base[f] = final[f] => prov[f] = "ingest"
          /\ final[f] # "none" /\ base[f] # final[f] => prov[f] = "data_go"
    BY <2>5 DEF Provenance
  <2>7. PICK entries : entries = Registry[name][ReaderCode]
    OBVIOUS
  <2>8. \A f \in ProfileFields : prov[f] = "data_go" =>
          ReaderCode \in up /\ \E i \in DOMAIN entries : entries[i][f] = final[f]
    <3>1. ReaderCode \in up \/ items = <<>>
      BY <2>2 DEF Reachable
    <3>2. ReaderCode \in up => items = entries
      BY <2>2, <2>7 DEF Reachable
    <3>3. QED
      BY <2>4, <2>6, <3>1, <3>2
  <2>9. ProfileSource(prov) \in {"ingest", "none"} => final = base
    <3>1. ASSUME ProfileSource(prov) \in {"ingest", "none"}, NEW f \in ProfileFields
          PROVE  final[f] = base[f]
      <4>1. prov[f] # "data_go"
        BY <2>6, <3>1, SourceOfAll
      <4>2. QED
        BY <2>4, <2>6, <4>1
    <3>2. QED
      BY <3>1 DEF Profile
  <2>10. Required \subseteq Filled(base) => Required \cap Filled(final) = Required
    BY <2>4 DEF Required, Filled, ProfileFields
  <2>11. PICK shown : shown = GetCandidate(up)
    OBVIOUS
  <2>12. /\ shown.profile = final /\ shown.provenance = prov /\ shown.source = ProfileSource(prov)
         /\ Required \cap Filled(final) = Required => shown.completeness = "complete"
    BY <2>1, <2>2, <2>3, <2>5, <2>11 DEF GetCandidate
  <2>13. \A f \in ProfileFields :
           /\ (shown.provenance[f] = "missing") = (shown.profile[f] = "none")
           /\ base[f] # "none" => shown.profile[f] # "none"
           /\ shown.provenance[f] = "data_go" =>
                ReaderCode \in up /\ \E i \in DOMAIN entries : entries[i][f] = shown.profile[f]
    BY <2>4, <2>6, <2>8, <2>12
  <2>14. shown.source \in {"ingest", "none"} => shown.profile = base
    BY <2>9, <2>12
  <2>15. Required \subseteq Filled(base) => shown.completeness = "complete"
    BY <2>10, <2>12
  <2>16. QED
    BY <2>1, <2>7, <2>11, <2>13, <2>14, <2>15, Zenon
<1>2. QED
  BY <1>1, ProfileInvInit, ProfileInvNext, PTL DEF ProfileSpec

-----------------------------------------------------------------------------
(* The services together.                                                  *)

\* A step of the services is a step of the one that is followed, or leaves it alone.
LEMMA StepsProjected ==
  ASSUME [Next]_serviceVars
  PROVE  /\ [QueueNext]_queueVars /\ [HealNext]_healVars /\ [ClientNext]_clientVars
         /\ [SlotNext]_slotVars /\ [ProfileNext]_profileVars
         /\ [ApplyRules]_recordVars /\ [CollectorNext]_collectorVars
         /\ UNCHANGED focus
         /\ focus # "records" => UNCHANGED recordVars
         /\ focus # "collector" => UNCHANGED collectorVars
<1>1. CASE Next
  BY <1>1, Zenon DEF Next, InQueue, InSchema, InClient, InSlots, InProfile, InRecords, InCollector
<1>2. CASE UNCHANGED serviceVars
  BY <1>2, Zenon DEF serviceVars
<1>3. QED
  BY <1>1, <1>2

\* Each service behaves among the others as its own specification says; the rules and the
\* collector do so where they are followed, and stand still elsewhere.
THEOREM ServicesTheorem ==
  Spec => QueueSpec /\ HealSpec /\ ClientSpec /\ SlotSpec /\ ProfileSpec
            /\ (RecordSpec \/ [](part = [rule |-> "none"] /\ outcome = <<>>))
            /\ (CollectorSpec \/ [](CollectorIdle))
<1>1. Init => QueueInit /\ HealInit /\ ClientInit /\ SlotInit /\ ProfileInit
  BY Zenon DEF Init
<1>2. [Next]_serviceVars => /\ [QueueNext]_queueVars /\ [HealNext]_healVars
                            /\ [ClientNext]_clientVars /\ [SlotNext]_slotVars
                            /\ [ProfileNext]_profileVars
                            /\ [ApplyRules]_recordVars /\ [CollectorNext]_collectorVars
  BY StepsProjected
<1>. DEFINE NoRecords == focus # "records" /\ part = [rule |-> "none"] /\ outcome = <<>>
            NoCollector == focus # "collector" /\ CollectorIdle
<1>3. Init => (RecordInit \/ NoRecords) /\ (CollectorInit \/ NoCollector)
  BY Zenon DEF Init
<1>4. NoRecords /\ [Next]_serviceVars => NoRecords'
  BY StepsProjected DEF recordVars
<1>5. NoCollector /\ [Next]_serviceVars => NoCollector'
  BY StepsProjected DEF collectorVars, CollectorIdle
<1>6. /\ NoRecords => part = [rule |-> "none"] /\ outcome = <<>>
      /\ NoCollector => CollectorIdle
  OBVIOUS
<1>. HIDE DEF NoRecords, NoCollector
<1>7. QED
  BY <1>1, <1>2, <1>3, <1>4, <1>5, <1>6, PTL
    DEF Spec, QueueSpec, HealSpec, ClientSpec, SlotSpec, ProfileSpec, RecordSpec, CollectorSpec

-----------------------------------------------------------------------------
(* The schema and the clients of data.go keep their types.                 *)

THEOREM HealTypesTheorem == HealSpec => []HealTypeOK
<1>1. HealInit => HealTypeOK
  BY DEF HealInit, HealTypeOK, Server, Down, Steps
<1>2. HealTypeOK /\ [HealNext]_healVars => HealTypeOK'
  <2> SUFFICES ASSUME HealTypeOK, [HealNext]_healVars PROVE HealTypeOK'
    OBVIOUS
  <2> USE HealAssumption
  <2>1. ASSUME NEW what \in {"failures", "stops", "downgrades"}, Suffers(what)
        PROVE  trouble' \in [{"failures", "stops", "downgrades"} -> Nat]
    BY <2>1 DEF Suffers, HealTypeOK
  <2>2. /\ [Down EXCEPT !.up = TRUE] \in Server /\ Down \in Server
        /\ \A t \in Requests : ServedBy[t] \in Servers
    BY DEF Down, Server
  <2>3. ASSUME NEW p \in Servers, Start(p) PROVE HealTypeOK'
    BY <2>2, <2>3 DEF Start, HealTypeOK
  <2>4. ASSUME NEW p \in Servers, StartBootstrapFails(p) PROVE HealTypeOK'
    BY <2>1, <2>2, <2>4 DEF StartBootstrapFails, HealTypeOK
  <2>5. ASSUME NEW p \in Servers, Stop(p) PROVE HealTypeOK'
    BY <2>1, <2>2, <2>5 DEF Stop, HealTypeOK, Steps
  <2>6. CASE Downgrade
    BY <2>1, <2>6 DEF Downgrade, HealTypeOK
  <2>7. ASSUME NEW t \in Requests, MeetMismatch(t) PROVE HealTypeOK'
    BY <2>7 DEF MeetMismatch, HealTypeOK, Steps
  <2>8. ASSUME NEW t \in Requests, HealedBefore(t) PROVE HealTypeOK'
    BY <2>8 DEF HealedBefore, HealTypeOK, Steps
  <2>9. ASSUME NEW t \in Requests, StartHeal(t) PROVE HealTypeOK'
    BY <2>2, <2>9 DEF StartHeal, HealTypeOK, Steps, Server
  <2>10. ASSUME NEW t \in Requests, Heal(t) PROVE HealTypeOK'
    BY <2>2, <2>10 DEF Heal, HealTypeOK, Steps, Server
  <2>11. ASSUME NEW t \in Requests, HealFails(t) PROVE HealTypeOK'
    BY <2>1, <2>2, <2>11 DEF HealFails, HealTypeOK, Steps, Server
  <2>12. CASE UNCHANGED healVars
    BY <2>12 DEF healVars, HealTypeOK
  <2>13. QED
    BY <2>3, <2>4, <2>5, <2>6, <2>7, <2>8, <2>9, <2>10, <2>11, <2>12 DEF HealNext, HealRequest
<1>3. QED
  BY <1>1, <1>2, PTL DEF HealSpec

\* A list that is being read is never complete before its last page.
PagesInOrder ==
  \A t \in Callers :
    call[t] # NoCall /\ call[t].at # "store" => Len(call[t].pages) < LastPage

LEMMA CallTyped ==
  ASSUME NEW t \in Callers, ClientTypeOK, call[t] # NoCall
  PROVE  /\ call[t] \in CallType
         /\ call[t].attempt \in 1 .. Attempts /\ call[t].slot \in Nat
         /\ call[t].pages \in Seq(1 .. LastPage) /\ call[t].at # "idle"
BY DEF ClientTypeOK, CallType

THEOREM ClientTypesTheorem == ClientSpec => []ClientTypeOK
<1> DEFINE Inv == ClientTypeOK /\ PagesInOrder
<1>1. ClientInit => Inv
  BY ClientAssumption DEF ClientInit, ClientTypeOK, PagesInOrder
<1>2. Inv /\ [ClientNext]_clientVars => Inv'
  <2> SUFFICES ASSUME ClientTypeOK, PagesInOrder, [ClientNext]_clientVars PROVE Inv'
    OBVIOUS
  <2> USE ClientAssumption
  <2>1. ASSUME NEW t \in Callers, NEW c \in CallType \cup {NoCall}, call' = [call EXCEPT ![t] = c],
               c # NoCall /\ c.at # "store" => Len(c.pages) < LastPage
        PROVE  call' \in [Callers -> CallType \cup {NoCall}] /\ PagesInOrder'
    BY <2>1 DEF ClientTypeOK, PagesInOrder
  <2>2. ASSUME NEW t \in Callers, CacheMiss(t) PROVE Inv'
    <3> DEFINE c == [at |-> "reserve", attempt |-> 1, slot |-> 0, pages |-> <<>>]
    <3>1. c \in CallType /\ Len(c.pages) < LastPage
      BY DEF CallType, Attempts
    <3>2. QED
      BY <2>1, <2>2, <3>1 DEF CacheMiss, ClientTypeOK
  <2>3. ASSUME NEW t \in Callers, Reserve(t) PROVE Inv'
    <3> DEFINE c == [call[t] EXCEPT !.at = "sleep", !.slot = Later(clock, nextAllowed)]
    <3>1. Later(clock, nextAllowed) \in Nat /\ NextSlot \in Nat
      BY DEF ClientTypeOK, Later, NextSlot
    <3>2. c \in CallType /\ c.at = "sleep" /\ c.pages = call[t].pages
      BY <2>3, <3>1, CallTyped DEF CallType, Reserve
    <3>3. call' = [call EXCEPT ![t] = c]
      BY <2>3 DEF Reserve, ClientTypeOK
    <3>4. Len(c.pages) < LastPage
      BY <2>3, <3>2 DEF Reserve, PagesInOrder
    <3>5. QED
      BY <2>1, <2>3, <3>1, <3>2, <3>3, <3>4 DEF Reserve, ClientTypeOK
  <2>4. ASSUME NEW t \in Callers, Send(t) PROVE Inv'
    <3> DEFINE c == [call[t] EXCEPT !.at = "sent"]
    <3>1. c \in CallType /\ c.at = "sent" /\ c.pages = call[t].pages
      BY <2>4, CallTyped DEF CallType, Send
    <3>2. call' = [call EXCEPT ![t] = c]
      BY <2>4 DEF Send, ClientTypeOK
    <3>3. Len(c.pages) < LastPage
      BY <2>4, <3>1 DEF Send, PagesInOrder
    <3>4. call' \in [Callers -> CallType \cup {NoCall}] /\ PagesInOrder'
      <4> HIDE DEF c
      <4>1. QED
        BY <2>1, <3>1, <3>2, <3>3
    <3>5. QED
      BY <2>4, <3>4 DEF Send, ClientTypeOK
  <2>5. ASSUME NEW t \in Callers, Answer(t) PROVE Inv'
    <3> DEFINE more == Append(call[t].pages, Len(call[t].pages) + 1)
               next == IF Len(call[t].pages) + 1 = LastPage THEN "store" ELSE "reserve"
               c == [call[t] EXCEPT !.pages = more, !.at = next]
    <3>1. call[t].pages \in Seq(1 .. LastPage) /\ Len(call[t].pages) < LastPage
      BY <2>5, CallTyped DEF Answer, PagesInOrder
    <3>2. more \in Seq(1 .. LastPage) /\ Len(more) = Len(call[t].pages) + 1
      BY <3>1
    <3>3. next # "store" => Len(more) < LastPage
      BY <3>1, <3>2
    <3> HIDE DEF more
    <3>4. c \in CallType /\ c.at = next /\ c.pages = more
      BY <2>5, <3>2, CallTyped DEF CallType, Answer
    <3>5. call' = [call EXCEPT ![t] = c]
      BY <2>5 DEF Answer, ClientTypeOK, more
    <3>6. QED
      BY <2>1, <2>5, <3>3, <3>4, <3>5 DEF Answer, ClientTypeOK
  <2>6. ASSUME NEW t \in Callers, FailRetryably(t) PROVE Inv'
    <3> DEFINE c == [call[t] EXCEPT !.at = "reserve", !.attempt = @ + 1, !.pages = <<>>]
    <3>1. call[t].attempt + 1 \in 1 .. Attempts
      BY <2>6, CallTyped DEF FailRetryably, Attempts
    <3>2. c \in CallType /\ c.pages = <<>> /\ Len(<<>>) < LastPage
      <4>1. <<>> \in Seq(1 .. LastPage) /\ Len(<<>>) < LastPage
        OBVIOUS
      <4>2. call[t] \in CallType
        BY <2>6, CallTyped DEF FailRetryably
      <4>3. QED
        BY <3>1, <4>1, <4>2 DEF CallType
    <3>3. call' = [call EXCEPT ![t] = c]
      BY <2>6 DEF FailRetryably, ClientTypeOK
    <3>4. QED
      BY <2>1, <2>6, <3>2, <3>3 DEF FailRetryably, ClientTypeOK
  <2>7. ASSUME NEW t \in Callers, GiveUp(t) PROVE Inv'
    BY <2>1, <2>7 DEF GiveUp, ClientTypeOK
  <2>8. ASSUME NEW t \in Callers, Store(t) PROVE Inv'
    <3>1. [until |-> clock + CacheTtl, pages |-> call[t].pages]
            \in [until : Nat, pages : Seq(1 .. LastPage)]
      BY <2>8, CallTyped DEF Store, ClientTypeOK
    <3>2. QED
      BY <2>1, <2>8, <3>1 DEF Store, ClientTypeOK
  <2>9. CASE ClientTick
    BY <2>9 DEF ClientTick, ClientTypeOK, PagesInOrder
  <2>10. CASE UNCHANGED clientVars
    BY <2>10 DEF clientVars, ClientTypeOK, PagesInOrder
  <2>11. QED
    BY <2>2, <2>3, <2>4, <2>5, <2>6, <2>7, <2>8, <2>9, <2>10 DEF ClientNext
<1>3. QED
  BY <1>1, <1>2, PTL DEF ClientSpec

-----------------------------------------------------------------------------
\* What is done with one article fills the fields of the output, and adds none.
LEMMA OutputShape ==
  ASSUME NEW out, NEW url, NEW p, NEW c
  PROVE  /\ DOMAIN Handled(out, url, p) = DOMAIN out
         /\ DOMAIN Packed(out, url, p) = DOMAIN out
         /\ DOMAIN Packed(FetchFailed(out, c), url, p) = DOMAIN out
         /\ DOMAIN FetchFailed(out, c) = DOMAIN out
<1>1. ASSUME NEW o PROVE DOMAIN Extracted(o, url, p) = DOMAIN o
  BY DEF Extracted
<1>2. ASSUME NEW o PROVE DOMAIN Thresholded(o, url, p) = DOMAIN o
  BY DEF Thresholded
<1>3. ASSUME NEW o PROVE DOMAIN Handled(o, url, p) = DOMAIN o
  BY <1>1 DEF Handled
<1>4. ASSUME NEW o PROVE DOMAIN Packed(o, url, p) = DOMAIN o
  BY <1>1, <1>2 DEF Packed
<1>5. DOMAIN FetchFailed(out, c) = DOMAIN out
  BY DEF FetchFailed
<1>6. QED
  BY <1>3, <1>4, <1>5

\* All services keep their types.
THEOREM ServicesTypesTheorem == Spec => []TypeOK
<1> DEFINE Frame == /\ focus \in Focuses
                    /\ phase \in {"discover", "fetch", "done"} /\ DOMAIN output = DOMAIN NoOutput
<1>1. ProfileSpec => []ProfileTypeOK
  <2>1. ProfileInit => ProfileInv
    BY ProfileInvInit
  <2>2. ProfileInv /\ [ProfileNext]_profileVars => ProfileInv'
    BY ProfileInvNext
  <2>3. ProfileInv => ProfileTypeOK
    BY DEF ProfileInv
  <2>4. QED
    BY <2>1, <2>2, <2>3, PTL DEF ProfileSpec
<1>2. Init => Frame
  BY DEF Init, CollectorInit, CollectorIdle
<1>3. Frame /\ [Next]_serviceVars => Frame'
  <2> SUFFICES ASSUME Frame, [Next]_serviceVars PROVE Frame'
    OBVIOUS
  <2>1. UNCHANGED focus /\ [CollectorNext]_collectorVars
    BY StepsProjected
  <2>2. ASSUME NEW f \in Findings, Discover(f) PROVE Frame'
    BY <2>1, <2>2 DEF Discover
  <2>3. CASE FetchNext
    <3>1. DOMAIN output' = DOMAIN output
      <4>1. PICK c, url, p :
              \/ output' = IF driver.kind = "run" THEN Handled(output, url, p)
                           ELSE Packed(output, url, p)
              \/ output' = IF driver.kind = "run" THEN FetchFailed(output, c)
                           ELSE Packed(FetchFailed(output, c), url, p)
        BY <2>3, Zenon DEF FetchNext
      <4>2. output' \in {Handled(output, url, p), Packed(output, url, p), FetchFailed(output, c),
                         Packed(FetchFailed(output, c), url, p)}
        BY <4>1
      <4>3. /\ DOMAIN Handled(output, url, p) = DOMAIN output
            /\ DOMAIN Packed(output, url, p) = DOMAIN output
            /\ DOMAIN Packed(FetchFailed(output, c), url, p) = DOMAIN output
            /\ DOMAIN FetchFailed(output, c) = DOMAIN output
        BY OutputShape
      <4>4. QED
        BY <4>2, <4>3
    <3>2. phase' = phase
      BY <2>3 DEF FetchNext
    <3>3. QED
      BY <2>1, <3>1, <3>2
  <2>4. CASE FinishCollecting
    BY <2>1, <2>4 DEF FinishCollecting
  <2>5. CASE UNCHANGED collectorVars
    BY <2>1, <2>5 DEF collectorVars
  <2>6. QED
    BY <2>1, <2>2, <2>3, <2>4, <2>5 DEF CollectorNext
<1>4. Frame /\ QueueTypeOK /\ HealTypeOK /\ ClientTypeOK /\ SlotTypeOK /\ ProfileTypeOK => TypeOK
  BY DEF TypeOK
<1>5. QED
  BY <1>1, <1>2, <1>3, <1>4, ServicesTheorem, QueueTypesTheorem, HealTypesTheorem,
     ClientTypesTheorem, SlotTypesTheorem, PTL DEF Spec

\* Rules that are not applied promise nothing.
LEMMA IdleRules ==
  part = [rule |-> "none"] /\ outcome = <<>> => ScenariosSplit /\ ScopeSettled /\ OptionsMarked
BY DEF ScenariosSplit, ScopeSettled, OptionsMarked, Ruled

\* Whichever of the services is followed, and whatever the others were left in: the review
\* queue, the operations pages, the client of data.go, the election slots, the region and
\* candidate pages, the rules of a record and the collector keep what each of them promises
\* on its own (the modules of app/services and src/pipeline share nothing but the database).
THEOREM ServicesSafety ==
  Spec => []( /\ DuplicatesBounded /\ PagingSkipsNothing /\ OpsPageCoherent
              /\ NeverAheadOfRate
              /\ PageNeverHidesPoll /\ SlotsFollowSync
              /\ ProfilePageTruthful /\ GapsReported
              /\ ScenariosSplit /\ ScopeSettled /\ OptionsMarked
              /\ ArticlesAccountedFor /\ SurveysKeptApart /\ DatesJustified )
<1>1. Spec => []DuplicatesBounded /\ []PagingSkipsNothing /\ []OpsPageCoherent
  BY ServicesTheorem, DuplicatesTheorem, PagingTheorem, OpsPagesTheorem, PTL
<1>2. Spec => /\ []NeverAheadOfRate /\ []PageNeverHidesPoll /\ []SlotsFollowSync
              /\ []ProfilePageTruthful /\ []GapsReported
  BY ServicesTheorem, RateTheorem, RegionPageTheorem, SlotSyncTheorem, CandidatePageTheorem,
     GapsReportedTheorem, PTL
<1>3. Spec => []ScenariosSplit /\ []ScopeSettled /\ []OptionsMarked
  BY ServicesTheorem, ScenariosTheorem, ScopeTheorem, OptionTheorem, IdleRules, PTL
<1>4. Spec => []ArticlesAccountedFor /\ []SurveysKeptApart /\ []DatesJustified
  BY ServicesTheorem, AccountedTheorem, KeptApartTheorem, DatesTheorem, IdleAccounted, PTL
<1>5. QED
  BY <1>1, <1>2, <1>3, <1>4, PTL
=============================================================================
