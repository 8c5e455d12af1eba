---------------------------- MODULE DataGoClient ----------------------------
(***************************************************************************)
(* The data.go clients (app/services/data_go_candidate.py and              *)
(* data_go_common_codes.py): threads of one process share a cache and a    *)
(* rate limiter; a fetch reads the pages of the list one after another and *)
(* starts again from the first when one fails.  The candidate client asks  *)
(* for a single page, the common code client for all of them.              *)
(***************************************************************************)
EXTENDS Integers, Sequences, FiniteSets

CONSTANTS Callers,     \* threads
          Interval,    \* 1 / requests_per_sec
          MaxRetries,  \* max_retries
          CacheTtl,    \* max(1, cache_ttl_sec), or max(60, ...)
          LastPage,    \* pages of the list
          MaxClock,    \* bound on the clock
          MaxRequests  \* bound on the requests sent

ASSUME ClientAssumption ==
  /\ Interval \in Nat \ {0} /\ MaxRetries \in Nat /\ CacheTtl \in Nat \ {0}
  /\ LastPage \in Nat \ {0} /\ MaxClock \in Nat /\ MaxRequests \in Nat
  /\ IsFiniteSet(Callers)

VARIABLES clock,
          nextAllowed,  \* _next_allowed_at
          listCache,    \* _cache: until when, and the pages that make up the list
          call,         \* fetch_items of each thread
          sent          \* history: requests that have left

clientVars == <<clock, nextAllowed, listCache, call, sent>>

NoCall == [at |-> "idle"]
Attempts == MaxRetries + 1

\* at: about to reserve a slot, sleeping until it, waiting for the answer, about to
\* store the list; pages: what this attempt has read.
CallType ==
  [at : {"reserve", "sleep", "sent", "store"}, attempt : 1 .. Attempts, slot : Nat,
   pages : Seq(1 .. LastPage)]

ClientTypeOK ==
  /\ clock \in 0 .. MaxClock /\ nextAllowed \in Nat /\ sent \in Nat
  /\ listCache \in [until : Nat, pages : Seq(1 .. LastPage)]
  /\ call \in [Callers -> CallType \cup {NoCall}]

ClientInit ==
  /\ clock = 0 /\ nextAllowed = 0 /\ sent = 0
  /\ listCache = [until |-> 0, pages |-> <<>>]
  /\ call = [t \in Callers |-> NoCall]

\* fetch_items finds nothing fresh; a hit leaves nothing behind.
CacheMiss(t) ==
  /\ call[t] = NoCall
  /\ listCache.until <= clock
  /\ call' = [call EXCEPT ![t] = [at |-> "reserve", attempt |-> 1, slot |-> 0, pages |-> <<>>]]
  /\ UNCHANGED <<clock, nextAllowed, listCache, sent>>

Later(a, b) == IF a > b THEN a ELSE b

\* A mutant: the slots reserved by sleeping threads are forgotten.
NextSlot_FromNow == clock + Interval

NextSlot == Later(clock, nextAllowed) + Interval

\* _wait_for_rate_limit, under the lock.
Reserve(t) ==
  /\ call[t] # NoCall /\ call[t].at = "reserve"
  /\ call' = [call EXCEPT ![t].at = "sleep", ![t].slot = Later(clock, nextAllowed)]
  /\ nextAllowed' = NextSlot
  /\ UNCHANGED <<clock, listCache, sent>>

\* The sleep is over, however late the thread wakes: urlopen.
Send(t) ==
  /\ call[t] # NoCall /\ call[t].at = "sleep"
  /\ clock >= call[t].slot /\ sent < MaxRequests
  /\ call' = [call EXCEPT ![t].at = "sent"]
  /\ sent' = sent + 1
  /\ UNCHANGED <<clock, nextAllowed, listCache>>

\* A page arrives; after the last the list is complete, and so it is when the answer
\* counts its total or the page is short.
Answer(t) ==
  /\ call[t] # NoCall /\ call[t].at = "sent"
  /\ call' = [call EXCEPT ![t].pages = Append(@, Len(@) + 1),
                          ![t].at = IF Len(call[t].pages) + 1 = LastPage THEN "store" ELSE "reserve"]
  /\ UNCHANGED <<clock, nextAllowed, listCache, sent>>

\* A 5xx, a timeout or a temporary failure: after a pause, from the first page again.
FailRetryably(t) ==
  /\ call[t] # NoCall /\ call[t].at = "sent" /\ call[t].attempt < Attempts
  /\ call' = [call EXCEPT ![t].at = "reserve", ![t].attempt = @ + 1, ![t].pages = <<>>]
  /\ UNCHANGED <<clock, nextAllowed, listCache, sent>>

\* Another error, or the last attempt: the caller goes on without the list.
GiveUp(t) ==
  /\ call[t] # NoCall /\ call[t].at = "sent"
  /\ call' = [call EXCEPT ![t] = NoCall]
  /\ UNCHANGED <<clock, nextAllowed, listCache, sent>>

\* The list is cached from now on, whoever else has stored one meanwhile.
Store(t) ==
  /\ call[t] # NoCall /\ call[t].at = "store"
  /\ listCache' = [until |-> clock + CacheTtl, pages |-> call[t].pages]
  /\ call' = [call EXCEPT ![t] = NoCall]
  /\ UNCHANGED <<clock, nextAllowed, sent>>

ClientTick == clock < MaxClock /\ clock' = clock + 1 /\ UNCHANGED <<nextAllowed, listCache, call, sent>>

ClientNext ==
  \/ \E t \in Callers : \/ CacheMiss(t) \/ Reserve(t) \/ Send(t) \/ Answer(t)
                        \/ FailRetryably(t) \/ GiveUp(t) \/ Store(t)
  \/ ClientTick

ClientSpec == ClientInit /\ [][ClientNext]_clientVars

-----------------------------------------------------------------------------
(* Whatever the threads, their retries and the moments they wake at, by    *)
(* any time no more requests have left than the configured rate allows     *)
(* since the service was made: the slots reserved by sleeping threads and  *)
(* those of given-up attempts are never handed out twice.                  *)
NeverAheadOfRate == sent <= clock \div Interval + 1
=============================================================================
