----------------------------- MODULE RateLimiter -----------------------------
(***************************************************************************)
(* The per-isolate request limiter (worker/src/rate-limit.ts): one counter  *)
(* per client key, restarted by the first request after its window, and a   *)
(* sweep that forgets counters whose window is over.                        *)
(***************************************************************************)
EXTENDS Naturals, FiniteSetsExt

CONSTANTS
  Keys,     \* client IPs
  Window,   \* windowMs, in ticks
  Limit,    \* requests a window allows
  MaxTime,  \* bound of the clock
  NoBucket  \* no bucket

ASSUME LimiterAssumption ==
  /\ Window \in Nat \ {0}
  /\ Limit \in Nat \ {0}
  /\ MaxTime \in Nat
  /\ NoBucket \notin [count : Nat, resetAt : Nat]

VARIABLES
  now,      \* Date.now()
  buckets,  \* the map: NoBucket or the key's counter
  unswept,  \* history: the same map had the sweep never run
  admitted  \* history: how many requests of a key were allowed at each time

lvars == <<now, buckets, unswept, admitted>>

Bucket == [count : 1 .. Limit, resetAt : Nat]

LimiterTypeOK ==
  /\ now \in 0 .. MaxTime
  /\ buckets \in [Keys -> Bucket \cup {NoBucket}]
  /\ unswept \in [Keys -> Bucket \cup {NoBucket}]
  /\ admitted \in [Keys -> [0 .. MaxTime -> Nat]]

LimiterInit ==
  /\ now = 0
  /\ buckets = [k \in Keys |-> NoBucket]
  /\ unswept = [k \in Keys |-> NoBucket]
  /\ admitted = [k \in Keys |-> [t \in 0 .. MaxTime |-> 0]]

\* A bucket counts until the instant of its reset has passed.
Current(b) == b # NoBucket /\ now <= b.resetAt

\* Does a counter leave room for a request?
Admits(b) == Current(b) => b.count < Limit

\* Mutant: the request that restarts a counter is not counted.
CountedFromZero(b) ==
  IF Current(b) THEN [count |-> b.count + 1, resetAt |-> b.resetAt]
  ELSE [count |-> 0, resetAt |-> now + Window]

\* The counter after an admitted request.
Counted(b) ==
  IF Current(b) THEN [count |-> b.count + 1, resetAt |-> b.resetAt]
  ELSE [count |-> 1, resetAt |-> now + Window]

\* allow(k), answered with true; a refused request changes nothing.
Allow(k) ==
  /\ Admits(buckets[k])
  /\ buckets' = [buckets EXCEPT ![k] = Counted(@)]
  /\ unswept' = [unswept EXCEPT ![k] = Counted(@)]
  /\ admitted' = [admitted EXCEPT ![k][now] = @ + 1]
  /\ UNCHANGED now

\* Mutant: the sweep forgets every counter.
SweepAll ==
  /\ buckets' = [k \in Keys |-> NoBucket]
  /\ UNCHANGED <<now, unswept, admitted>>

\* The periodic sweep.
Sweep ==
  /\ buckets' = [k \in Keys |-> IF Current(buckets[k]) THEN buckets[k] ELSE NoBucket]
  /\ UNCHANGED <<now, unswept, admitted>>

ClockTicks ==
  /\ now < MaxTime
  /\ now' = now + 1
  /\ UNCHANGED <<buckets, unswept, admitted>>

LimiterNext == Sweep \/ ClockTicks \/ \E k \in Keys : Allow(k)

LimiterSpec == LimiterInit /\ [][LimiterNext]_lvars

-----------------------------------------------------------------------------
(* Properties. *)

\* The requests of k admitted in the Window ticks that begin at t.
InSpan(k, t) ==
  MapThenSumSet(LAMBDA u : admitted[k][u], t .. (t + Window - 1))

\* The times at which a span that the clock has room for begins.
Starts == {t \in 0 .. MaxTime : t + Window - 1 <= MaxTime}

\* The sweep is invisible: whenever it runs, it never changes what the next
\* request of any client is answered.
SweepHarmless ==
  \A k \in Keys : Admits(buckets[k]) <=> Admits(unswept[k])

\* However requests, sweeps and time interleave, no client gets more than
\* twice the limit through in any span as long as a window.
AtMostTwice ==
  \A k \in Keys : \A t \in Starts : InSpan(k, t) <= 2 * Limit
=============================================================================
