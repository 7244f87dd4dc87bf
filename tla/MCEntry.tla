------------------------------- MODULE MCEntry -------------------------------
(* What the entry does beside relaying: its gates, for a tunnel device d1    *)
(* and a virtual one v, its rate limiter, the downloads by id, and the       *)
(* account's budget that it asks.  They share no state, so a behaviour is    *)
(* about one of them.  The registry is new, and seeded with d1, or holds the *)
(* virtual device alone.                                                     *)
EXTENDS DeviceAccess, RateLimiter, FileDownloads, R2Budget, TLC

CONSTANTS d1, v, t1, t2

VARIABLE about

SeedOne == [Empty EXCEPT ![d1] = t1]
NewOrVirtual == {Empty, [Empty EXCEPT ![v] = t2]}

EntryInit ==
  /\ Init /\ LimiterInit /\ DownloadsInit /\ BudgetInit
  /\ about \in {"gates", "limiter", "downloads", "budget"}
  /\ about # "gates" => tokens = SeedOne

EntryNext ==
  /\ UNCHANGED about
  /\ \/ about = "gates" /\ Next /\ UNCHANGED <<lvars, dvars, bvars>>
     \/ about = "limiter" /\ LimiterNext /\ UNCHANGED <<vars, dvars, bvars>>
     \/ about = "downloads" /\ DownloadsNext /\ UNCHANGED <<vars, lvars, bvars>>
     \/ about = "budget" /\ BudgetNext /\ UNCHANGED <<vars, lvars, dvars>>

EntrySpec == EntryInit /\ [][EntryNext]_<<vars, lvars, dvars, bvars, about>>

\* Every part has its types, and the cache of owners stays within its bound.
EntryTypeOK ==
  /\ about = "gates" => TypeOK
  /\ about = "limiter" => LimiterTypeOK
  /\ about = "downloads" => DownloadsTypeOK /\ OwnersBounded
  /\ about = "budget" => BudgetTypeOK

\* However requests, sweeps and time interleave, no client gets more than twice
\* the limit through the limiter in any span as long as a window.
SpansLimited == about = "limiter" => AtMostTwice

Symmetry == Permutations(Requests)
=============================================================================
