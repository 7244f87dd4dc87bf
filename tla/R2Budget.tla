------------------------------- MODULE R2Budget -------------------------------
(***************************************************************************)
(* The account's monthly R2 budget in the registry object                   *)
(* (worker/src/registry-do.ts), priced as worker/src/config.ts does.        *)
(*                                                                          *)
(* Bytes stand from month to month, operations are counted by the month of  *)
(* the call that counts them.  An admission is refused when it would cost   *)
(* more than the budget; deletions and downloads are counted, never refused.*)
(* Prices are whole numbers per unit here; the code's are decimal fractions *)
(* of a dollar.                                                             *)
(***************************************************************************)
EXTENDS Naturals

CONSTANTS
  BudgetUsd,      \* R2_BUDGET_USD_MONTH
  StorageUsd,     \* the price of a byte that is kept for the month
  ClassAUsd,      \* the price of a Class A operation
  ClassBUsd,      \* the price of a Class B operation
  FreeBytes,      \* the free allowances of a month
  FreeClassA,
  FreeClassB,
  MaxBytes,       \* bound: bytes that one call names
  MaxOps,         \* bound: operations of a month
  Months          \* bound: the last month

ASSUME BudgetAssumption ==
  /\ {BudgetUsd, StorageUsd, ClassAUsd, ClassBUsd} \subseteq Nat
  /\ {FreeBytes, FreeClassA, FreeClassB} \subseteq Nat
  /\ {MaxBytes, MaxOps, Months} \subseteq Nat

VARIABLES
  month,     \* the clock: monthKey()
  spent,     \* RegistryDO.budget
  onDisk,    \* its storage: r2_budget
  standing,  \* history: bytes admitted and not released
  uploads    \* history: operations admitted in this month

bvars == <<month, spent, onDisk, standing, uploads>>

Usage == [month : Nat, bytes : Nat, classA : Nat, classB : Nat]

BudgetTypeOK ==
  /\ month \in Nat
  /\ spent \in Usage
  /\ onDisk \in Usage
  /\ standing \in Nat
  /\ uploads \in Nat

Over(n, free) == IF n > free THEN n - free ELSE 0

\* r2Cost: what a month at this usage costs.
R2Cost(bytes, classA, classB) ==
  Over(bytes, FreeBytes) * StorageUsd + Over(classA, FreeClassA) * ClassAUsd
    + Over(classB, FreeClassB) * ClassBUsd

BudgetInit ==
  /\ month = 0
  /\ spent = [month |-> 0, bytes |-> 0, classA |-> 0, classB |-> 0]
  /\ onDisk = spent
  /\ standing = 0
  /\ uploads = 0

\* Mutant: a new month forgets the bytes as well.
RolledBytes ==
  IF spent.month = month THEN spent
  ELSE [month |-> month, bytes |-> 0, classA |-> 0, classB |-> 0]

\* rollBudgetMonth: a new month forgets the operations, not the bytes.
Rolled ==
  IF spent.month = month THEN spent
  ELSE [month |-> month, bytes |-> spent.bytes, classA |-> 0, classB |-> 0]

\* A usage with other bytes and more Class A operations.
Charged(usage, bytes, ops) ==
  [month |-> usage.month, bytes |-> bytes,
   classA |-> usage.classA + ops, classB |-> usage.classB]

Persisted(usage) == spent' = usage /\ onDisk' = usage

\* GET /budget: the month is rolled in memory only.
BudgetStatus ==
  /\ spent' = Rolled
  /\ UNCHANGED <<month, onDisk, standing, uploads>>

Affordable(bytes, ops) ==
  R2Cost(Rolled.bytes + bytes, Rolled.classA + ops, Rolled.classB) <= BudgetUsd

\* POST /budget/admit.
Admit(bytes, ops) ==
  \/ /\ ~Affordable(bytes, ops)
     /\ spent' = Rolled
     /\ UNCHANGED <<month, onDisk, standing, uploads>>
  \/ /\ Affordable(bytes, ops)
     /\ Persisted(Charged(Rolled, Rolled.bytes + bytes, ops))
     /\ standing' = standing + bytes
     /\ uploads' = uploads + ops
     /\ UNCHANGED month

\* POST /budget/release: the month is not looked at.
Release(bytes, ops) ==
  /\ bytes <= standing
  /\ Persisted(Charged(spent, Over(spent.bytes, bytes), ops))
  /\ standing' = standing - bytes
  /\ UNCHANGED <<month, uploads>>

\* POST /budget/ops: downloads, recorded when they have been answered.
RecordReads(ops) ==
  /\ Persisted([Rolled EXCEPT !.classB = @ + ops])
  /\ UNCHANGED <<month, standing, uploads>>

MonthEnds ==
  /\ month < Months
  /\ month' = month + 1
  /\ uploads' = 0
  /\ UNCHANGED <<spent, onDisk, standing>>

\* The object is evicted and reads its storage.
BudgetReread ==
  /\ spent' = onDisk
  /\ UNCHANGED <<month, onDisk, standing, uploads>>

\* The bounds of a month: operations are counted while they are few.
Within == spent.classA < MaxOps /\ spent.classB < MaxOps

BudgetNext ==
  \/ BudgetStatus
  \/ \E bytes \in 0 .. MaxBytes, ops \in {0, 1} :
       Within /\ (Admit(bytes, ops) \/ Release(bytes, ops))
  \/ Within /\ RecordReads(1)
  \/ MonthEnds
  \/ BudgetReread

BudgetSpec == BudgetInit /\ [][BudgetNext]_bvars

\* "A hard ceiling on what the gateway will let this account spend on R2"
\* (registry-do.ts:218): the bytes that stand and the uploads of the month never
\* cost more than the budget, across months, evictions and deletions.  Only
\* reads and deletions, which are counted but never refused, may exceed it.
HardCeiling == R2Cost(standing, uploads, 0) <= BudgetUsd
=============================================================================
