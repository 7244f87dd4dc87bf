------------------------------ MODULE FileStore ------------------------------
(***************************************************************************)
(* Temporary files of one device: the Durable Object that keeps their       *)
(* records and quotas (worker/src/files-do.ts), the Worker handlers that     *)
(* upload and delete them (worker/src/files-routes.ts), and what those       *)
(* touch: the R2 bucket, the account's R2 budget and the index of file ids   *)
(* in the registry (worker/src/registry-do.ts).                             *)
(*                                                                         *)
(* An upload is known by the record it reserves.  The object yields only    *)
(* while it waits for the bucket or for the registry: its storage closes    *)
(* the input gate, so a change of the map and the persist that follows it   *)
(* are one step.  Whatever removes records is a job: it takes a record out  *)
(* of the map, deletes its object, hands its bytes back and goes on.         *)
(* A month's operation counts are left out of the budget.                   *)
(***************************************************************************)
EXTENDS Naturals, FiniteSetsExt

CONSTANTS
  Files,        \* uploads, and the records they reserve
  Visits,       \* concurrent visits of the object: list, get, alarm, DELETE
  Sizes,        \* sizes of bodies
  Limits,       \* what FILES_MAX_PER_DEVICE may be configured to
  MaxTotal,     \* maxTotalBytes
  Budget,       \* bytes the account's R2 budget pays for
  Faults,       \* what may go wrong: "cancel", "evict", "hiccup"
  None          \* no file

Jobs == Files \cup Visits

ASSUME FilesAssumption ==
  /\ IsFiniteSet(Files)
  /\ Files \cap Visits = {}
  /\ None \notin Files
  /\ Sizes \subseteq Nat \ {0}
  /\ Limits \subseteq Nat
  /\ MaxTotal \in Nat
  /\ Budget \in Nat

VARIABLES
  maxPerDevice, \* FileLimits.maxPerDevice, read from the environment
  files,    \* FilesDO.files: the records in memory
  saved,    \* the records in storage
  ready,    \* the records with status "ready"
  size,     \* FileRecord.size
  expired,  \* records past their expiresAt
  old,      \* records created more than PENDING_TTL_MS ago
  alarm,    \* a storage alarm is set
  job,      \* removals under way in the object
  object,   \* objects in the bucket
  indexed,  \* ids in the registry's file index
  budget,   \* R2BudgetState.bytes
  pc,       \* how far the handler of an upload has come
  admitted, \* what the upload reserved of the budget: 0 when chunked
  written   \* the size R2 reported

recordVars == <<files, saved, ready, size>>
clockVars  == <<expired, old>>
uploadVars == <<pc, admitted, written>>
state == <<recordVars, clockVars, alarm, job, object, indexed, budget, uploadVars>>
vars == <<maxPerDevice, state>>

Idle == [step |-> "idle", gone |-> {}, late |-> {}, cur |-> None,
         dirty |-> FALSE, unindex |-> None]

(***************************************************************************)
(* The places where an upload waits; "stored" was answered 201, "failed"    *)
(* was answered an error, "dead" was cancelled or cut off.                  *)
(***************************************************************************)
Places == {"new", "reserve", "reserving", "index", "put", "settle", "undo",
           "abort", "aborting", "unindex", "giveback", "complete",
           "completing", "stored", "failed", "dead"}
Over(f) == pc[f] \in {"stored", "failed", "dead"}

TypeOK ==
  /\ maxPerDevice \in Limits
  /\ files \subseteq Files
  /\ saved \subseteq Files
  /\ ready \subseteq Files
  /\ size \in [Files -> Nat]
  /\ expired \subseteq Files
  /\ old \subseteq Files
  /\ alarm \in BOOLEAN
  /\ job \in [Jobs -> [step : {"idle", "scan", "bucket", "release", "unindex"},
                       gone : SUBSET Files, late : SUBSET Files,
                       cur : Files \cup {None}, dirty : BOOLEAN,
                       unindex : Files \cup {None}]]
  /\ object \subseteq Files
  /\ indexed \subseteq Files
  /\ budget \in 0 .. Budget
  /\ pc \in [Files -> Places]
  /\ admitted \in [Files -> Nat]
  /\ written \in [Files -> Nat]

Init ==
  /\ maxPerDevice \in Limits
  /\ files = {}
  /\ saved = {}
  /\ ready = {}
  /\ size = [f \in Files |-> 0]
  /\ expired = {}
  /\ old = {}
  /\ alarm = FALSE
  /\ job = [j \in Jobs |-> Idle]
  /\ object = {}
  /\ indexed = {}
  /\ budget = 0
  /\ pc = [f \in Files |-> "new"]
  /\ admitted = [f \in Files |-> 0]
  /\ written = [f \in Files |-> 0]

\* The bytes of a set of records.
Bytes(S) == MapThenSumSet(LAMBDA f : size[f], S)

Less(n, m) == IF m > n THEN 0 ELSE n - m

Goto(f, place) == pc' = [pc EXCEPT ![f] = place]

-----------------------------------------------------------------------------
(* Jobs of the object. *)

\* reap looks at the records that are past a deadline when it starts.
Gone == files \cap expired

\* Mutant: reservations are never abandoned.
LateNone == {}

\* Mutant: an old record is dropped whatever its status.
LateReady == (files \cap old) \ expired

\* An abandoned reservation: pending for longer than PENDING_TTL_MS.
Late == (files \cap old) \ (expired \cup ready)

\* The records a reap has still to drop: a late one only while it is pending.
Todo(j) == job[j].gone \cup (job[j].late \ ready)

Scanned(j) == job[j].step = "scan" /\ Todo(j) = {}

\* deleteObject of one record that is out of the map already.
Deleting(f) == [Idle EXCEPT !.step = "bucket", !.cur = f]

\* The loop of reap, up to its next await: a record is dropped from the map, in
\* memory alone.  With none left the job waits for what its caller does next.
Drops(j, gone, late) ==
  IF gone \cup late = {}
  THEN /\ job' = [job EXCEPT ![j] = [Idle EXCEPT !.step = "scan"]]
       /\ UNCHANGED files
  ELSE \E f \in gone \cup late :
         /\ files' = files \ {f}
         /\ job' = [job EXCEPT ![j] =
                      [Deleting(f) EXCEPT !.gone = gone \ {f},
                                          !.late = late \ {f}, !.dirty = TRUE]]

\* The loop goes on, a call of deleteObject being over.
Drop(j) ==
  /\ job[j].step = "scan"
  /\ Todo(j) # {}
  /\ Drops(j, job[j].gone, job[j].late \ ready)
  /\ UNCHANGED <<saved, ready, size, clockVars, alarm, object, indexed, budget,
                 uploadVars>>

\* deleteObject up to the budget: only a ready record hands its bytes back.
DeleteObject(j) ==
  /\ job[j].step = "bucket"
  /\ \/ object' = object \ {job[j].cur}
     \/ "hiccup" \in Faults /\ UNCHANGED object
  /\ job' = [job EXCEPT ![j].step =
               IF job[j].cur \in ready /\ size[job[j].cur] > 0
               THEN "release" ELSE "scan"]
  /\ UNCHANGED <<recordVars, clockVars, alarm, indexed, budget, uploadVars>>

\* The registry takes n bytes back, or the call fails.
GivesBack(n) ==
  \/ budget' = Less(budget, n)
  \/ "hiccup" \in Faults /\ UNCHANGED budget

\* releaseBudget.
ReleaseBudget(j) ==
  /\ job[j].step = "release"
  /\ GivesBack(size[job[j].cur])
  /\ job' = [job EXCEPT ![j].step = "scan"]
  /\ UNCHANGED <<recordVars, clockVars, alarm, object, indexed, uploadVars>>

-----------------------------------------------------------------------------
(* Visits: GET /list and /get, the alarm, and DELETE /api/files/<id>. *)

\* list, get, and every other request that reaps first.
Visit(v) ==
  /\ job[v] = Idle
  /\ Drops(v, Gone, Late)
  /\ UNCHANGED <<saved, ready, size, clockVars, alarm, object, indexed, budget,
                 uploadVars>>

Alarm(v) ==
  /\ alarm
  /\ alarm' = FALSE
  /\ job[v] = Idle
  /\ Drops(v, Gone, Late)
  /\ UNCHANGED <<saved, ready, size, clockVars, object, indexed, budget,
                 uploadVars>>

\* Mutant: a reap sets no further alarm.
EndReapUnarmed(v) ==
  /\ Scanned(v)
  /\ job[v].unindex = None
  /\ saved' = IF job[v].dirty THEN files ELSE saved
  /\ job' = [job EXCEPT ![v] = Idle]
  /\ UNCHANGED <<files, ready, size, clockVars, alarm, object, indexed, budget,
                 uploadVars>>

\* The rest of reap: persist if something was removed, set the next alarm.
EndReap(v) ==
  /\ Scanned(v)
  /\ job[v].unindex = None
  /\ saved' = IF job[v].dirty THEN files ELSE saved
  /\ alarm' = (files # {})
  /\ job' = [job EXCEPT ![v] = Idle]
  /\ UNCHANGED <<files, ready, size, clockVars, object, indexed, budget,
                 uploadVars>>

\* abort (and remove): one that finds no record changes nothing.
Remove(f) ==
  /\ files' = files \ {f}
  /\ saved' = files'
  /\ UNCHANGED <<ready, size>>

\* DELETE by the owner.
Delete(v, f) ==
  /\ job[v] = Idle
  /\ f \in files
  /\ Remove(f)
  /\ job' = [job EXCEPT ![v] = [Deleting(f) EXCEPT !.unindex = f]]
  /\ UNCHANGED <<clockVars, alarm, object, indexed, budget, uploadVars>>

\* unindexFile, when the object reported that it removed the record.
Unindex(v) ==
  /\ Scanned(v)
  /\ job[v].unindex # None
  /\ \/ indexed' = indexed \ {job[v].unindex}
     \/ "hiccup" \in Faults /\ UNCHANGED indexed
  /\ job' = [job EXCEPT ![v] = Idle]
  /\ UNCHANGED <<recordVars, clockVars, alarm, object, budget, uploadVars>>

-----------------------------------------------------------------------------
(* An upload. *)

\* Mutant: the budget is compared before the bytes are added.
AffordableBefore(n) == budget <= Budget

\* Does the account's budget have room for n more bytes?
Affordable(n) == budget + n <= Budget

\* budgetAdmit of the declared size, 0 for a chunked body.  A registry that
\* cannot be reached lets the upload through.
Admit(f) ==
  /\ pc[f] = "new"
  /\ \E n \in Sizes \cup {0} :
       /\ admitted' = [admitted EXCEPT ![f] = n]
       /\ \/ Affordable(n) /\ budget' = budget + n /\ Goto(f, "reserve")
          \/ ~Affordable(n) /\ UNCHANGED budget /\ Goto(f, "failed")
          \/ "hiccup" \in Faults /\ UNCHANGED budget /\ Goto(f, "reserve")
  /\ UNCHANGED <<recordVars, clockVars, alarm, job, object, indexed, written>>

\* reserve up to the first await of its reap.
Reserve(f) ==
  /\ pc[f] = "reserve"
  /\ Drops(f, Gone, Late)
  /\ Goto(f, "reserving")
  /\ UNCHANGED <<saved, ready, size, clockVars, alarm, object, indexed, budget,
                 admitted, written>>

\* Mutant: only the bytes are limited.
FitsBytes(n) ==
  Bytes(files) + n <= MaxTotal

\* The quotas for one more record of n bytes.  Every record that had expired
\* when the request arrived has been dropped, so the rest count as active.
Fits(n) ==
  /\ Cardinality(files) < maxPerDevice
  /\ Bytes(files) + n <= MaxTotal

\* The rest of reserve: the quotas are checked after the reap.
Reserved(f) ==
  /\ pc[f] = "reserving"
  /\ Scanned(f)
  /\ IF Fits(admitted[f])
     THEN /\ files' = files \cup {f}
          /\ saved' = files'
          /\ size' = [size EXCEPT ![f] = admitted[f]]
          /\ Goto(f, "index")
     ELSE /\ saved' = IF job[f].dirty THEN files ELSE saved
          /\ Goto(f, "giveback")
          /\ UNCHANGED <<files, size>>
  /\ alarm' = (files' # {})
  /\ job' = [job EXCEPT ![f] = Idle]
  /\ UNCHANGED <<ready, clockVars, object, indexed, budget, admitted, written>>

\* indexFile.
IndexFile(f) ==
  /\ pc[f] = "index"
  /\ \/ indexed' = indexed \cup {f}
     \/ "hiccup" \in Faults /\ UNCHANGED indexed
  /\ Goto(f, "put")
  /\ UNCHANGED <<recordVars, clockVars, alarm, job, object, budget, admitted,
                 written>>

\* putKnownLength and putChunked: the whole body is stored, or nothing is and
\* the reservation is taken back.
Put(f) ==
  /\ pc[f] = "put"
  /\ \/ /\ object' = object \cup {f}
        /\ \E n \in Sizes : written' = [written EXCEPT ![f] = n]
        /\ Goto(f, "settle")
     \/ Goto(f, "abort") /\ UNCHANGED <<object, written>>
  /\ UNCHANGED <<recordVars, clockVars, alarm, job, indexed, budget, admitted>>

\* The budget is settled with the size that was stored.
Settle(f) ==
  /\ pc[f] = "settle"
  /\ \/ written[f] = admitted[f] /\ UNCHANGED budget /\ Goto(f, "complete")
     \/ /\ written[f] < admitted[f]
        /\ GivesBack(admitted[f] - written[f])
        /\ Goto(f, "complete")
     \/ /\ written[f] > admitted[f]
        /\ LET more == written[f] - admitted[f]
           IN  \/ Affordable(more) /\ budget' = budget + more /\ Goto(f, "complete")
               \/ ~Affordable(more) /\ UNCHANGED budget /\ Goto(f, "undo")
               \/ "hiccup" \in Faults /\ UNCHANGED budget /\ Goto(f, "complete")
  /\ UNCHANGED <<recordVars, clockVars, alarm, job, object, indexed, admitted,
                 written>>

\* The budget refused the difference: the object is deleted first.
Undo(f) ==
  /\ pc[f] = "undo"
  /\ \/ object' = object \ {f}
     \/ "hiccup" \in Faults /\ UNCHANGED object
  /\ Goto(f, "abort")
  /\ UNCHANGED <<recordVars, clockVars, alarm, job, indexed, budget, admitted,
                 written>>

\* /abort: after a failed put, or when the budget refused the difference.
Abort(f) ==
  /\ pc[f] = "abort"
  /\ IF f \in files
     THEN Remove(f) /\ job' = [job EXCEPT ![f] = Deleting(f)]
     ELSE UNCHANGED recordVars /\ job' = [job EXCEPT ![f] = [Idle EXCEPT !.step = "scan"]]
  /\ Goto(f, "aborting")
  /\ UNCHANGED <<clockVars, alarm, object, indexed, budget, admitted, written>>

\* /abort answered.  Only the upload the budget refused is also unindexed.
Aborted(f) ==
  /\ pc[f] = "aborting"
  /\ Scanned(f)
  /\ job' = [job EXCEPT ![f] = Idle]
  /\ Goto(f, IF written[f] > 0 THEN "unindex" ELSE "giveback")
  /\ UNCHANGED <<recordVars, clockVars, alarm, object, indexed, budget,
                 admitted, written>>

UnindexFile(f) ==
  /\ pc[f] = "unindex"
  /\ \/ indexed' = indexed \ {f}
     \/ "hiccup" \in Faults /\ UNCHANGED indexed
  /\ Goto(f, "giveback")
  /\ UNCHANGED <<recordVars, clockVars, alarm, job, object, budget, admitted,
                 written>>

\* budgetRelease of the declared size.
BudgetRelease(f) ==
  /\ pc[f] = "giveback"
  /\ GivesBack(admitted[f])
  /\ Goto(f, "failed")
  /\ UNCHANGED <<recordVars, clockVars, alarm, job, object, indexed, admitted,
                 written>>

\* Mutant: the total of the reservation is not checked again.
CompleteUnmeasured(f) ==
  /\ pc[f] = "complete"
  /\ IF f \notin files
     THEN Goto(f, "failed") /\ UNCHANGED recordVars
     ELSE /\ size' = [size EXCEPT ![f] = written[f]]
          /\ ready' = ready \cup {f}
          /\ saved' = files
          /\ Goto(f, "stored")
          /\ UNCHANGED files
  /\ UNCHANGED <<job, clockVars, alarm, object, indexed, budget, admitted, written>>

\* Mutant: a record that is gone is entered again.
CompleteAgain(f) ==
  /\ pc[f] = "complete"
  /\ files' = files \cup {f}
  /\ saved' = files'
  /\ size' = [size EXCEPT ![f] = written[f]]
  /\ ready' = ready \cup {f}
  /\ Goto(f, "stored")
  /\ UNCHANGED <<job, clockVars, alarm, object, indexed, budget, admitted, written>>

\* complete: the total is checked again with the measured size.
Complete(f) ==
  /\ pc[f] = "complete"
  /\ \/ /\ f \notin files
        /\ Goto(f, "failed")
        /\ UNCHANGED <<recordVars, job>>
     \/ /\ f \in files
        /\ Bytes(files \ {f}) + written[f] > MaxTotal
        /\ Remove(f)
        /\ job' = [job EXCEPT ![f] = Deleting(f)]
        /\ Goto(f, "completing")
     \/ /\ f \in files
        /\ Bytes(files \ {f}) + written[f] <= MaxTotal
        /\ size' = [size EXCEPT ![f] = written[f]]
        /\ ready' = ready \cup {f}
        /\ saved' = files
        /\ Goto(f, "stored")
        /\ UNCHANGED <<files, job>>
  /\ UNCHANGED <<clockVars, alarm, object, indexed, budget, admitted, written>>

\* complete answered 413.  Nothing more is undone.
CompleteRefused(f) ==
  /\ pc[f] = "completing"
  /\ Scanned(f)
  /\ job' = [job EXCEPT ![f] = Idle]
  /\ Goto(f, "failed")
  /\ UNCHANGED <<recordVars, clockVars, alarm, object, indexed, budget,
                 admitted, written>>

-----------------------------------------------------------------------------
(* Time and faults. *)

Expire(f) ==
  /\ f \in files
  /\ expired' = expired \cup {f}
  /\ UNCHANGED <<recordVars, old, alarm, job, object, indexed, budget, uploadVars>>

GrowOld(f) ==
  /\ f \in files
  /\ old' = old \cup {f}
  /\ UNCHANGED <<recordVars, expired, alarm, job, object, indexed, budget,
                 uploadVars>>

\* The client goes away and the runtime cancels the handler; what it asked of
\* the object goes on to its end.
Cancel(f) ==
  /\ "cancel" \in Faults
  /\ ~Over(f)
  /\ job[f] = Idle
  /\ Goto(f, "dead")
  /\ UNCHANGED <<recordVars, clockVars, alarm, job, object, indexed, budget,
                 admitted, written>>

\* The object is evicted and its constructor runs: the records are read from
\* storage and reaped before anything else (a call of it may fail as well).
\* Handlers that wait for it die.
Evict ==
  /\ "evict" \in Faults
  /\ LET dead == saved \cap (expired \cup (old \ ready))
         lost == IF "hiccup" \in Faults THEN SUBSET dead ELSE {{}}
     IN  /\ files' = saved \ dead
         /\ \E kept \in lost : object' = object \ (dead \ kept)
         /\ \E unpaid \in lost : budget' = Less(budget, Bytes((dead \ unpaid) \cap ready))
  /\ saved' = files'
  /\ alarm' = (files' # {})
  /\ pc' = [f \in Files |-> IF job[f] = Idle THEN pc[f] ELSE "dead"]
  /\ job' = [j \in Jobs |-> Idle]
  /\ UNCHANGED <<ready, size, clockVars, indexed, admitted, written>>

-----------------------------------------------------------------------------
JobStep == \E j \in Jobs : Drop(j) \/ DeleteObject(j) \/ ReleaseBudget(j)

VisitStep ==
  \E v \in Visits : \/ Visit(v)
                    \/ Alarm(v)
                    \/ EndReap(v)
                    \/ Unindex(v)
                    \/ \E f \in Files : Delete(v, f)

Upload(f) ==
  \/ Admit(f)
  \/ Reserve(f)
  \/ Reserved(f)
  \/ IndexFile(f)
  \/ Put(f)
  \/ Settle(f)
  \/ Undo(f)
  \/ Abort(f)
  \/ Aborted(f)
  \/ UnindexFile(f)
  \/ BudgetRelease(f)
  \/ Complete(f)
  \/ CompleteRefused(f)

Next ==
  /\ \/ JobStep
     \/ VisitStep
     \/ \E f \in Files : Upload(f) \/ Expire(f) \/ GrowOld(f) \/ Cancel(f)
     \/ Evict
  /\ UNCHANGED maxPerDevice

Spec == Init /\ [][Next]_vars

(***************************************************************************)
(* The runtime ends what it started: handlers that are not cancelled go on, *)
(* the alarm is delivered (at least once), time passes.  Nothing is assumed *)
(* of clients, and faults may strike again and again.                       *)
(***************************************************************************)
Fairness ==
  /\ \A j \in Jobs : WF_state(Drop(j) \/ DeleteObject(j) \/ ReleaseBudget(j))
  /\ \A v \in Visits : WF_state(EndReap(v) \/ Unindex(v))
  /\ WF_state(\E v \in Visits : Alarm(v))
  /\ \A f \in Files : WF_state(pc[f] # "new" /\ Upload(f)) /\ WF_state(GrowOld(f))

FairSpec == Spec /\ Fairness

-----------------------------------------------------------------------------
(* Properties. *)

\* Two concurrent uploads never both see "4 of 5 files": whatever jobs and
\* uploads interleave, no more than maxPerDevice unexpired records exist.
QuotaCount == Cardinality(files \ expired) <= maxPerDevice

\* The records never hold more than maxTotalBytes, although an upload of
\* unknown length reserves nothing and a body may be longer than declared.
QuotaBytes == Bytes(files) <= MaxTotal

\* An upload that was answered an error holds no slot.
SlotReturned == \A f \in Files : pc[f] = "failed" => f \notin files

\* A record that is served has its object: whatever is deleting objects has
\* taken the record out of the map first, and an eviction brings none back.
ReadyIsStored == files \cap ready \subseteq object

\* A record that is served is found by its id, unless a call to the registry
\* failed: nothing removes the id of a record that is still there.
ReadyIsIndexed == "hiccup" \notin Faults => files \cap ready \subseteq indexed

\* Record, object, id and handler agree, whichever of an upload's calls refuses
\* and whatever reaps meanwhile: the three above.
FilesAgree == SlotReturned /\ ReadyIsStored /\ ReadyIsIndexed

\* An upload that was answered 201 can be downloaded until it expires or its
\* owner deletes it: only an expired record of it may go.
AcknowledgedKept ==
  [][\A f \in Files :
       pc[f] = "stored" /\ f \in files /\ f \notin files'
         => f \in expired \/ \E v \in Visits : job'[v].unindex = f]_vars

\* An idle device purges too: while there are records the alarm is set, or a
\* reap is under way that will set it.
AlarmArmed ==
  files # {} => \/ alarm
                \/ \E v \in Visits : job[v].step # "idle" /\ job[v].unindex = None
                \/ \E f \in Files : pc[f] = "reserving"

\* Expired files do not stay.
ExpiredGone == \A f \in Files : f \in files \cap expired ~> f \notin files

\* A reservation never keeps its slot for good.
ReservationEnds ==
  \A f \in Files : f \in files \ ready ~> f \in ready \/ f \notin files

\* Nothing stays for good: neither expired files nor reservations.
NothingStays == ExpiredGone /\ ReservationEnds

\* "bytes: live bytes admitted and not yet released": the budget accounts for
\* every stored file.  Overlapping removals release one file twice.
BudgetCovers == Bytes(files \cap ready) <= budget
=============================================================================
