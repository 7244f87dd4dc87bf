--------------------------- MODULE FileStore_proofs ---------------------------
(***************************************************************************)
(* The quotas of records and bytes, the slots of failed uploads, the objects *)
(* and ids of stored files and the alarm, for every number of uploads and    *)
(* visits and under every fault.  Inv says where an upload, its record and   *)
(* the jobs that delete it may be; the theorems follow from it.              *)
(***************************************************************************)
EXTENDS FileStore, SumTheorems

JobType == [step : {"idle", "scan", "bucket", "release", "unindex"},
            gone : SUBSET Files, late : SUBSET Files,
            cur : Files \cup {None}, dirty : BOOLEAN,
            unindex : Files \cup {None}]

\* What most of the proofs need of TypeOK: all but the sizes, the budget and
\* the bounds of the counters.
Types ==
  /\ files \subseteq Files
  /\ saved \subseteq Files
  /\ ready \subseteq Files
  /\ job \in [Jobs -> JobType]
  /\ pc \in [Files -> Places]

\* Storage is behind the map only by records that the constructor would reap.
SavedCovers ==
  /\ files \subseteq saved
  /\ saved \ files \subseteq expired \cup (old \ ready)

\* A reap only drops records that are past a deadline.
JobsDue ==
  \A j \in Jobs : job[j].gone \subseteq expired /\ job[j].late \subseteq old

\* An upload that has no record yet.
Fresh(f) == pc[f] \in {"new", "reserve", "reserving"}

\* Only a record that was in the map is ever past a deadline.
Known == \A f \in expired \cup old : f \in Files /\ ~Fresh(f)

\* Where an upload may be while its record is in the map.
HeldPlaces == {"index", "put", "settle", "undo", "abort", "complete",
               "stored", "dead"}
Held == \A f \in files : pc[f] \in HeldPlaces

\* Once a record is out of the map it is never entered again.
Removed(f) == f \notin files /\ ~Fresh(f)
JobsOfRemoved ==
  \A j \in Jobs :
    /\ job[j].step \in {"bucket", "release"} =>
         job[j].cur \in Files /\ Removed(job[j].cur)
    /\ job[j].unindex # None => Removed(job[j].unindex)

\* A record becomes ready with the end of its upload.
ReadyPlaces ==
  /\ \A f \in ready : pc[f] \in {"stored", "dead"}
  /\ \A f \in Files : pc[f] = "stored" => f \in ready

\* An upload that waits for the reap of its reserve has a job.
Busy == \A f \in Files : pc[f] = "reserving" => job[f].step # "idle"

\* From the end of the put on, the object is there as long as the record is.
Stored ==
  \A f \in files : f \in ready \/ pc[f] \in {"settle", "complete"} => f \in object

\* The same of the id in the index.
Findable ==
  "hiccup" \notin Faults =>
    \A f \in files :
      f \in ready \/ pc[f] \in {"put", "settle", "complete"} => f \in indexed

Inv ==
  /\ Types
  /\ SavedCovers
  /\ JobsDue
  /\ Known
  /\ Held
  /\ JobsOfRemoved
  /\ ReadyPlaces
  /\ Busy
  /\ Stored
  /\ Findable

\* The empty object has the invariant.
LEMMA InitInv == Init => Inv
  BY FilesAssumption
  DEF Init, Inv, Types, SavedCovers, JobsDue, Known, Held, JobsOfRemoved, ReadyPlaces, Busy,
      Stored, Findable, Idle, JobType, Jobs, Places

(***************************************************************************)
(* What the loop of a reap does up to its next await, whoever runs it.      *)
(***************************************************************************)
\* The records of a deletion job have their type.
LEMMA JobRecords ==
  /\ Idle \in JobType
  /\ [Idle EXCEPT !.step = "scan"] \in JobType
  /\ \A f \in Files : Deleting(f) \in JobType
BY DEF Idle, Deleting, JobType

\* What dropping records does to the job that drops them.
LEMMA DropsJob ==
  ASSUME job \in [Jobs -> JobType], NEW j \in Jobs, NEW gone, NEW late,
         Drops(j, gone, late)
  PROVE  /\ job'[j].step \in {"scan", "bucket"}
         /\ job'[j].unindex = None
         /\ \A i \in Jobs : i # j => job'[i] = job[i]
         /\ files' \subseteq files
<1>1. CASE gone \cup late = {}
  <2>1. files' = files /\ job' = [job EXCEPT ![j] = [Idle EXCEPT !.step = "scan"]]
    BY <1>1 DEF Drops
  <2>q. QED  BY <2>1 DEF Idle
<1>2. CASE gone \cup late # {}
  <2>1. PICK f \in gone \cup late :
          /\ files' = files \ {f}
          /\ job' = [job EXCEPT ![j] =
                       [Deleting(f) EXCEPT !.gone = gone \ {f},
                                           !.late = late \ {f}, !.dirty = TRUE]]
    BY <1>2 DEF Drops
  <2>q. QED  BY <2>1 DEF Deleting, Idle
<1>q. QED  BY <1>1, <1>2

\* What it leaves true of the records and of every job.
LEMMA DropsEffect ==
  ASSUME Inv, NEW j \in Jobs, NEW gone, NEW late,
         gone \subseteq expired \cap Files,
         late \subseteq (old \ ready) \cap Files,
         Drops(j, gone, late),
         UNCHANGED <<saved, ready, clockVars>>,
         pc' \in [Files -> Places],
         \A f \in Files : Fresh(f)' => Fresh(f)
  PROVE  Types' /\ SavedCovers' /\ JobsDue' /\ JobsOfRemoved'
<1> USE DEF Inv, Types, SavedCovers, JobsDue, Known, JobsOfRemoved, Removed, clockVars
<1>1. CASE gone \cup late = {}
  <2>1. files' = files /\ job' = [job EXCEPT ![j] = [Idle EXCEPT !.step = "scan"]]
    BY <1>1 DEF Drops
  <2>2. job'[j].gone = {} /\ job'[j].late = {} /\ job'[j].step = "scan"
        /\ job'[j].unindex = None
    BY <2>1 DEF Idle
  <2>3. \A i \in Jobs : i # j => job'[i] = job[i]
    BY <2>1
  <2>4. Types'
    BY <2>1, JobRecords
  <2>5. SavedCovers'
    BY <2>1
  <2>6. JobsDue'
    BY <2>2, <2>3
  <2>7. JobsOfRemoved'
    BY <2>1, <2>2, <2>3 DEF JobType
  <2>q. QED  BY <2>4, <2>5, <2>6, <2>7
<1>2. CASE gone \cup late # {}
  <2>1. PICK f \in gone \cup late :
          /\ files' = files \ {f}
          /\ job' = [job EXCEPT ![j] =
                       [Deleting(f) EXCEPT !.gone = gone \ {f},
                                           !.late = late \ {f}, !.dirty = TRUE]]
    BY <1>2 DEF Drops
  <2>2. /\ job'[j].gone = gone \ {f} /\ job'[j].late = late \ {f}
        /\ job'[j].cur = f /\ job'[j].unindex = None
        /\ job'[j] \in JobType
    BY <2>1 DEF Deleting, Idle, JobType
  <2>3. \A i \in Jobs : i # j => job'[i] = job[i]
    BY <2>1
  <2>4. Types'
    BY <2>1, <2>2
  <2>5. SavedCovers'
    BY <2>1
  <2>6. JobsDue'
    BY <2>2, <2>3
  <2>7. f \in Files /\ Removed(f)'
    BY <2>1
  <2>8. ASSUME NEW g \in Files, Removed(g)
        PROVE  Removed(g)'
    BY <2>1, <2>8
  <2>9. JobsOfRemoved'
    BY <2>2, <2>3, <2>7, <2>8 DEF JobType
  <2>q. QED  BY <2>4, <2>5, <2>6, <2>9
<1>q. QED  BY <1>1, <1>2

\* What taking one record out of the map does, whoever asks for it.
LEMMA DeletingEffect ==
  ASSUME Inv, NEW j \in Jobs, NEW f \in files,
         files' = files \ {f},
         job' = [job EXCEPT ![j] = Deleting(f)],
         UNCHANGED clockVars,
         \A g \in Files : Fresh(g)' => Fresh(g)
  PROVE  job' \in [Jobs -> JobType] /\ JobsDue' /\ JobsOfRemoved'
<1> USE DEF Inv, Types, JobsDue, Held, JobsOfRemoved, Removed, clockVars
<1>1. /\ job'[j].gone = {} /\ job'[j].late = {} /\ job'[j].cur = f
      /\ job'[j].unindex = None
  BY DEF Deleting, Idle
<1>2. \A i \in Jobs : i # j => job'[i] = job[i]
  OBVIOUS
<1>3. job' \in [Jobs -> JobType]
  BY JobRecords
<1>4. JobsDue'
  BY <1>1, <1>2
<1>5. f \in Files /\ Removed(f)'
  BY DEF HeldPlaces, Fresh
<1>6. ASSUME NEW g \in Files, Removed(g)
      PROVE  Removed(g)'
  BY <1>6
<1>7. JobsOfRemoved'
  BY <1>1, <1>2, <1>5, <1>6 DEF JobType
<1>q. QED  BY <1>3, <1>4, <1>7

\* Every step keeps the invariant.
LEMMA StepInv == Inv /\ [Next]_vars => Inv'
<1> SUFFICES ASSUME Inv, [Next]_vars
             PROVE  Inv'
  OBVIOUS
<1> USE FilesAssumption DEF Inv, Types, SavedCovers, JobsDue, Known, Held, JobsOfRemoved,
        Fresh, ReadyPlaces, Busy, Stored, Findable, Removed, HeldPlaces, Places, JobType, Jobs,
        Remove, Deleting, Idle, Goto, Todo, Scanned, Gone, Late, Over,
        vars, state, recordVars, clockVars, uploadVars
<1>1. ASSUME NEW j \in Jobs, Drop(j)
      PROVE  Inv'
  <2>1. Drops(j, job[j].gone, job[j].late \ ready)
    BY <1>1 DEF Drop
  <2>2. Types' /\ SavedCovers' /\ JobsDue' /\ JobsOfRemoved'
    BY <1>1, <2>1, DropsEffect DEF Drop
  <2>3. files' \subseteq files
    BY <2>1 DEF Drops
  <2>4. Known' /\ Held' /\ ReadyPlaces' /\ Stored' /\ Findable'
    BY <1>1, <2>3 DEF Drop
  <2>5. /\ job'[j].step # "idle"
        /\ \A i \in Jobs : i # j => job'[i] = job[i]
    BY <2>1, DropsJob
  <2>6. Busy'
    BY <1>1, <2>5 DEF Drop
  <2>q. QED  BY <2>2, <2>4, <2>6 DEF Inv
<1>2. ASSUME NEW j \in Jobs, DeleteObject(j)
      PROVE  Inv'
  BY <1>2 DEF DeleteObject
<1>3. ASSUME NEW j \in Jobs, ReleaseBudget(j)
      PROVE  Inv'
  BY <1>3 DEF ReleaseBudget
<1>4. ASSUME NEW v \in Visits, Visit(v)
      PROVE  Inv'
  <2>1. Drops(v, Gone, Late)
    BY <1>4 DEF Visit
  <2>2. Types' /\ SavedCovers' /\ JobsDue' /\ JobsOfRemoved'
    BY <1>4, <2>1, DropsEffect DEF Visit
  <2>3. files' \subseteq files
    BY <2>1 DEF Drops
  <2>4. Known' /\ Held' /\ ReadyPlaces' /\ Stored' /\ Findable'
    BY <1>4, <2>3 DEF Visit
  <2>5. /\ job'[v].step # "idle"
        /\ \A i \in Jobs : i # v => job'[i] = job[i]
    BY <2>1, DropsJob
  <2>6. Busy'
    BY <1>4, <2>5 DEF Visit
  <2>q. QED  BY <2>2, <2>4, <2>6 DEF Inv
<1>5. ASSUME NEW v \in Visits, Alarm(v)
      PROVE  Inv'
  <2>1. Drops(v, Gone, Late)
    BY <1>5 DEF Alarm
  <2>2. Types' /\ SavedCovers' /\ JobsDue' /\ JobsOfRemoved'
    BY <1>5, <2>1, DropsEffect DEF Alarm
  <2>3. files' \subseteq files
    BY <2>1 DEF Drops
  <2>4. Known' /\ Held' /\ ReadyPlaces' /\ Stored' /\ Findable'
    BY <1>5, <2>3 DEF Alarm
  <2>5. /\ job'[v].step # "idle"
        /\ \A i \in Jobs : i # v => job'[i] = job[i]
    BY <2>1, DropsJob
  <2>6. Busy'
    BY <1>5, <2>5 DEF Alarm
  <2>q. QED  BY <2>2, <2>4, <2>6 DEF Inv
<1>6. ASSUME NEW v \in Visits, EndReap(v)
      PROVE  Inv'
  BY <1>6 DEF EndReap
<1>7. ASSUME NEW v \in Visits, Unindex(v)
      PROVE  Inv'
  BY <1>7 DEF Unindex
<1>8. ASSUME NEW v \in Visits, NEW f \in Files, Delete(v, f)
      PROVE  Inv'
  BY <1>8 DEF Delete
<1>9. ASSUME NEW f \in Files, Admit(f)
      PROVE  Inv'
  BY <1>9 DEF Admit
<1>10. ASSUME NEW f \in Files, Reserve(f)
      PROVE  Inv'
  <2>1. Drops(f, Gone, Late)
    BY <1>10 DEF Reserve
  <2>2. Types' /\ SavedCovers' /\ JobsDue' /\ JobsOfRemoved'
    BY <1>10, <2>1, DropsEffect DEF Reserve
  <2>3. files' \subseteq files
    BY <2>1 DEF Drops
  <2>4. Known' /\ Held' /\ ReadyPlaces' /\ Stored' /\ Findable'
    BY <1>10, <2>3 DEF Reserve
  <2>5. /\ job'[f].step # "idle"
        /\ \A i \in Jobs : i # f => job'[i] = job[i]
    BY <2>1, DropsJob
  <2>6. Busy'
    BY <1>10, <2>5 DEF Reserve
  <2>q. QED  BY <2>2, <2>4, <2>6 DEF Inv
<1>11. ASSUME NEW f \in Files, Reserved(f)
      PROVE  Inv'
  <2>1. Types'
    BY <1>11 DEF Reserved, Types
  <2>2. SavedCovers'
    BY <1>11 DEF Reserved, SavedCovers
  <2>3. JobsDue'
    BY <1>11 DEF Reserved, JobsDue
  <2>4. Known'
    BY <1>11 DEF Reserved, Known
  <2>5. Held'
    BY <1>11 DEF Reserved, Held
  <2>6. JobsOfRemoved'
    BY <1>11 DEF Reserved, JobsOfRemoved
  <2>7. ReadyPlaces'
    BY <1>11 DEF Reserved, ReadyPlaces
  <2>8. Stored'
    BY <1>11 DEF Reserved, Stored
  <2>9. Findable'
    BY <1>11 DEF Reserved, Findable
  <2>10. Busy'
    BY <1>11 DEF Reserved, Busy
  <2>q. QED  BY <2>1, <2>2, <2>3, <2>4, <2>5, <2>6, <2>7, <2>8, <2>9, <2>10 DEF Inv
<1>12. ASSUME NEW f \in Files, IndexFile(f)
      PROVE  Inv'
  BY <1>12 DEF IndexFile
<1>13. ASSUME NEW f \in Files, Put(f)
      PROVE  Inv'
  BY <1>13 DEF Put
<1>14. ASSUME NEW f \in Files, Settle(f)
      PROVE  Inv'
  BY <1>14 DEF Settle
<1>15. ASSUME NEW f \in Files, Undo(f)
      PROVE  Inv'
  BY <1>15 DEF Undo
<1>16. ASSUME NEW f \in Files, Abort(f)
      PROVE  Inv'
  <2>1. SavedCovers' /\ Known' /\ Held' /\ ReadyPlaces' /\ Busy' /\ Stored' /\ Findable'
    BY <1>16 DEF Abort
  <2>2. pc' \in [Files -> Places] /\ files' \subseteq files
        /\ saved' \subseteq Files /\ ready' \subseteq Files
    BY <1>16 DEF Abort
  <2>3. \A g \in Files : Fresh(g)' => Fresh(g)
    BY <1>16 DEF Abort
  <2>4. CASE f \in files /\ files' = files \ {f} /\ job' = [job EXCEPT ![f] = Deleting(f)]
    <3>1. UNCHANGED clockVars
      BY <1>16 DEF Abort
    <3>2. job' \in [Jobs -> JobType] /\ JobsDue' /\ JobsOfRemoved'
      BY <2>3, <2>4, <3>1, DeletingEffect
    <3>q. QED  BY <2>1, <2>2, <3>2 DEF Inv
  <2>5. CASE files' = files /\ job' = [job EXCEPT ![f] = [Idle EXCEPT !.step = "scan"]]
    <3>1. job'[f].gone = {} /\ job'[f].late = {} /\ job'[f].step = "scan"
          /\ job'[f].unindex = None
      BY <2>5
    <3>2. \A i \in Jobs : i # f => job'[i] = job[i]
      BY <2>5
    <3>3. job' \in [Jobs -> JobType]
      BY <2>5, JobRecords
    <3>4. JobsDue'
      BY <1>16, <3>1, <3>2 DEF Abort
    <3>5. JobsOfRemoved'
      BY <2>3, <2>5, <3>1, <3>2
    <3>q. QED  BY <2>1, <2>2, <3>3, <3>4, <3>5 DEF Inv
  <2>q. QED  BY <1>16, <2>4, <2>5 DEF Abort
<1>17. ASSUME NEW f \in Files, Aborted(f)
      PROVE  Inv'
  BY <1>17 DEF Aborted
<1>18. ASSUME NEW f \in Files, UnindexFile(f)
      PROVE  Inv'
  BY <1>18 DEF UnindexFile
<1>19. ASSUME NEW f \in Files, BudgetRelease(f)
      PROVE  Inv'
  BY <1>19 DEF BudgetRelease
<1>20. ASSUME NEW f \in Files, Complete(f)
      PROVE  Inv'
  <2>1. SavedCovers' /\ Known' /\ Held' /\ ReadyPlaces' /\ Busy' /\ Stored' /\ Findable'
    BY <1>20 DEF Complete
  <2>2. pc' \in [Files -> Places] /\ files' \subseteq files
        /\ saved' \subseteq Files /\ ready' \subseteq Files
    BY <1>20 DEF Complete
  <2>3. \A g \in Files : Fresh(g)' => Fresh(g)
    BY <1>20 DEF Complete
  <2>4. CASE f \in files /\ files' = files \ {f} /\ job' = [job EXCEPT ![f] = Deleting(f)]
    <3>1. UNCHANGED clockVars
      BY <1>20 DEF Complete
    <3>2. job' \in [Jobs -> JobType] /\ JobsDue' /\ JobsOfRemoved'
      BY <2>3, <2>4, <3>1, DeletingEffect
    <3>q. QED  BY <2>1, <2>2, <3>2 DEF Inv
  <2>5. CASE files' = files /\ job' = job
    <3>1. JobsDue' /\ JobsOfRemoved'
      BY <1>20, <2>3, <2>5 DEF Complete
    <3>q. QED  BY <2>1, <2>2, <2>5, <3>1 DEF Inv
  <2>q. QED  BY <1>20, <2>4, <2>5 DEF Complete
<1>21. ASSUME NEW f \in Files, CompleteRefused(f)
      PROVE  Inv'
  BY <1>21 DEF CompleteRefused
<1>22. ASSUME NEW f \in Files, Expire(f)
      PROVE  Inv'
  BY <1>22 DEF Expire
<1>23. ASSUME NEW f \in Files, GrowOld(f)
      PROVE  Inv'
  BY <1>23 DEF GrowOld
<1>24. ASSUME NEW f \in Files, Cancel(f)
      PROVE  Inv'
  BY <1>24 DEF Cancel
<1>25. ASSUME Evict
      PROVE  Inv'
  BY <1>25 DEF Evict
<1>26. ASSUME UNCHANGED vars
      PROVE  Inv'
  BY <1>26
<1>q. QED
  BY <1>1, <1>2, <1>3, <1>4, <1>5, <1>6, <1>7, <1>8, <1>9, <1>10, <1>11, <1>12, <1>13, <1>14, <1>15, <1>16, <1>17, <1>18, <1>19, <1>20, <1>21, <1>22, <1>23, <1>24, <1>25, <1>26 DEF Next, JobStep, VisitStep, Upload

\* The facts that all the theorems below come from.
LEMMA Invariant == Spec => []Inv
  BY InitInv, StepInv, PTL DEF Spec

(***************************************************************************)
(* Theorems.                                                               *)
(***************************************************************************)

\* The configuration stays as it was read.
LEMMA LimitStays == maxPerDevice \in Limits /\ [Next]_vars
                      => maxPerDevice' = maxPerDevice /\ maxPerDevice \in Nat
BY FilesAssumption DEF Next, vars

\* Two uploads never both see room for the last record: the check is made after
\* the reap's awaits, with the insertion, and storage never brings a record
\* back that would break the limit.
THEOREM QuotaCountHolds == Spec => []QuotaCount
<1>1. Init => maxPerDevice \in Limits /\ QuotaCount
  BY FS_EmptySet, FilesAssumption DEF Init, QuotaCount
<1>2. ASSUME Inv, maxPerDevice \in Limits, QuotaCount, [Next]_vars
      PROVE  (maxPerDevice \in Limits)' /\ QuotaCount'
  <2> USE DEF QuotaCount
  <2>0. maxPerDevice' = maxPerDevice /\ maxPerDevice \in Nat
    BY <1>2, LimitStays
  <2>1. IsFiniteSet(files) /\ IsFiniteSet(files \ expired)
    BY <1>2, FS_Subset, FilesAssumption DEF Inv, Types
  <2>2. CASE files' \subseteq files /\ expired \subseteq expired'
    <3>1. files' \ expired' \subseteq files \ expired
      BY <2>2
    <3>2. Cardinality(files' \ expired') <= Cardinality(files \ expired)
      BY <2>1, <3>1, FS_Subset
    <3>3. /\ Cardinality(files' \ expired') \in Nat
          /\ Cardinality(files \ expired) \in Nat
      BY <2>1, <3>1, FS_Subset, FS_CardinalityType
    <3>q. QED  BY <1>2, <2>0, <3>2, <3>3
  <2>3. CASE \E f \in Files : Reserved(f) /\ ~(files' \subseteq files)
    <3>1. PICK f \in Files : /\ files' = files \cup {f}
                             /\ Cardinality(files) < maxPerDevice
      BY <2>3 DEF Reserved, Fits
    <3>2. /\ IsFiniteSet(files')
          /\ Cardinality(files') <= Cardinality(files) + 1
      <4>1. Cardinality(files') = IF f \in files THEN Cardinality(files)
                                  ELSE Cardinality(files) + 1
        BY <2>1, <3>1, FS_AddElement
      <4>q. QED  BY <2>1, <3>1, <4>1, FS_AddElement, FS_CardinalityType
    <3>3. Cardinality(files' \ expired') <= Cardinality(files')
      BY <3>2, FS_Subset
    <3>4. /\ Cardinality(files) \in Nat
          /\ Cardinality(files') \in Nat
          /\ Cardinality(files' \ expired') \in Nat
      BY <2>1, <3>2, FS_Subset, FS_CardinalityType
    <3>q. QED  BY <1>2, <2>0, <3>1, <3>2, <3>3, <3>4
  <2>4. (files' \subseteq files /\ expired \subseteq expired')
        \/ \E f \in Files : Reserved(f) /\ ~(files' \subseteq files)
    <3> USE DEF vars, state, recordVars, clockVars, uploadVars
    <3>1. ASSUME NEW f \in Files, Reserved(f)
          PROVE  expired \subseteq expired'
      BY <3>1 DEF Reserved
    <3>2. ASSUME NEW j \in Jobs, Drop(j) \/ DeleteObject(j) \/ ReleaseBudget(j)
          PROVE  files' \subseteq files /\ expired \subseteq expired'
      BY <3>2 DEF Drop, DeleteObject, ReleaseBudget, Drops
    <3>3. ASSUME VisitStep
          PROVE  files' \subseteq files /\ expired \subseteq expired'
      BY <3>3 DEF VisitStep, Visit, Alarm, EndReap, Unindex, Delete, Drops, Remove
    <3>4. ASSUME NEW f \in Files,
                 \/ Upload(f) /\ ~Reserved(f)
                 \/ Expire(f)
                 \/ GrowOld(f)
                 \/ Cancel(f)
          PROVE  files' \subseteq files /\ expired \subseteq expired'
      BY <3>4 DEF Upload, Admit, Reserve, IndexFile, Put, Settle, Undo, Abort,
                  Aborted, UnindexFile, BudgetRelease, Complete, CompleteRefused,
                  Expire, GrowOld, Cancel, Drops, Remove
    <3>5. ASSUME Evict
          PROVE  files' \subseteq files /\ expired \subseteq expired'
      BY <1>2, <3>5 DEF Evict, Inv, SavedCovers
    <3>6. CASE UNCHANGED vars
      BY <3>6
    <3>q. QED
      BY <1>2, <3>1, <3>2, <3>3, <3>4, <3>5, <3>6 DEF Next, JobStep
  <2>q. QED  BY <2>2, <2>3, <2>4
<1>q. QED  BY <1>1, <1>2, Invariant, PTL DEF Spec

-----------------------------------------------------------------------------
(* Bytes, as sums over sets of records.                                     *)

\* The bytes of a set of files, as a sum.
LEMMA BytesTotal ==
  /\ \A S : Bytes(S) = Total(size, S)
  /\ Bytes(files)' = Total(size', files')
BY DEF Bytes, Total, MapThenSumSet, MapThenFoldSet

\* The bytes of a set of files are a natural number.
LEMMA BytesType ==
  ASSUME TypeOK, NEW S \in SUBSET Files
  PROVE  IsFiniteSet(S) /\ Bytes(S) \in Nat
<1>1. IsFiniteSet(S) /\ \A f \in S : size[f] \in Nat
  BY FS_Subset, FilesAssumption DEF TypeOK
<1>q. QED  BY <1>1, TotalType, BytesTotal

\* What the numbers of the model can be: every size and what is admitted or written
\* is a number of bytes, and the budget never leaves its range.
LEMMA TypeStep == TypeOK /\ Inv /\ Inv' /\ [Next]_vars => TypeOK'
<1> SUFFICES ASSUME TypeOK, Inv, Inv', [Next]_vars
             PROVE  TypeOK'
  OBVIOUS
<1> DEFINE Numbers ==
      /\ size \in [Files -> Nat]
      /\ alarm \in BOOLEAN
      /\ object \subseteq Files
      /\ indexed \subseteq Files
      /\ budget \in 0 .. Budget
      /\ admitted \in [Files -> Nat]
      /\ written \in [Files -> Nat]
<1>1. Numbers
  BY DEF TypeOK
<1> USE FilesAssumption, <1>1 DEF recordVars, clockVars, uploadVars, vars, state
<1>2. ASSUME NEW n \in Nat, GivesBack(n) \/ budget' = Less(budget, n)
      PROVE  budget' \in 0 .. Budget
  BY <1>2 DEF GivesBack, Less
<1>3. ASSUME JobStep
      PROVE  Numbers'
  <2>1. ASSUME NEW j \in Jobs, Drop(j)
        PROVE  Numbers'
    BY <2>1 DEF Drop
  <2>2. ASSUME NEW j \in Jobs, DeleteObject(j)
        PROVE  Numbers'
    BY <2>2 DEF DeleteObject
  <2>3. ASSUME NEW j \in Jobs, ReleaseBudget(j)
        PROVE  Numbers'
    <3>1. size[job[j].cur] \in Nat
      BY <2>3 DEF ReleaseBudget, Inv, JobsOfRemoved
    <3>q. QED  BY <1>2, <2>3, <3>1 DEF ReleaseBudget
  <2>q. QED  BY <1>3, <2>1, <2>2, <2>3 DEF JobStep
<1>4. ASSUME VisitStep
      PROVE  Numbers'
  BY <1>4 DEF VisitStep, Visit, Alarm, EndReap, Unindex, Delete, Remove
<1>5. ASSUME NEW f \in Files, Upload(f)
      PROVE  Numbers'
  <2>1. CASE Admit(f)
    BY <2>1 DEF Admit, Affordable
  <2>2. CASE Settle(f)
    <3>1. written[f] \in Nat /\ admitted[f] \in Nat
      OBVIOUS
    <3>2. CASE written[f] < admitted[f] /\ GivesBack(admitted[f] - written[f])
      BY <1>2, <2>2, <3>1, <3>2 DEF Settle
    <3>3. CASE ~(written[f] < admitted[f] /\ GivesBack(admitted[f] - written[f]))
      BY <2>2, <3>1, <3>3 DEF Settle, Affordable
    <3>q. QED  BY <3>2, <3>3
  <2>3. CASE BudgetRelease(f)
    BY <1>2, <2>3 DEF BudgetRelease
  <2>4. CASE ~(Admit(f) \/ Settle(f) \/ BudgetRelease(f))
    BY <1>5, <2>4
    DEF Upload, Reserve, Reserved, IndexFile, Put, Undo, Abort, Aborted, UnindexFile,
        Complete, CompleteRefused, Remove
  <2>q. QED  BY <2>1, <2>2, <2>3, <2>4
<1>6. ASSUME NEW f \in Files, Expire(f) \/ GrowOld(f) \/ Cancel(f)
      PROVE  Numbers'
  BY <1>6 DEF Expire, GrowOld, Cancel
<1>7. ASSUME Evict
      PROVE  Numbers'
  <2>1. budget' \in 0 .. Budget
    <3>1. PICK paid \in SUBSET Files : budget' = Less(budget, Bytes(paid))
      <4>1. \A dead, unpaid : (dead \ unpaid) \cap ready \in SUBSET Files
        BY DEF Inv, Types
      <4>2. \E dead, unpaid : budget' = Less(budget, Bytes((dead \ unpaid) \cap ready))
        BY <1>7 DEF Evict
      <4>q. QED  BY <4>1, <4>2
    <3>2. Bytes(paid) \in Nat
      BY BytesType
    <3>q. QED  BY <1>2, <3>1, <3>2
  <2>2. object' \subseteq Files /\ alarm' \in BOOLEAN
    BY <1>7 DEF Evict
  <2>q. QED  BY <1>7, <2>1, <2>2 DEF Evict
<1>8. ASSUME UNCHANGED vars
      PROVE  Numbers'
  BY <1>8
<1>9. Numbers'
  BY <1>3, <1>4, <1>5, <1>6, <1>7, <1>8 DEF Next
<1>10. expired' \subseteq Files /\ old' \subseteq Files
  BY DEF Inv, Known
<1>11. maxPerDevice' \in Limits
  BY LimitStays DEF TypeOK
<1>q. QED  BY <1>9, <1>10, <1>11 DEF TypeOK, Inv, Types, JobType

\* Every variable keeps its type; above all the budget stays between nothing
\* and what the account pays for, whatever is given back twice or not at all.
THEOREM TypeCorrect == Spec => []TypeOK
<1>1. Init => TypeOK
  <2>1. Init => job \in [Jobs -> JobType]
    BY JobRecords DEF Init
  <2>2. Init => pc \in [Files -> Places]
    BY DEF Init, Places
  <2>3. Init => /\ size \in [Files -> Nat]
                /\ admitted \in [Files -> Nat]
                /\ written \in [Files -> Nat]
                /\ budget \in 0 .. Budget
    BY FilesAssumption DEF Init
  <2>4. Init => /\ files \subseteq Files /\ saved \subseteq Files /\ ready \subseteq Files
                /\ expired \subseteq Files /\ old \subseteq Files
                /\ object \subseteq Files /\ indexed \subseteq Files
                /\ alarm \in BOOLEAN /\ maxPerDevice \in Limits
    BY DEF Init
  <2>q. QED  BY <2>1, <2>2, <2>3, <2>4 DEF TypeOK, JobType
<1>q. QED  BY <1>1, TypeStep, Invariant, PTL DEF Spec

\* A step that takes records away, and measures none of those that stay, leaves
\* no more bytes.
LEMMA FewerBytes ==
  ASSUME TypeOK, files' \subseteq files, \A f \in files' : size'[f] = size[f]
  PROVE  Bytes(files)' <= Bytes(files) /\ Bytes(files)' \in Nat
<1>1. IsFiniteSet(files) /\ IsFiniteSet(files') /\ \A f \in files : size[f] \in Nat
  BY FS_Subset, FilesAssumption DEF TypeOK
<1>2. Bytes(files)' = Total(size, files')
  BY <1>1, TotalSame, BytesTotal
<1>q. QED  BY <1>1, <1>2, TotalSubset, BytesTotal

\* Only the insertion of a reservation and the measure of a body change what the
\* records hold upwards.
LEMMA MeasuredSteps ==
  ASSUME TypeOK, Inv, [Next]_vars,
         \A f \in Files : ~Reserved(f) /\ ~Complete(f)
  PROVE  files' \subseteq files /\ size' = size
<1> USE DEF vars, state, recordVars
<1>1. CASE JobStep
  BY <1>1 DEF JobStep, Drop, DeleteObject, ReleaseBudget, Drops
<1>2. CASE VisitStep
  BY <1>2 DEF VisitStep, Visit, Alarm, EndReap, Unindex, Delete, Drops, Remove
<1>3. ASSUME NEW f \in Files, Upload(f) \/ Expire(f) \/ GrowOld(f) \/ Cancel(f)
      PROVE  files' \subseteq files /\ size' = size
  BY <1>3 DEF Upload, Admit, Reserve, IndexFile, Put, Settle, Undo, Abort, Aborted,
              UnindexFile, BudgetRelease, CompleteRefused, Expire, GrowOld, Cancel,
              Drops, Remove
<1>4. CASE Evict
  BY <1>4 DEF Evict, Inv, SavedCovers
<1>5. CASE UNCHANGED vars
  BY <1>5
<1>q. QED  BY <1>1, <1>2, <1>3, <1>4, <1>5 DEF Next

\* The records never hold more than maxTotalBytes: both places that add bytes
\* compare in the step that adds them, the rest of reserve with the declared
\* size and complete with the measured one, and an eviction adds none.
THEOREM QuotaBytesHolds == Spec => []QuotaBytes
<1>1. Init => QuotaBytes
  BY BytesTotal, TotalEmpty, FilesAssumption DEF Init, QuotaBytes
<1>2. ASSUME TypeOK, Inv, QuotaBytes, [Next]_vars
      PROVE  QuotaBytes'
  <2>0. Bytes(files) \in Nat /\ Bytes(files) <= MaxTotal
    BY <1>2, BytesType DEF QuotaBytes, TypeOK
  <2>1. CASE files' \subseteq files /\ \A f \in files' : size'[f] = size[f]
    BY <1>2, <2>0, <2>1, FewerBytes, FilesAssumption DEF QuotaBytes
  <2>2. ASSUME NEW f \in Files, Reserved(f), ~(files' \subseteq files)
        PROVE  QuotaBytes'
    <3>1. /\ files' = files \cup {f}
          /\ size' = [size EXCEPT ![f] = admitted[f]]
          /\ Bytes(files) + admitted[f] <= MaxTotal
      BY <2>2 DEF Reserved, Fits
    <3>2. f \notin files
      BY <2>2, <3>1
    <3>3. IsFiniteSet(files) /\ \A g \in files \cup {f} : size'[g] \in Nat
      BY <1>2, <3>1, FS_Subset, FilesAssumption DEF TypeOK
    <3>4. Bytes(files)' = size'[f] + Total(size', files)
      <4>1. Total(size', files \cup {f}) = size'[f] + Total(size', files)
        BY <3>2, <3>3, TotalAdd
      <4>2. Bytes(files)' = Total(size', files')
        BY BytesTotal
      <4>q. QED  BY <3>1, <4>1, <4>2
    <3>5. Total(size', files) = Bytes(files)
      <4>1. \A g \in files : size'[g] = size[g]
        BY <1>2, <3>1, <3>2 DEF TypeOK
      <4>q. QED  BY <3>3, <4>1, TotalSame, BytesTotal
    <3>6. size'[f] = admitted[f] /\ admitted[f] \in Nat
      BY <1>2, <3>1 DEF TypeOK
    <3>q. QED  BY <2>0, <3>1, <3>4, <3>5, <3>6 DEF QuotaBytes
  <2>3. ASSUME NEW f \in Files, Reserved(f), files' \subseteq files
        PROVE  files' \subseteq files /\ \A g \in files' : size'[g] = size[g]
    <3>1. f \notin files
      BY <1>2, <2>3 DEF Reserved, Inv, Held, HeldPlaces
    <3>q. QED  BY <1>2, <2>3, <3>1 DEF Reserved, TypeOK
  <2>4. ASSUME NEW f \in Files, Complete(f), size' # size
        PROVE  QuotaBytes'
    <3>1. /\ f \in files /\ files' = files
          /\ size' = [size EXCEPT ![f] = written[f]]
          /\ Bytes(files \ {f}) + written[f] <= MaxTotal
      BY <2>4 DEF Complete, Remove, recordVars
    <3>2. IsFiniteSet(files) /\ IsFiniteSet(files \ {f}) /\ \A g \in files : size'[g] \in Nat
      BY <1>2, <3>1, FS_Subset, FS_RemoveElement, FilesAssumption DEF TypeOK
    <3>3. Bytes(files)' = size'[f] + Total(size', files \ {f})
      <4>1. Total(size', files) = size'[f] + Total(size', files \ {f})
        <5>1. f \in files
          BY <3>1
        <5>q. QED  BY <3>2, <5>1, TotalRemove
      <4>2. Bytes(files)' = Total(size', files')
        BY BytesTotal
      <4>3. files' = files
        BY <3>1
      <4>q. QED  BY <4>1, <4>2, <4>3
    <3>4. Total(size', files \ {f}) = Bytes(files \ {f})
      <4>1. \A g \in files \ {f} : size'[g] = size[g]
        BY <1>2, <3>1 DEF TypeOK
      <4>q. QED  BY <3>2, <4>1, TotalSame, BytesTotal
    <3>5. size'[f] = written[f] /\ written[f] \in Nat /\ Bytes(files \ {f}) \in Nat
      BY <1>2, <3>1, BytesType DEF TypeOK
    <3>q. QED  BY <3>1, <3>3, <3>4, <3>5, FilesAssumption DEF QuotaBytes
  <2>5. ASSUME NEW f \in Files, Complete(f), size' = size
        PROVE  files' \subseteq files /\ \A g \in files' : size'[g] = size[g]
    BY <2>5 DEF Complete, Remove, recordVars
  <2>q. QED  BY <1>2, <2>1, <2>2, <2>3, <2>4, <2>5, MeasuredSteps
<1>q. QED  BY <1>1, <1>2, TypeCorrect, Invariant, PTL DEF Spec

\* A failed upload leaks no slot, and a record that is served has its object
\* and (unless a call failed) its id: no interleaving of uploads, reaps,
\* deletions, cancellations and evictions takes them from under the record.
THEOREM StoredFilesSafe ==
  Spec => []FilesAgree
<1>1. Inv => FilesAgree
  BY DEF FilesAgree, Inv, Held, HeldPlaces, Stored, Findable, SlotReturned, ReadyIsStored,
         ReadyIsIndexed
<1>q. QED  BY <1>1, Invariant, PTL

\* While there are records the object will be woken to reap them.
THEOREM AlarmAlwaysArmed == Spec => []AlarmArmed
<1>1. Init => AlarmArmed
  BY DEF Init, AlarmArmed
<1>2. ASSUME Inv, AlarmArmed, [Next]_vars
      PROVE  AlarmArmed'
  <2> DEFINE Reaps(v) == job[v].step # "idle" /\ job[v].unindex = None
  <2> USE FilesAssumption DEF Inv, Types
  <2>1. ASSUME NEW j \in Jobs, Drop(j) \/ DeleteObject(j) \/ ReleaseBudget(j)
        PROVE  AlarmArmed'
    <3>1. files' \subseteq files /\ UNCHANGED <<alarm, pc>>
      BY <2>1 DEF Drop, DeleteObject, ReleaseBudget, Drops, recordVars, uploadVars
    <3>2. \A i \in Jobs : i # j => job'[i] = job[i]
      BY <1>2, <2>1 DEF Drop, DeleteObject, ReleaseBudget, Drops
    <3>3. Reaps(j) => Reaps(j)'
      <4>1. CASE Drop(j)
        BY <1>2, <4>1, DropsJob DEF Drop
      <4>2. CASE DeleteObject(j)
        BY <1>2, <4>2 DEF DeleteObject, JobType
      <4>3. CASE ReleaseBudget(j)
        BY <1>2, <4>3 DEF ReleaseBudget, JobType
      <4>q. QED  BY <2>1, <4>1, <4>2, <4>3
    <3>4. \A v \in Visits : Reaps(v) => Reaps(v)'
      BY <3>2, <3>3 DEF Jobs
    <3>q. QED  BY <1>2, <3>1, <3>4 DEF AlarmArmed
  <2>2. ASSUME NEW v \in Visits, Visit(v) \/ Alarm(v)
        PROVE  AlarmArmed'
    <3>1. Drops(v, Gone, Late)
      BY <2>2 DEF Visit, Alarm
    <3>2. Reaps(v)'
      BY <1>2, <3>1, DropsJob DEF Jobs
    <3>q. QED  BY <3>2 DEF AlarmArmed
  <2>3. ASSUME NEW v \in Visits, EndReap(v)
        PROVE  AlarmArmed'
    BY <2>3 DEF EndReap, AlarmArmed
  <2>4. ASSUME NEW v \in Visits,
               Unindex(v) \/ \E f \in Files : Delete(v, f)
        PROVE  AlarmArmed'
    <3>1. files' \subseteq files /\ UNCHANGED <<alarm, pc>>
      BY <2>4 DEF Unindex, Delete, Remove, recordVars, uploadVars
    <3>2. \A i \in Jobs : i # v => job'[i] = job[i]
      BY <1>2, <2>4 DEF Unindex, Delete
    <3>3. ~Reaps(v)
      BY <2>4 DEF Unindex, Delete, Idle
    <3>4. \A u \in Visits : Reaps(u) => Reaps(u)'
      BY <3>2, <3>3 DEF Jobs
    <3>q. QED  BY <1>2, <3>1, <3>4 DEF AlarmArmed
  <2>5. ASSUME NEW f \in Files, Reserve(f) \/ Reserved(f)
        PROVE  AlarmArmed'
    <3>1. CASE Reserve(f)
      BY <1>2, <3>1 DEF Reserve, Goto, AlarmArmed
    <3>2. CASE Reserved(f)
      BY <3>2 DEF Reserved, AlarmArmed
    <3>q. QED  BY <2>5, <3>1, <3>2
  <2>6. ASSUME NEW f \in Files, \/ Upload(f) /\ ~Reserve(f) /\ ~Reserved(f)
                                \/ Expire(f)
                                \/ GrowOld(f)
                                \/ Cancel(f)
        PROVE  AlarmArmed'
    <3>1. files' \subseteq files /\ UNCHANGED alarm
      BY <2>6
      DEF Upload, Admit, IndexFile, Put, Settle, Undo, Abort, Aborted,
          UnindexFile, BudgetRelease, Complete, CompleteRefused, Expire,
          GrowOld, Cancel, Remove, recordVars
    <3>2. \A i \in Jobs : i # f => job'[i] = job[i]
      BY <1>2, <2>6
      DEF Upload, Admit, IndexFile, Put, Settle, Undo, Abort, Aborted,
          UnindexFile, BudgetRelease, Complete, CompleteRefused, Expire,
          GrowOld, Cancel
    <3>3. \A v \in Visits : Reaps(v) => Reaps(v)'
      BY <3>2 DEF Jobs
    <3>4. \A g \in Files : pc[g] = "reserving" => pc'[g] = "reserving"
      BY <1>2, <2>6
      DEF Busy, Idle, Upload, Admit, IndexFile, Put, Settle, Undo, Abort, Aborted,
          UnindexFile, BudgetRelease, Complete, CompleteRefused, Expire,
          GrowOld, Cancel, Goto, uploadVars
    <3>q. QED  BY <1>2, <3>1, <3>3, <3>4 DEF AlarmArmed
  <2>7. CASE Evict
    BY <2>7 DEF Evict, AlarmArmed
  <2>8. CASE UNCHANGED vars
    BY <1>2, <2>8 DEF vars, state, recordVars, uploadVars, AlarmArmed
  <2>q. QED
    BY <1>2, <2>1, <2>2, <2>3, <2>4, <2>5, <2>6, <2>7, <2>8
    DEF Next, JobStep, VisitStep, Upload
<1>q. QED  BY <1>1, <1>2, Invariant, PTL DEF Spec

\* An acknowledged upload disappears only by its expiry or its owner.
THEOREM AcknowledgedSafe == Spec => AcknowledgedKept
<1>1. ASSUME Inv, [Next]_vars, NEW f \in Files,
             pc[f] = "stored", f \in files, f \notin files'
      PROVE  f \in expired \/ \E v \in Visits : job'[v].unindex = f
  <2> USE FilesAssumption DEF Inv, Types
  <2>1. f \in ready
    BY <1>1 DEF ReadyPlaces
  <2>2. ASSUME NEW j \in Jobs, NEW gone, NEW late, Drops(j, gone, late),
               gone \subseteq expired, late \cap ready = {}
        PROVE  f \in expired
    BY <1>1, <2>1, <2>2 DEF Drops
  <2>3. ASSUME NEW j \in Jobs, Drop(j) \/ DeleteObject(j) \/ ReleaseBudget(j)
        PROVE  f \in expired
    <3>1. Drops(j, job[j].gone, job[j].late \ ready)
      BY <1>1, <2>3 DEF Drop, DeleteObject, ReleaseBudget, recordVars
    <3>q. QED  BY <1>1, <2>2, <3>1 DEF JobsDue
  <2>4. ASSUME NEW v \in Visits, Visit(v) \/ Alarm(v)
        PROVE  f \in expired
    BY <2>2, <2>4 DEF Visit, Alarm, Gone, Late, Jobs
  <2>5. ASSUME NEW v \in Visits, NEW g \in Files, Delete(v, g)
        PROVE  job'[v].unindex = f
    BY <1>1, <2>5 DEF Delete, Remove, Deleting, Idle, Jobs
  <2>6. ASSUME NEW v \in Visits, EndReap(v) \/ Unindex(v)
        PROVE  FALSE
    BY <1>1, <2>6 DEF EndReap, Unindex, recordVars
  <2>7. ASSUME NEW g \in Files, Reserve(g)
        PROVE  f \in expired
    BY <2>2, <2>7 DEF Reserve, Gone, Late, Jobs
  <2>8. ASSUME NEW g \in Files, \/ Upload(g) /\ ~Reserve(g)
                                \/ Expire(g)
                                \/ GrowOld(g)
                                \/ Cancel(g)
        PROVE  FALSE
    BY <1>1, <2>8
    DEF Upload, Admit, Reserved, IndexFile, Put, Settle, Undo, Abort, Aborted,
        UnindexFile, BudgetRelease, Complete, CompleteRefused, Expire, GrowOld,
        Cancel, Remove, recordVars
  <2>9. CASE Evict
    BY <1>1, <2>1, <2>9 DEF Evict, SavedCovers
  <2>10. CASE UNCHANGED vars
    BY <1>1, <2>10 DEF vars, state, recordVars
  <2>q. QED
    BY <1>1, <2>3, <2>4, <2>5, <2>6, <2>7, <2>8, <2>9, <2>10
    DEF Next, JobStep, VisitStep, Upload
<1>2. Inv /\ [Next]_vars =>
        [\A f \in Files :
           pc[f] = "stored" /\ f \in files /\ f \notin files'
             => f \in expired \/ \E v \in Visits : job'[v].unindex = f]_vars
  BY <1>1
<1>q. QED  BY <1>2, Invariant, PTL DEF Spec, AcknowledgedKept
=============================================================================
