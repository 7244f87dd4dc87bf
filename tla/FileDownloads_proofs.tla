------------------------- MODULE FileDownloads_proofs -------------------------
(***************************************************************************)
(* Every download is answered as its file called for at some moment while   *)
(* it was under way.  The invariant says what each place a download waits   *)
(* at has seen so far: the answers that its snapshot of the record allows   *)
(* have all been right once.                                                *)
(***************************************************************************)
EXTENDS FileDownloads, FiniteSetTheorems, TLAPS

\* The file has been indexed at some time.
Known(f) == record[f] \in {"pending", "ready", "gone"}

\* A complete file has its object; a live one is listed; only files that were
\* uploaded are listed or cached.
FilesInv ==
  /\ \A f \in Ids :
       /\ record[f] = "ready" => f \in stored
       /\ record[f] \in {"pending", "ready"} /\ f \notin past => f \in listed
  /\ \A f \in listed \cup owners : Known(f)

Hidden(g, answer) == IF get[g].page THEN "notFound" ELSE answer

\* What the key that was read makes of the download.
Verdict(g) ==
  IF get[g].key # Open /\ get[g].given \notin {Owner, get[g].key}
  THEN "unauthorized" ELSE "served"

\* A download whose record was read.
DecideInv(g) ==
  /\ get[g].status \in {"pending", "ready"}
  /\ get[g].status = "pending" => Hidden(g, "incomplete") \in seen[g]
  /\ get[g].status = "ready" =>
       /\ record[get[g].id] \in {"ready", "gone"}
       /\ get[g].id \in past => Hidden(g, "expired") \in seen[g]
       /\ get[g].id \notin past => Verdict(g) \in seen[g]

FetchInv(g) ==
  /\ record[get[g].id] \in {"ready", "gone"}
  /\ "served" \in seen[g]

DownloadInv(g) ==
  UnderWay(g) =>
    /\ Right(g) \subseteq seen[g]
    /\ get[g].pc # "lookup" => Known(get[g].id)
    /\ get[g].pc = "decide" => DecideInv(g)
    /\ get[g].pc = "fetch" => FetchInv(g)

Inv ==
  /\ DownloadsTypeOK
  /\ FilesInv
  /\ \A g \in Downloads : DownloadInv(g)

-----------------------------------------------------------------------------
LEMMA NoDownloadType ==
  /\ NoDownload.pc = "idle"
  /\ NoDownload \in DownloadStates
BY DownloadsAssumption DEF NoDownload, DownloadStates, Statuses

\* The types and the files follow from the steps alone.
LEMMA TypeStep ==
  ASSUME DownloadsTypeOK, [DownloadsNext]_dvars
  PROVE  DownloadsTypeOK'
<1> USE DEF DownloadsTypeOK, dvars, fileVars
<1>1. CASE UNCHANGED dvars
  BY <1>1
<1>2. CASE FileStep /\ Noted
  <2>1. get' = get /\ owners' = owners
    BY <1>2 DEF FileStep
  <2>2. record' \in [Ids -> Statuses]
        /\ fileKey' \in [Ids -> FileKeys \cup {Open}] /\ stored' \subseteq Ids
        /\ listed' \subseteq Ids /\ past' \subseteq Ids
    BY <1>2 DEF FileStep, ReserveFile, SetKey, FileIndexed, FileCompleted,
                FileRemoved, ObjectDeleted, FileUnindexed, FileExpires, IndexRebuilt,
                Statuses
  <2>3. \A g \in Downloads : Right(g)' \subseteq Answers
    BY <2>1, <2>2 DEF Right, Answers
  <2>q. QED
    BY <1>2, <2>1, <2>2, <2>3 DEF Noted
<1>3. CASE DownloadStep /\ Noted
  <2>1. PICK g \in Downloads :
          \/ \E f \in Ids, page \in BOOLEAN, given \in FileKeys \cup {Open, Owner} :
               DownloadArrives(g, f, page, given)
          \/ LookupFile(g) \/ RememberOwner(g) \/ GetRecord(g) \/ DownloadFile(g)
          \/ FetchObject(g)
    BY <1>3 DEF DownloadStep
  <2>2. /\ fileKey' = fileKey /\ stored' = stored /\ past' = past
        /\ listed' \subseteq Ids /\ owners' \subseteq Ids
        /\ record' \in [Ids -> Statuses]
    <3>0. get[g].id \in Ids
      BY DEF DownloadStates
    <3>1. CASE GetRecord(g)
      BY <3>0, <3>1 DEF GetRecord, Forget, Statuses
    <3>2. CASE RememberOwner(g)
      BY <3>0, <3>2 DEF RememberOwner
    <3>q. QED
      BY <2>1, <3>1, <3>2 DEF DownloadArrives, LookupFile, DownloadFile, FetchObject
  <2>3. get' \in [Downloads -> DownloadStates]
    <3>1. ASSUME NEW a \in Answers, Answer(g, a)
          PROVE  get' \in [Downloads -> DownloadStates]
      <4>1. [NoDownload EXCEPT !.pc = a] \in DownloadStates
        BY NoDownloadType DEF DownloadStates
      <4>q. QED
        BY <3>1, <4>1 DEF Answer
    <3>2. ASSUME NEW p \in Phases, Await(g, p)
          PROVE  get' \in [Downloads -> DownloadStates]
      BY <3>2 DEF Await, DownloadStates
    <3>3. ASSUME NEW f \in Ids, NEW page \in BOOLEAN,
                 NEW given \in FileKeys \cup {Open, Owner}, DownloadArrives(g, f, page, given)
          PROVE  get' \in [Downloads -> DownloadStates]
      BY <3>3, NoDownloadType DEF DownloadArrives, Phases, DownloadStates
    <3>4. ASSUME LookupFile(g)
          PROVE  get' \in [Downloads -> DownloadStates]
      BY <3>1, <3>2, <3>4 DEF LookupFile, Answers, Phases
    <3>5. ASSUME RememberOwner(g)
          PROVE  get' \in [Downloads -> DownloadStates]
      BY <3>2, <3>5 DEF RememberOwner, Phases
    <3>6. ASSUME GetRecord(g)
          PROVE  get' \in [Downloads -> DownloadStates]
      <4>1. CASE Answer(g, "notFound")
        BY <3>1, <4>1 DEF Answers
      <4> DEFINE read == [get[g] EXCEPT !.pc = "decide", !.key = fileKey[get[g].id],
                                        !.status = record[get[g].id]]
      <4>2. CASE get' = [get EXCEPT ![g] = read]
        <5>1. get[g] \in DownloadStates /\ get[g].id \in Ids
          BY DEF DownloadStates
        <5>2. fileKey[get[g].id] \in FileKeys \cup {Open} /\ record[get[g].id] \in Statuses
          BY <5>1
        <5>3. read \in DownloadStates
          BY <5>1, <5>2 DEF Phases, DownloadStates
        <5>q. QED
          BY <4>2, <5>3
      <4>q. QED
        BY <3>6, <4>1, <4>2 DEF GetRecord
    <3>7. ASSUME DownloadFile(g)
          PROVE  get' \in [Downloads -> DownloadStates]
      <4>1. \/ \E a \in Answers : Answer(g, a)
            \/ Await(g, "fetch")
        BY <3>7 DEF DownloadFile, Refuse, Answers
      <4>q. QED
        BY <3>1, <3>2, <4>1 DEF Phases
    <3>8. ASSUME FetchObject(g)
          PROVE  get' \in [Downloads -> DownloadStates]
      BY <3>1, <3>8 DEF FetchObject, Answers
    <3>q. QED
      BY <2>1, <3>3, <3>4, <3>5, <3>6, <3>7, <3>8
  <2>4. \A h \in Downloads : Right(h)' \subseteq Answers
    BY <2>2, <2>3 DEF Right, Answers
  <2>q. QED
    BY <1>3, <2>2, <2>3, <2>4 DEF Noted
<1>q. QED
  BY <1>1, <1>2, <1>3 DEF DownloadsNext

\* The steps of one download.
Steps(g) ==
  \/ \E f \in Ids, page \in BOOLEAN, given \in FileKeys \cup {Open, Owner} :
       DownloadArrives(g, f, page, given)
  \/ LookupFile(g) \/ RememberOwner(g) \/ GetRecord(g) \/ DownloadFile(g)
  \/ FetchObject(g)

-----------------------------------------------------------------------------
(* The life of the files.                                                   *)

\* A record never returns to an earlier status, and a file expires while its
\* record is kept.
Ages ==
  \A f \in Ids :
    /\ Known(f) => Known(f)'
    /\ record[f] \in {"ready", "gone"} => record'[f] \in {"ready", "gone"}
    /\ f \in past => f \in past'
    /\ f \in past' \ past => Kept(f) /\ record'[f] = record[f]

LEMMA FileStepSafe ==
  ASSUME DownloadsTypeOK, FilesInv, FileStep
  PROVE  FilesInv' /\ Ages
<1> USE DEF DownloadsTypeOK, Statuses, FilesInv, Ages, Known, Kept
<1>1. owners' = owners
  BY DEF FileStep
<1>2. ASSUME NEW f \in Ids, NEW key \in FileKeys \cup {Open}, ReserveFile(f, key) \/ SetKey(f, key)
      PROVE  FilesInv' /\ Ages
  BY <1>1, <1>2 DEF ReserveFile, SetKey
<1>3. ASSUME NEW f \in Ids, FileIndexed(f) \/ FileCompleted(f)
      PROVE  FilesInv' /\ Ages
  BY <1>1, <1>3 DEF FileIndexed, FileCompleted
<1>4. ASSUME NEW f \in Ids, FileRemoved(f) \/ ObjectDeleted(f)
      PROVE  FilesInv' /\ Ages
  <2>1. Kept(f) => record[f] # "none" /\ record[f] # "gone"
    OBVIOUS
  <2>q. QED
    BY <1>1, <1>4, <2>1 DEF FileRemoved, ObjectDeleted
<1>5. ASSUME NEW f \in Ids, FileUnindexed(f) \/ FileExpires(f)
      PROVE  FilesInv' /\ Ages
  BY <1>1, <1>5 DEF FileUnindexed, FileExpires
<1>6. ASSUME IndexRebuilt
      PROVE  FilesInv' /\ Ages
  BY <1>1, <1>6 DEF IndexRebuilt
<1>q. QED
  BY <1>2, <1>3, <1>4, <1>5, <1>6 DEF FileStep

LEMMA DownloadStepSafe ==
  ASSUME Inv, NEW g \in Downloads, Steps(g)
  PROVE  /\ FilesInv'
         /\ Ages
         /\ \A h \in Downloads \ {g} : get'[h] = get[h]
<1> USE DEF Inv, DownloadsTypeOK, Statuses, FilesInv, Ages, Known, Kept
<1>0. get[g].id \in Ids
  BY DEF DownloadStates
<1>1. CASE \E f \in Ids, page \in BOOLEAN, given \in FileKeys \cup {Open, Owner} :
             DownloadArrives(g, f, page, given)
  BY <1>1 DEF DownloadArrives, fileVars
<1>2. CASE LookupFile(g)
  BY <1>0, <1>2 DEF LookupFile, Answer, Await
<1>3. CASE RememberOwner(g)
  <2>1. Known(get[g].id)
    BY <1>3 DEF RememberOwner, DownloadInv, UnderWay, Phases
  <2>q. QED
    BY <1>0, <1>3, <2>1 DEF RememberOwner, Await, fileVars
<1>4. CASE GetRecord(g)
  <2>1. PICK reaped \in SUBSET past :
          record' = [f \in Ids |-> IF f \in reaped THEN "gone" ELSE record[f]]
    BY <1>4 DEF GetRecord
  <2>2. /\ owners' \subseteq owners
        /\ \A h \in Downloads \ {g} : get'[h] = get[h]
        /\ UNCHANGED <<fileKey, stored, listed, past>>
    BY <1>4 DEF GetRecord, Forget, Answer
  <2>q. QED
    BY <2>1, <2>2
<1>5. CASE DownloadFile(g)
  BY <1>5 DEF DownloadFile, Refuse, Answer, Await, fileVars
<1>6. CASE FetchObject(g)
  BY <1>6 DEF FetchObject, Answer, fileVars
<1>q. QED
  BY <1>1, <1>2, <1>3, <1>4, <1>5, <1>6 DEF Steps

-----------------------------------------------------------------------------
(* The downloads.                                                           *)

\* A download that another step leaves alone keeps what it has seen, and sees
\* the new state of its file.
LEMMA Waits ==
  ASSUME Inv, DownloadsTypeOK', Ages, Noted, NEW g \in Downloads, get'[g] = get[g]
  PROVE  DownloadInv(g)'
<1> SUFFICES ASSUME UnderWay(g)
             PROVE  DownloadInv(g)'
  BY DEF DownloadInv, UnderWay
<1> USE DEF Inv
<1>0. get[g].id \in Ids
  BY DEF DownloadsTypeOK, DownloadStates
<1>1. seen'[g] = seen[g] \cup Right(g)'
  BY DEF Noted, UnderWay
<1>2. get[g].pc # "lookup" => Known(get[g].id)'
  BY <1>0 DEF DownloadInv, Ages, Known
<1>3. ASSUME get[g].pc = "decide"
      PROVE  DecideInv(g)'
  <2>1. DecideInv(g)
    BY <1>3 DEF DownloadInv
  <2>2. ASSUME get[g].status = "ready", get[g].id \in past', get[g].id \notin past
        PROVE  Hidden(g, "expired")' \in seen'[g]
    <3>1. record'[get[g].id] = "ready"
      BY <1>0, <2>1, <2>2 DEF DecideInv, Ages, Kept
    <3>q. QED
      BY <1>1, <2>2, <3>1 DEF Right, Hidden
  <2>q. QED
    BY <1>0, <1>1, <2>1, <2>2 DEF DecideInv, Ages, Hidden, Verdict
<1>4. ASSUME get[g].pc = "fetch"
      PROVE  FetchInv(g)'
  BY <1>0, <1>1, <1>4 DEF DownloadInv, FetchInv, Ages
<1>q. QED
  BY <1>1, <1>2, <1>3, <1>4 DEF DownloadInv

\* A download that moves is answered with what it has seen, or has seen what its
\* next place asks for.
LEMMA Moves ==
  ASSUME Inv, DownloadsTypeOK', Noted, NEW g \in Downloads, Steps(g)
  PROVE  /\ DownloadInv(g)'
         /\ UnderWay(g) /\ ~UnderWay(g)' => get'[g].pc \in seen[g]
<1> USE DEF Inv
<1>0. get[g].id \in Ids /\ get[g] \in DownloadStates
  BY DEF DownloadsTypeOK, DownloadStates
<1>1. UnderWay(g)' => seen'[g] = seen[g] \cup Right(g)'
  BY DEF Noted
<1> DEFINE Goal == /\ DownloadInv(g)'
                   /\ UnderWay(g) /\ ~UnderWay(g)' => get'[g].pc \in seen[g]
<1>2. ASSUME NEW a \in Answers, Answer(g, a), a \in seen[g]
      PROVE  Goal
  <2>1. get'[g].pc = a
    BY <1>2, NoDownloadType DEF Answer, DownloadsTypeOK, DownloadStates
  <2>q. QED
    BY <1>2, <2>1 DEF DownloadInv, UnderWay, Phases, Answers
<1>3. CASE \E f \in Ids, page \in BOOLEAN, given \in FileKeys \cup {Open, Owner} :
             DownloadArrives(g, f, page, given)
  <2>1. PICK f \in Ids : /\ ~UnderWay(g)
                         /\ get'[g].pc = (IF f \in owners THEN "record" ELSE "lookup")
                         /\ get'[g].id = f
                         /\ record' = record
    BY <1>3, NoDownloadType DEF DownloadArrives, DownloadsTypeOK, DownloadStates, fileVars
  <2>2. get'[g].pc # "lookup" => Known(f)'
    BY <2>1 DEF FilesInv, Known
  <2>q. QED
    BY <1>1, <2>1, <2>2 DEF DownloadInv, UnderWay, Phases
<1>4. CASE LookupFile(g)
  <2>1. CASE get[g].id \in listed \ past
    <3>1. get'[g].pc = "remember" /\ get'[g].id = get[g].id /\ record' = record
      BY <1>4, <2>1 DEF LookupFile, Await, DownloadsTypeOK, DownloadStates
    <3>2. Known(get[g].id)'
      BY <2>1, <3>1 DEF FilesInv, Known
    <3>q. QED
      BY <1>1, <3>1, <3>2 DEF DownloadInv, UnderWay, Phases
  <2>2. CASE get[g].id \notin listed \ past
    <3>1. "notFound" \in Right(g)
      BY <1>0, <2>2 DEF FilesInv, Right
    <3>2. "notFound" \in seen[g]
      BY <1>4, <3>1 DEF LookupFile, DownloadInv, UnderWay, Phases
    <3>q. QED
      BY <1>2, <1>4, <2>2, <3>2 DEF LookupFile, Answers
  <2>q. QED
    BY <2>1, <2>2
<1>5. CASE RememberOwner(g)
  <2>1. get'[g].pc = "record" /\ get'[g].id = get[g].id /\ record' = record
    BY <1>5 DEF RememberOwner, Await, DownloadsTypeOK, DownloadStates, fileVars
  <2>2. Known(get[g].id)'
    BY <1>5, <2>1 DEF RememberOwner, DownloadInv, UnderWay, Phases, Known
  <2>q. QED
    BY <1>1, <2>1, <2>2 DEF DownloadInv, UnderWay, Phases
<1>6. CASE GetRecord(g)
  <2> DEFINE f == get[g].id
  <2>1. UnderWay(g) /\ Right(g) \subseteq seen[g] /\ Known(f)
    BY <1>6 DEF GetRecord, DownloadInv, UnderWay, Phases
  <2>2. PICK reaped \in SUBSET past :
          record' = [e \in Ids |-> IF e \in reaped THEN "gone" ELSE record[e]]
    BY <1>6 DEF GetRecord
  <2>3. CASE record'[f] \in {"none", "gone"}
    <3>1. "notFound" \in Right(g)
      BY <1>0, <2>1, <2>2, <2>3 DEF Right, Known
    <3>q. QED
      BY <1>2, <1>6, <2>1, <2>3, <3>1 DEF GetRecord, Answers
  <2>4. CASE record'[f] \notin {"none", "gone"}
    <3>1. /\ record'[f] = record[f] /\ record[f] \in {"pending", "ready"}
          /\ past' = past /\ fileKey' = fileKey
      BY <1>0, <1>6, <2>1, <2>2, <2>4 DEF GetRecord, Known
    <3>2. /\ get'[g].pc = "decide" /\ get'[g].id = f /\ get'[g].page = get[g].page
          /\ get'[g].given = get[g].given /\ get'[g].key = fileKey[f]
          /\ get'[g].status = record[f]
      <4>1. get \in [Downloads -> DownloadStates]
        BY DEF Inv, DownloadsTypeOK
      <4>2. get' = [get EXCEPT ![g] = [get[g] EXCEPT
                      !.pc = "decide", !.key = fileKey[f], !.status = record[f]]]
        BY <1>6, <2>4 DEF GetRecord
      <4>q. QED
        BY <4>1, <4>2 DEF DownloadStates
    <3>3. UnderWay(g)'
      BY <3>2 DEF UnderWay, Phases
    <3>4. DecideInv(g)'
      <4>1. seen[g] \subseteq seen'[g]
        BY <1>1, <3>3
      <4>2. CASE record[f] = "pending"
        BY <2>1, <3>1, <3>2, <4>1, <4>2 DEF DecideInv, Hidden, Right
      <4>3. CASE record[f] = "ready" /\ f \in past
        BY <2>1, <3>1, <3>2, <4>1, <4>3 DEF DecideInv, Hidden, Right
      <4>4. CASE record[f] = "ready" /\ f \notin past
        <5>1. Verdict(g)' \in Right(g)
          BY <3>2, <4>4, DownloadsAssumption DEF Verdict, Right
        <5>q. QED
          BY <2>1, <3>1, <3>2, <4>1, <4>4, <5>1 DEF DecideInv
      <4>q. QED
        BY <3>1, <4>2, <4>3, <4>4
    <3>q. QED
      BY <1>1, <2>1, <3>1, <3>2, <3>3, <3>4 DEF DownloadInv, Known
  <2>q. QED
    BY <2>3, <2>4
<1>7. CASE DownloadFile(g)
  <2>1. UnderWay(g) /\ DecideInv(g) /\ Known(get[g].id)
    BY <1>7 DEF DownloadFile, DownloadInv, UnderWay, Phases
  <2>2. CASE Await(g, "fetch")
    <3>1. /\ get'[g].pc = "fetch" /\ get'[g].id = get[g].id /\ record' = record
          /\ get[g].status = "ready"
      BY <1>0, <1>7, <2>2, NoDownloadType
      DEF DownloadFile, Refuse, Answer, Await, DownloadsTypeOK, DownloadStates, fileVars
    <3>0. get \in [Downloads -> DownloadStates]
      BY DEF Inv, DownloadsTypeOK
    <3>n. \A a \in Answers : ~Refuse(g, a) /\ ~Answer(g, a)
      BY <3>0, <3>1, NoDownloadType DEF Refuse, Answer, Answers, DownloadStates
    <3>2. "served" \in seen[g]
      <4>1. /\ get[g].id \notin past
            /\ ~(get[g].key # Open /\ get[g].given \notin {Owner, get[g].key})
        BY <1>7, <3>n DEF DownloadFile, Answers
      <4>q. QED
        BY <2>1, <3>1, <4>1 DEF DecideInv, Verdict
    <3>q. QED
      BY <1>1, <2>1, <3>1, <3>2 DEF DownloadInv, FetchInv, DecideInv, UnderWay, Phases, Known
  <2>3. CASE \E a \in Answers : Answer(g, a) /\ a \in seen[g]
    BY <1>2, <2>3
  <2>q. QED
    BY <1>7, <2>1, <2>2, <2>3
    DEF DownloadFile, Refuse, DecideInv, Hidden, Verdict, Answers
<1>8. CASE FetchObject(g)
  <2>1. FetchInv(g) /\ Right(g) \subseteq seen[g]
    BY <1>8 DEF FetchObject, DownloadInv, UnderWay, Phases
  <2>2. get[g].id \notin stored => "notFound" \in Right(g)
    BY <1>0, <2>1 DEF FetchInv, FilesInv, Right
  <2>q. QED
    BY <1>2, <1>8, <2>1, <2>2 DEF FetchObject, FetchInv, Answers
<1>q. QED
  BY <1>3, <1>4, <1>5, <1>6, <1>7, <1>8 DEF Steps

-----------------------------------------------------------------------------
LEMMA InitInv == DownloadsInit => Inv
<1> SUFFICES ASSUME DownloadsInit
             PROVE  Inv
  OBVIOUS
<1>1. DownloadsTypeOK
  BY NoDownloadType DEF DownloadsInit, DownloadsTypeOK, Statuses
<1>2. FilesInv
  BY DEF DownloadsInit, FilesInv, Known
<1>3. \A g \in Downloads : ~UnderWay(g)
  BY NoDownloadType DEF DownloadsInit, UnderWay, Phases
<1>q. QED
  BY <1>1, <1>2, <1>3 DEF Inv, DownloadInv

LEMMA InvStep ==
  ASSUME Inv, [DownloadsNext]_dvars
  PROVE  /\ Inv'
         /\ \A g \in Downloads :
              UnderWay(g) /\ ~UnderWay(g)' => get'[g].pc \in seen[g]
<1>0. DownloadsTypeOK'
  BY TypeStep DEF Inv
<1>1. CASE UNCHANGED dvars
  BY <1>0, <1>1 DEF Inv, dvars, fileVars, FilesInv, Known, DownloadInv, UnderWay, Right,
                    DecideInv, FetchInv, Hidden, Verdict
<1>2. CASE FileStep /\ Noted
  <2>1. FilesInv' /\ Ages
    BY <1>2, FileStepSafe DEF Inv
  <2>2. get' = get
    BY <1>2 DEF FileStep
  <2>3. \A g \in Downloads : DownloadInv(g)'
    BY <1>0, <1>2, <2>1, <2>2, Waits
  <2>q. QED
    BY <1>0, <2>1, <2>2, <2>3 DEF Inv, UnderWay
<1>3. CASE DownloadStep /\ Noted
  <2>1. PICK g \in Downloads : Steps(g)
    BY <1>3 DEF DownloadStep, Steps
  <2>2. FilesInv' /\ Ages /\ \A h \in Downloads \ {g} : get'[h] = get[h]
    BY <2>1, DownloadStepSafe
  <2>3. /\ DownloadInv(g)'
        /\ UnderWay(g) /\ ~UnderWay(g)' => get'[g].pc \in seen[g]
    BY <1>0, <1>3, <2>1, Moves
  <2>4. \A h \in Downloads \ {g} :
          /\ DownloadInv(h)'
          /\ UnderWay(h) => UnderWay(h)'
    <3> SUFFICES ASSUME NEW h \in Downloads \ {g}
                 PROVE  DownloadInv(h)' /\ (UnderWay(h) => UnderWay(h)')
      OBVIOUS
    <3>1. DownloadInv(h)'
      BY <1>0, <1>3, <2>2, Waits
    <3>q. QED
      BY <2>2, <3>1 DEF UnderWay
  <2>q. QED
    BY <1>0, <2>2, <2>3, <2>4 DEF Inv
<1>q. QED
  BY <1>1, <1>2, <1>3 DEF DownloadsNext

THEOREM Invariant == DownloadsSpec => []Inv
BY InitInv, InvStep, PTL DEF DownloadsSpec

\* However uploads, deletions, expiry, changes of keys and other downloads
\* interleave with the places a download visits, its answer was right at some
\* moment while it was under way.
THEOREM AnswersLinearize == DownloadsSpec => DownloadsLinearize
<1>1. Inv /\ [DownloadsNext]_dvars =>
        [\A g \in Downloads :
           UnderWay(g) /\ ~UnderWay(g)' => get'[g].pc \in seen[g]]_dvars
  BY InvStep
<1>q. QED
  BY <1>1, Invariant, PTL DEF DownloadsSpec, DownloadsLinearize

\* The cache of owners never grows past its bound.
THEOREM OwnersStayBounded == DownloadsSpec => []OwnersBounded
<1> DEFINE Bounded == owners \subseteq Ids /\ IsFiniteSet(owners) /\ OwnersBounded
<1>1. DownloadsInit => Bounded
  BY FS_EmptySet, DownloadsAssumption DEF DownloadsInit, OwnersBounded
<1>2. ASSUME Inv, Bounded, [DownloadsNext]_dvars
      PROVE  Bounded'
  <2>1. CASE owners' \subseteq owners
    <3>1. IsFiniteSet(owners') /\ Cardinality(owners') <= Cardinality(owners)
      BY <1>2, <2>1, FS_Subset
    <3>q. QED
      BY <1>2, <2>1, <3>1, FS_CardinalityType, DownloadsAssumption DEF OwnersBounded
  <2>2. ASSUME NEW g \in Downloads, RememberOwner(g)
        PROVE  Bounded'
    <3>1. PICK left \in SUBSET owners :
            Cardinality(left) < OwnerMax /\ owners' = left \cup {get[g].id}
      BY <2>2 DEF RememberOwner
    <3>2. IsFiniteSet(left)
      BY <1>2, FS_Subset
    <3>3. /\ IsFiniteSet(owners')
          /\ Cardinality(owners') = Cardinality(left)
               \/ Cardinality(owners') = Cardinality(left) + 1
      BY <3>1, <3>2, FS_AddElement
    <3>4. get[g].id \in Ids
      BY <1>2 DEF Inv, DownloadsTypeOK, DownloadStates
    <3>q. QED
      BY <1>2, <3>1, <3>2, <3>3, <3>4, FS_CardinalityType, DownloadsAssumption
      DEF OwnersBounded
  <2>3. \/ owners' \subseteq owners
        \/ \E g \in Downloads : RememberOwner(g)
    BY <1>2 DEF DownloadsNext, FileStep, DownloadStep, dvars, DownloadArrives,
       LookupFile, GetRecord, Forget, DownloadFile, FetchObject
  <2>q. QED
    BY <2>1, <2>2, <2>3
<1>3. Bounded => OwnersBounded
  OBVIOUS
<1>q. QED
  BY <1>1, <1>2, <1>3, Invariant, PTL DEF DownloadsSpec
=============================================================================
