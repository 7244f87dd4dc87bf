---------------------------- MODULE FileDownloads ----------------------------
(***************************************************************************)
(* Downloads of temporary files by id (worker/src/files-routes.ts): one     *)
(* isolate with its cache of owners, the index of ids in the registry       *)
(* (worker/src/registry-do.ts), the records of the owners' objects          *)
(* (worker/src/files-do.ts) and the bucket.                                 *)
(*                                                                          *)
(* A download goes to one place after another and awaits each: the index,   *)
(* unless the owner is cached, the record, the credentials, the object.     *)
(* Meanwhile the file is uploaded, protected, deleted, and expires.  The    *)
(* life of a file is what FileStore shows of it to a download, with calls   *)
(* that do not fail.  A page decides like the API and fetches no object.    *)
(***************************************************************************)
EXTENDS Naturals, FiniteSets

CONSTANTS
  Ids,        \* ids of files, one owner each
  Downloads,  \* downloads under way at one time
  FileKeys,   \* protection keys
  Open,       \* no key: of a file, and in a request
  Owner,      \* the credentials of the owner, in a request
  OwnerMax    \* OWNER_CACHE_MAX

ASSUME DownloadsAssumption ==
  /\ Ids # {} /\ IsFiniteSet(Ids)
  /\ Open \notin FileKeys
  /\ Owner \notin FileKeys \cup {Open}
  /\ OwnerMax \in Nat \ {0}

VARIABLES
  record,   \* per file: its status; "pending" has its id indexed
  fileKey,  \* FileRecord.key
  stored,   \* objects in the bucket
  listed,   \* RegistryDO.fileIndex
  past,     \* files past their expiresAt
  owners,   \* ownerCache: the ids whose owner it knows
  get,      \* the downloads
  seen      \* history: the answers that were right since the download arrived

fileVars == <<record, fileKey, stored, listed, past>>
dvars == <<fileVars, owners, get, seen>>

Answers == {"served", "unauthorized", "notFound", "incomplete", "expired"}
Phases == {"lookup", "remember", "record", "decide", "fetch"}
Statuses == {"none", "reserved", "pending", "ready", "gone"}
DownloadStates ==
  [pc : Answers \cup Phases \cup {"idle"}, id : Ids, page : BOOLEAN,
   given : FileKeys \cup {Open, Owner}, key : FileKeys \cup {Open}, status : Statuses]
NoDownload == [pc |-> "idle", id |-> CHOOSE f \in Ids : TRUE, page |-> FALSE,
               given |-> Open, key |-> Open, status |-> "none"]
UnderWay(g) == get[g].pc \in Phases

DownloadsTypeOK ==
  /\ record \in [Ids -> Statuses]
  /\ fileKey \in [Ids -> FileKeys \cup {Open}]
  /\ stored \subseteq Ids
  /\ listed \subseteq Ids
  /\ past \subseteq Ids
  /\ owners \subseteq Ids
  /\ get \in [Downloads -> DownloadStates]
  /\ seen \in [Downloads -> SUBSET Answers]

DownloadsInit ==
  /\ record = [f \in Ids |-> "none"]
  /\ fileKey = [f \in Ids |-> Open]
  /\ stored = {}
  /\ listed = {}
  /\ past = {}
  /\ owners = {}
  /\ get = [g \in Downloads |-> NoDownload]
  /\ seen = [g \in Downloads |-> {}]

-----------------------------------------------------------------------------
(* The life of a file.                                                      *)

\* The object keeps a record of the file.
Kept(f) == record[f] \in {"reserved", "pending", "ready"}

\* The steps of uploadFile: reserve, indexFile, the body and complete.
ReserveFile(f, key) ==
  /\ record[f] = "none"
  /\ record' = [record EXCEPT ![f] = "reserved"]
  /\ fileKey' = [fileKey EXCEPT ![f] = key]
  /\ UNCHANGED <<stored, listed, past>>

FileIndexed(f) ==
  /\ record[f] = "reserved"
  /\ record' = [record EXCEPT ![f] = "pending"]
  /\ listed' = listed \cup {f}
  /\ UNCHANGED <<fileKey, stored, past>>

FileCompleted(f) ==
  /\ record[f] = "pending"
  /\ record' = [record EXCEPT ![f] = "ready"]
  /\ stored' = stored \cup {f}
  /\ UNCHANGED <<fileKey, listed, past>>

\* PATCH and setKey.
SetKey(f, key) ==
  /\ Kept(f)
  /\ fileKey' = [fileKey EXCEPT ![f] = key]
  /\ UNCHANGED <<record, stored, listed, past>>

\* A record leaves the object: DELETE, abort, and reap of an expired file or an
\* abandoned reservation.  Its object and, after a DELETE, its id follow.
FileRemoved(f) ==
  /\ Kept(f)
  /\ record' = [record EXCEPT ![f] = "gone"]
  /\ UNCHANGED <<fileKey, stored, listed, past>>

ObjectDeleted(f) ==
  /\ record[f] = "gone"
  /\ stored' = stored \ {f}
  /\ UNCHANGED <<record, fileKey, listed, past>>

FileUnindexed(f) ==
  /\ record[f] = "gone"
  /\ listed' = listed \ {f}
  /\ UNCHANGED <<record, fileKey, stored, past>>

FileExpires(f) ==
  /\ Kept(f)
  /\ past' = past \cup {f}
  /\ UNCHANGED <<record, fileKey, stored, listed>>

\* The registry starts again and reads the entries that have not expired.
IndexRebuilt ==
  /\ listed' = listed \ past
  /\ UNCHANGED <<record, fileKey, stored, past>>

FileStep ==
  /\ \/ \E f \in Ids :
          \/ \E key \in FileKeys \cup {Open} : ReserveFile(f, key) \/ SetKey(f, key)
          \/ FileIndexed(f) \/ FileCompleted(f)
          \/ FileRemoved(f) \/ ObjectDeleted(f) \/ FileUnindexed(f)
          \/ FileExpires(f)
     \/ IndexRebuilt
  /\ UNCHANGED <<owners, get>>

-----------------------------------------------------------------------------
(* Downloads.                                                               *)

Forget(f) == owners' = owners \ {f}

Answer(g, answer) == get' = [get EXCEPT ![g] = [NoDownload EXCEPT !.pc = answer]]

Await(g, phase) == get' = [get EXCEPT ![g].pc = phase]

\* On a page a refusal reads "not found"; a missing key is asked for.
Refuse(g, answer) == Answer(g, IF get[g].page THEN "notFound" ELSE answer)

\* A page takes no key, only the owner's credentials.
DownloadArrives(g, f, page, given) ==
  /\ ~UnderWay(g)
  /\ page => given \notin FileKeys
  /\ get' = [get EXCEPT ![g] = [NoDownload EXCEPT
       !.pc = IF f \in owners THEN "record" ELSE "lookup",
       !.id = f, !.page = page, !.given = given]]
  /\ UNCHANGED <<fileVars, owners>>

\* GET /file-lookup: an expired entry is dropped.
LookupFile(g) ==
  /\ get[g].pc = "lookup"
  /\ LET f == get[g].id
     IN /\ IF f \in listed \ past THEN Await(g, "remember") ELSE Answer(g, "notFound")
        /\ listed' = listed \ ({f} \cap past)
  /\ UNCHANGED <<record, fileKey, stored, past, owners>>

\* rememberOwner: old entries go first, then the oldest while the cache is full.
\* Which ones they are is left open.
RememberOwner(g) ==
  /\ get[g].pc = "remember"
  /\ \E left \in SUBSET owners :
       Cardinality(left) < OwnerMax /\ owners' = left \cup {get[g].id}
  /\ Await(g, "record")
  /\ UNCHANGED fileVars

\* Mutant: a download takes over the record that another one has read.
GetRecordShared(g) ==
  /\ get[g].pc = "record"
  /\ \E h \in Downloads :
       LET f == get[g].id
           fresh == get[h].id # f \/ get[h].status # "ready"
           answer == IF fresh THEN [key |-> fileKey[f], status |-> record[f]] ELSE get[h]
       IN IF answer.status \in {"none", "gone"}
          THEN Forget(f) /\ Answer(g, "notFound")
          ELSE /\ get' = [get EXCEPT ![g].pc = "decide", ![g].key = answer.key,
                                     ![g].status = answer.status]
               /\ UNCHANGED owners
  /\ UNCHANGED fileVars

\* GET /get of the owner's object, which first reaps what expired before it came.
GetRecord(g) ==
  /\ get[g].pc = "record"
  /\ \E reaped \in SUBSET past :
       record' = [f \in Ids |-> IF f \in reaped THEN "gone" ELSE record[f]]
  /\ LET f == get[g].id
     IN IF record'[f] \in {"none", "gone"}
        THEN Forget(f) /\ Answer(g, "notFound")
        ELSE /\ get' = [get EXCEPT ![g] = [@ EXCEPT !.pc = "decide", !.key = fileKey[f],
                                                    !.status = record[f]]]
             /\ UNCHANGED owners
  /\ UNCHANGED <<fileKey, stored, listed, past>>

\* downloadFile with the record and the credentials at hand.
DownloadFile(g) ==
  /\ get[g].pc = "decide"
  /\ \/ get[g].status # "ready" /\ Refuse(g, "incomplete")
     \/ get[g].status = "ready" /\ get[g].id \in past /\ Refuse(g, "expired")
     \/ /\ get[g].status = "ready" /\ get[g].id \notin past
        /\ IF get[g].key # Open /\ get[g].given \notin {Owner, get[g].key}
           THEN Answer(g, "unauthorized")
           ELSE IF get[g].page THEN Answer(g, "served") ELSE Await(g, "fetch")
  /\ UNCHANGED <<fileVars, owners>>

FetchObject(g) ==
  /\ get[g].pc = "fetch"
  /\ Answer(g, IF get[g].id \in stored THEN "served" ELSE "notFound")
  /\ UNCHANGED <<fileVars, owners>>

DownloadStep ==
  \E g \in Downloads :
    \/ \E f \in Ids, page \in BOOLEAN, given \in FileKeys \cup {Open, Owner} :
         DownloadArrives(g, f, page, given)
    \/ LookupFile(g) \/ RememberOwner(g) \/ GetRecord(g) \/ DownloadFile(g)
    \/ FetchObject(g)

-----------------------------------------------------------------------------
\* The answers that the state of the file makes right for a download.
Right(g) ==
  LET f == get[g].id
      hidden(answer) == IF get[g].page THEN "notFound" ELSE answer
      admits == fileKey[f] = Open \/ get[g].given \in {Owner, fileKey[f]}
  IN CASE record[f] \notin {"pending", "ready"} -> {"notFound"}
       [] record[f] = "pending" ->
            {hidden("incomplete")} \cup IF f \in past THEN {"notFound"} ELSE {}
       [] record[f] = "ready" /\ f \in past -> {"notFound", hidden("expired")}
       [] record[f] = "ready" /\ f \notin past ->
            {IF admits THEN "served" ELSE "unauthorized"}

Noted ==
  seen' = [g \in Downloads |->
             IF UnderWay(g)' THEN seen[g] \cup Right(g)' ELSE {}]

DownloadsNext == (FileStep \/ DownloadStep) /\ Noted

DownloadsSpec == DownloadsInit /\ [][DownloadsNext]_dvars

\* The cache of owners stays within its bound, however many lookups insert.
OwnersBounded == Cardinality(owners) <= OwnerMax

\* Every answer is the one that the file called for at some moment while the
\* download was under way, although its owner may come from the cache and its
\* record, key and object are read one after another: a stored file is found,
\* a deleted one is not, and the key is one the file had meanwhile.
DownloadsLinearize ==
  [][\A g \in Downloads :
       UnderWay(g) /\ ~UnderWay(g)' => get'[g].pc \in seen[g]]_dvars
=============================================================================
