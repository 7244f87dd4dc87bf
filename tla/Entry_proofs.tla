----------------------------- MODULE Entry_proofs -----------------------------
(***************************************************************************)
(* Proofs about the gateway entry, for any number of isolates, devices,     *)
(* requests and clients, any life of a copy and any limit: the registry     *)
(* behind the gates and the copies the gates decide from (DeviceAccess),    *)
(* the limiter in front of them (RateLimiter), the budget the registry      *)
(* keeps (R2Budget), and their composition with FileDownloads (MCEntry).    *)
(*                                                                          *)
(* The gates rest on one measure: calm, the time since the registry last    *)
(* changed, bounds how old whatever differs from the registry can be, for   *)
(* copies, for answers on their way and for decisions in progress.  The     *)
(* limiter rests on counters that are never swept: each says what passed    *)
(* since its window began, and what passed before it met one window only.   *)
(***************************************************************************)
EXTENDS MCEntry, FileDownloads_proofs, SumTheorems

-----------------------------------------------------------------------------
(* Tokens and disabled devices.                                             *)

AdminOps == {"upsert", "disable", "enable", "remove"}

\* An administrator's request that is under way.
AdminOK ==
  admin.pc = "sent" =>
    /\ admin.op \in AdminOps
    /\ admin.device \in Devices
    /\ admin.token \in Tokens \cup {None}
    /\ admin.op = "upsert" => admin.token # None

\* What is stored is what is in memory.
Saved ==
  /\ tokens \in Maps
  /\ saved = [tokens |-> tokens, disabled |-> disabled]

RegistryInv ==
  /\ Saved
  /\ AdminOK
  /\ changes \in Nat

\* What the constructor rebuilds has the types of tokens and disabled set.
LEMMA RebuiltType ==
  ASSUME NEW left \in Maps
  PROVE  Rebuilt(left) \in Maps
BY ConstantsAssumption DEF Rebuilt, Overlay, Maps

\* A registry that holds something keeps every token but the virtual ones.
LEMMA RebuiltKeeps ==
  ASSUME NEW left \in Maps, left # Empty,
         NEW d \in Devices, VirtualSeed[d] = None
  PROVE  Rebuilt(left)[d] = left[d]
BY DEF Rebuilt, Overlay, Maps

\* A restart ends with storage and memory the same, whatever was stored.
LEMMA RestartedSaves ==
  ASSUME NEW map \in Maps, NEW set, Restarted([tokens |-> map, disabled |-> set])
  PROVE  Saved'
BY RebuiltType DEF Restarted, Saved

\* The registry starts with storage and memory the same.
LEMMA RegistryInit == Init => RegistryInv
<1> SUFFICES ASSUME Init
             PROVE  RegistryInv
  OBVIOUS
<1>1. Saved
  BY RebuiltType, ConstantsAssumption DEF Init, Saved, Maps
<1>q. QED
  BY <1>1 DEF Init, RegistryInv, AdminOK, AdminRest

\* The steps that leave the registry alone.
LEMMA Elsewhere ==
  ASSUME Next, ~AdminApplied, ~Restart, ~RemoveInterrupted
  PROVE  /\ UNCHANGED registry
         /\ AdminOK => AdminOK'
<1>1. CASE Decision
  BY <1>1 DEF Decision, Unauthorized, DisabledCached, DisabledArrives, FilesDecision,
              registry, AdminOK
<1>2. CASE OtherStep
  <2>1. CASE \E i \in Isolates \cup {None}, op \in AdminOps,
                d \in Devices, t \in Tokens \cup {None} : AdminSends(i, op, d, t)
    BY <2>1 DEF AdminSends, registry, AdminOK
  <2>2. CASE Tick
    BY <2>2 DEF Tick, registry, AdminOK
  <2>3. CASE \E r \in Requests :
               \/ \E i \in Isolates, a \in Apis, d \in Devices, t \in Tokens :
                    Arrive(r, i, a, d, t)
               \/ AnswerMap(r) \/ AnswerDisabled(r)
               \/ MapArrives(r) \/ AskFresh(r) \/ AskDisabled(r)
    BY <2>3 DEF Arrive, AnswerMap, AnswerDisabled, MapArrives, AskFresh, AskDisabled,
                registry, AdminOK
  <2>q. QED
    BY <1>2, <2>1, <2>2, <2>3 DEF OtherStep, AdminOps
<1>q. QED
  BY <1>1, <1>2 DEF Next

\* Every step of the registry, a restart included, leaves them the same.
LEMMA RegistryStep ==
  ASSUME RegistryInv, [Next]_vars
  PROVE  /\ RegistryInv'
         /\ changes' = changes /\ saved.tokens # Empty =>
              /\ \A d \in Devices : VirtualSeed[d] = None => tokens'[d] = tokens[d]
              /\ disabled' = disabled
<1> USE DEF RegistryInv
<1>1. CASE UNCHANGED registry /\ AdminOK'
  BY <1>1 DEF Saved, registry
<1>2. CASE AdminApplied
  <2>1. changes' = changes + 1 /\ AdminOK'
    BY <1>2 DEF AdminApplied, AdminOK, AdminRest
  <2>2. \/ Upserted(admin.device, admin.token) \/ Removed(admin.device)
        \/ StateSet(admin.device, TRUE) \/ StateSet(admin.device, FALSE)
    BY <1>2 DEF AdminApplied, AdminOK, AdminOps
  <2>3. admin.device \in Devices /\ admin.token \in Tokens \cup {None}
    BY <1>2 DEF AdminApplied, AdminOK
  <2>4. Saved'
    BY <2>2, <2>3 DEF Upserted, StateSet, Removed, Saved, Maps
  <2>q. QED
    BY <2>1, <2>4
<1>3. CASE Restart
  <2>1. Restarted([tokens |-> tokens, disabled |-> disabled]) /\ tokens \in Maps
    BY <1>3 DEF Restart, Saved
  <2>2. Saved'
    BY <2>1, RestartedSaves
  <2>3. saved.tokens # Empty =>
          /\ \A d \in Devices : VirtualSeed[d] = None => tokens'[d] = tokens[d]
          /\ disabled' = disabled
    BY <2>1, RebuiltKeeps DEF Restarted, Saved
  <2>q. QED
    BY <1>3, <2>2, <2>3 DEF Restart, AdminOK
<1>4. CASE RemoveInterrupted
  <2>1. changes' = changes + 1 /\ AdminOK'
    BY <1>4 DEF RemoveInterrupted, AdminOK, AdminRest
  <2> DEFINE left == [tokens EXCEPT ![admin.device] = None]
  <2>2. left \in Maps
    BY DEF Saved, Maps
  <2>3. Restarted([tokens |-> left, disabled |-> disabled])
    BY <1>4 DEF RemoveInterrupted, RemoveCut, Saved
  <2>4. Saved'
    BY <2>2, <2>3, RestartedSaves
  <2>q. QED
    BY <2>1, <2>4
<1>5. CASE UNCHANGED vars
  BY <1>5 DEF vars, Saved, AdminOK
<1>q. QED
  BY <1>1, <1>2, <1>3, <1>4, <1>5, Elsewhere

\* Storage and memory of the registry agree at every moment at which it serves
\* a call, also after it restarted between the writes of a removal.
THEOREM StorageAgrees == Spec => []Saved
BY RegistryInit, RegistryStep, PTL DEF Spec, RegistryInv

\* For any devices, requests and restarts: only an administrator changes a token
\* or the disabled set.
THEOREM RestartKeepsRegistry == Spec => RegistryKept
<1>1. RegistryInv /\ [Next]_vars =>
        [changes' = changes /\ saved.tokens # Empty =>
           /\ \A d \in Devices : VirtualSeed[d] = None => tokens'[d] = tokens[d]
           /\ disabled' = disabled]_vars
  BY RegistryStep
<1>2. RegistryInv /\ [Next]_vars => RegistryInv'
  BY RegistryStep
<1>q. QED
  BY <1>1, <1>2, RegistryInit, PTL DEF Spec, RegistryKept

-----------------------------------------------------------------------------
(* The gates.  calm says how old a change can be that a copy, an answer on   *)
(* its way or a decision in progress has not seen; each of them is bounded   *)
(* by less than Settling.                                                    *)

MapCopy == [map : Maps, age : 0 .. Ttl - 1]
SetCopy == [set : SUBSET Devices, age : 0 .. Ttl - 1]
Request == [pc : {"map"} \cup Waiting, at : Isolates, api : Apis, device : Devices,
            given : Tokens, map : Maps, set : SUBSET Devices, wait : 0 .. Latency,
            due : BOOLEAN]

\* A copy that differs from the registry, which holds the tokens toks and the
\* disabled set dis and is calm since n ticks, was asked for before the change.
MapFollows(copy, toks, n) ==
  copy # None /\ copy.map # toks => n <= copy.age + Latency
SetFollows(copy, dis, n) ==
  copy # None /\ copy.set # dis => n <= copy.age + Latency

\* The same for what a request has read, and for what was decided from it.
RequestFollows(q, toks, dis, n) ==
  /\ q.pc = "map" /\ q.map # toks => n <= Ttl - 1 + Latency
  /\ q.pc \in {"gotMap", "gotFresh"} /\ q.map # toks => n <= q.wait
  /\ q.pc \in {"askDisabled", "gotDisabled"} /\ Refused(toks, q.device, q.given) =>
       n <= Ttl - 1 + Latency + q.wait
  /\ q.pc = "gotDisabled" /\ q.set # dis => n <= q.wait

\* Fresh reads and the disabled set are asked for by the relay routes alone.
ForRelay(q) ==
  q.pc \in {"askFresh", "gotFresh", "askDisabled", "gotDisabled"} => q.api = "relay"

CopiesFollow ==
  /\ mapCache \in [Isolates \X Apis -> MapCopy \cup {None}]
  /\ disabledCache \in [Isolates -> SetCopy \cup {None}]
  /\ \A c \in Isolates \X Apis : MapFollows(mapCache[c], tokens, calm)
  /\ \A i \in Isolates : SetFollows(disabledCache[i], disabled, calm)

RequestsFollow ==
  /\ req \in [Requests -> Request \cup {NoRequest}]
  /\ \A r \in Requests : ForRelay(req[r]) /\ RequestFollows(req[r], tokens, disabled, calm)

GatesInv ==
  /\ disabled \subseteq Devices
  /\ calm \in 0 .. Settling
  /\ CopiesFollow
  /\ RequestsFollow

\* Nothing has to follow a registry that changed just now.
LEMMA JustChanged ==
  ASSUME NEW toks, NEW dis
  PROVE  /\ \A copy \in MapCopy \cup {None} : MapFollows(copy, toks, 0)
         /\ \A copy \in SetCopy \cup {None} : SetFollows(copy, dis, 0)
         /\ \A q \in Request \cup {NoRequest} : RequestFollows(q, toks, dis, 0)
<1> USE ConstantsAssumption
<1>1. \A copy \in MapCopy : MapFollows(copy, toks, 0)
  BY DEF MapFollows, MapCopy
<1>2. \A copy \in SetCopy : SetFollows(copy, dis, 0)
  BY DEF SetFollows, SetCopy
<1>3. ASSUME NEW q \in Request
      PROVE  RequestFollows(q, toks, dis, 0)
  <2>1. q.wait \in Nat
    BY DEF Request
  <2>q. QED
    BY <2>1 DEF RequestFollows
<1>4. /\ MapFollows(None, toks, 0) /\ SetFollows(None, dis, 0)
      /\ RequestFollows(NoRequest, toks, dis, 0)
  BY DEF MapFollows, SetFollows, RequestFollows, NoRequest
<1>q. QED
  BY <1>1, <1>2, <1>3, <1>4

\* Copies that a step leaves alone.
LEMMA CopiesStay ==
  ASSUME GatesInv, UNCHANGED <<mapCache, disabledCache>>,
         \/ UNCHANGED <<tokens, disabled, calm>>
         \/ calm' = 0
  PROVE  CopiesFollow'
<1> USE DEF GatesInv, CopiesFollow
<1>1. CASE UNCHANGED <<tokens, disabled, calm>>
  BY <1>1
<1>2. CASE calm' = 0
  BY <1>2, JustChanged
<1>q. QED
  BY <1>1, <1>2

\* A step of one request, which then is q.
LEMMA OneRequest ==
  ASSUME GatesInv, UNCHANGED <<tokens, disabled>>, calm' = calm \/ calm' = 0,
         NEW r \in Requests, NEW q \in Request \cup {NoRequest},
         req' = [req EXCEPT ![r] = q],
         ForRelay(q), RequestFollows(q, tokens, disabled, calm')
  PROVE  RequestsFollow'
<1> USE DEF GatesInv, RequestsFollow
<1>1. req' \in [Requests -> Request \cup {NoRequest}]
  OBVIOUS
<1>2. ASSUME NEW s \in Requests
      PROVE  ForRelay(req'[s]) /\ RequestFollows(req'[s], tokens, disabled, calm')
  <2>1. CASE s = r
    BY <2>1
  <2>2. CASE s # r
    <3>1. req'[s] = req[s] /\ req[s] \in Request \cup {NoRequest}
      BY <2>2
    <3>2. CASE calm' = calm
      BY <3>1, <3>2
    <3>3. CASE calm' = 0
      BY <3>1, <3>3, JustChanged
    <3>q. QED
      BY <3>2, <3>3
  <2>q. QED
    BY <2>1, <2>2
<1>q. QED
  BY <1>1, <1>2

\* A request under way, and the numbers of its bounds.
LEMMA RequestUnderWay ==
  ASSUME GatesInv, NEW r \in Requests, req[r].pc # "idle"
  PROVE  /\ req[r] \in Request
         /\ ForRelay(req[r]) /\ RequestFollows(req[r], tokens, disabled, calm)
         /\ calm \in Nat /\ req[r].wait \in Nat /\ req[r].wait <= Latency
         /\ Ttl \in Nat /\ Ttl >= 1 /\ Latency \in Nat
<1>1. req[r] \in Request
  BY DEF GatesInv, RequestsFollow, NoRequest
<1>2. ForRelay(req[r]) /\ RequestFollows(req[r], tokens, disabled, calm)
  BY DEF GatesInv, RequestsFollow
<1>3. calm \in Nat /\ Ttl \in Nat /\ Ttl >= 1 /\ Latency \in Nat
  BY ConstantsAssumption DEF GatesInv, Settling
<1>4. req[r].wait \in 0 .. Latency
  BY <1>1 DEF Request
<1>q. QED
  BY <1>1, <1>2, <1>3, <1>4

\* A request arrives: the copy it finds is younger than Ttl.
LEMMA ArriveFollows ==
  ASSUME GatesInv, tokens \in Maps,
         NEW r \in Requests, NEW i \in Isolates, NEW a \in Apis, NEW d \in Devices,
         NEW t \in Tokens, Arrive(r, i, a, d, t)
  PROVE  GatesInv'
<1> DEFINE copy == mapCache[<<i, a>>]
           q == [pc |-> IF copy # None THEN "map" ELSE "askMap",
                 at |-> i, api |-> a, device |-> d, given |-> t,
                 map |-> IF copy # None THEN copy.map ELSE Empty,
                 set |-> {}, wait |-> 0,
                 due |-> /\ a = "relay" /\ known[d] = "new" /\ t = tokens[d]]
<1>1. /\ req' = [req EXCEPT ![r] = q]
      /\ UNCHANGED <<tokens, disabled, mapCache, disabledCache, calm>>
  BY DEF Arrive, registry
<1>2. copy \in MapCopy \cup {None} /\ MapFollows(copy, tokens, calm)
  BY DEF GatesInv, CopiesFollow
<1>3. calm \in Nat
  BY ConstantsAssumption DEF GatesInv, Settling
<1>4. q \in Request
  <2>1. copy # None => copy.map \in Maps
    BY <1>2 DEF MapCopy
  <2>2. Empty \in Maps /\ {} \in SUBSET Devices /\ 0 \in 0 .. Latency
    BY ConstantsAssumption DEF Empty, Maps
  <2> HIDE DEF copy
  <2>q. QED
    BY <2>1, <2>2 DEF Request, Waiting
<1>5. ForRelay(q) /\ RequestFollows(q, tokens, disabled, calm')
  <2>1. copy # None => copy.age \in 0 .. Ttl - 1
    BY <1>2 DEF MapCopy
  <2> HIDE DEF copy
  <2>q. QED
    BY <1>1, <1>2, <1>3, <2>1, ConstantsAssumption DEF ForRelay, RequestFollows, MapFollows
<1> HIDE DEF q, copy
<1>6. RequestsFollow'
  BY <1>1, <1>4, <1>5, OneRequest
<1>7. CopiesFollow'
  BY <1>1, CopiesStay
<1>q. QED
  BY <1>1, <1>6, <1>7 DEF GatesInv

\* What leaves copies and registry alone and moves one request to another place
\* of its own.
LEMMA CallFollows ==
  ASSUME GatesInv, tokens \in Maps, NEW r \in Requests,
         AnswerMap(r) \/ AnswerDisabled(r) \/ AskFresh(r) \/ AskDisabled(r)
  PROVE  GatesInv'
<1>1. /\ UNCHANGED <<tokens, disabled, mapCache, disabledCache>>
      /\ calm' = calm \/ calm' = 0
      /\ req[r].pc # "idle"
  BY DEF AnswerMap, AnswerDisabled, AskFresh, AskDisabled, registry, Resolved
<1>2. CopiesFollow' /\ calm' \in 0 .. Settling
  BY <1>1, CopiesStay, ConstantsAssumption DEF GatesInv, Settling
<1>3. /\ req[r] \in Request
      /\ ForRelay(req[r]) /\ RequestFollows(req[r], tokens, disabled, calm)
      /\ calm \in Nat /\ req[r].wait \in Nat /\ req[r].wait <= Latency
      /\ Ttl \in Nat /\ Ttl >= 1 /\ Latency \in Nat
  BY <1>1, RequestUnderWay
<1>4. Empty \in Maps /\ {} \in SUBSET Devices /\ 0 \in 0 .. Latency
  BY <1>3 DEF Empty, Maps
<1>5. ASSUME NEW q \in Request, req' = [req EXCEPT ![r] = q],
             ForRelay(q), RequestFollows(q, tokens, disabled, calm')
      PROVE  GatesInv'
  BY <1>1, <1>2, <1>5, OneRequest DEF GatesInv
<1>6. CASE AnswerMap(r)
  <2>1. PICK fails \in BOOLEAN :
          /\ req' = [req EXCEPT ![r].pc = IF @ = "askMap" THEN "gotMap" ELSE "gotFresh",
                                ![r].map = IF fails THEN Empty ELSE tokens]
          /\ calm' = IF fails THEN 0 ELSE calm
    BY <1>6 DEF AnswerMap
  <2> DEFINE q == [req[r] EXCEPT !.pc = IF @ = "askMap" THEN "gotMap" ELSE "gotFresh",
                                 !.map = IF fails THEN Empty ELSE tokens]
  <2>2. req' = [req EXCEPT ![r] = q]
    BY <2>1
  <2>3. q \in Request
    BY <1>3, <1>4 DEF Request, Waiting
  <2>4. ForRelay(q) /\ RequestFollows(q, tokens, disabled, calm')
    BY <1>3, <1>6, <2>1 DEF ForRelay, RequestFollows, AnswerMap, Request
  <2> HIDE DEF q
  <2>q. QED
    BY <1>5, <2>2, <2>3, <2>4
<1>7. CASE AnswerDisabled(r)
  <2>1. PICK fails \in BOOLEAN :
          /\ req' = [req EXCEPT ![r].pc = "gotDisabled",
                                ![r].set = IF fails THEN {} ELSE disabled]
          /\ calm' = IF fails THEN 0 ELSE calm
    BY <1>7 DEF AnswerDisabled
  <2> DEFINE q == [req[r] EXCEPT !.pc = "gotDisabled", !.set = IF fails THEN {} ELSE disabled]
  <2>2. req' = [req EXCEPT ![r] = q]
    BY <2>1
  <2>3. q \in Request
    BY <1>3, <1>4 DEF Request, Waiting, GatesInv
  <2>4. ForRelay(q) /\ RequestFollows(q, tokens, disabled, calm')
    BY <1>3, <1>7, <2>1 DEF ForRelay, RequestFollows, AnswerDisabled, Request
  <2> HIDE DEF q
  <2>q. QED
    BY <1>5, <2>2, <2>3, <2>4
<1>8. CASE AskFresh(r)
  <2> DEFINE q == [req[r] EXCEPT !.pc = "askFresh", !.wait = 0]
  <2>1. req' = [req EXCEPT ![r] = q] /\ calm' = calm
    BY <1>8 DEF AskFresh
  <2>2. q \in Request
    BY <1>3, <1>4 DEF Request, Waiting
  <2>3. ForRelay(q) /\ RequestFollows(q, tokens, disabled, calm')
    BY <1>3, <1>8, <2>1 DEF ForRelay, RequestFollows, AskFresh, Request
  <2> HIDE DEF q
  <2>q. QED
    BY <1>5, <2>1, <2>2, <2>3
<1>9. CASE AskDisabled(r)
  <2> DEFINE q == [req[r] EXCEPT !.pc = "askDisabled", !.map = Empty, !.wait = 0]
  <2>1. req' = [req EXCEPT ![r] = q] /\ calm' = calm
    BY <1>9 DEF AskDisabled
  <2>2. q \in Request
    BY <1>3, <1>4 DEF Request, Waiting
  <2>3. /\ req[r].pc \in {"map", "gotFresh"} /\ req[r].api = "relay"
        /\ ~Refused(req[r].map, req[r].device, req[r].given)
    BY <1>9 DEF AskDisabled, Resolved
  <2>4. Refused(tokens, req[r].device, req[r].given) => calm <= Ttl - 1 + Latency
    BY <1>3, <2>3 DEF RequestFollows
  <2>5. ForRelay(q) /\ RequestFollows(q, tokens, disabled, calm')
    BY <1>3, <2>1, <2>3, <2>4 DEF ForRelay, RequestFollows, Request
  <2> HIDE DEF q
  <2>q. QED
    BY <1>5, <2>1, <2>2, <2>5
<1>q. QED
  BY <1>6, <1>7, <1>8, <1>9

\* The answer to a first read: the isolate keeps a copy of it.
LEMMA MapArrivesFollows ==
  ASSUME GatesInv, NEW r \in Requests, MapArrives(r)
  PROVE  GatesInv'
<1>1. /\ UNCHANGED <<tokens, disabled, disabledCache, calm>>
      /\ req[r].pc = "gotMap"
      /\ mapCache' = [mapCache EXCEPT ![<<req[r].at, req[r].api>>] =
                        [map |-> req[r].map, age |-> 0]]
      /\ req' = [req EXCEPT ![r].pc = "map", ![r].wait = 0]
  BY DEF MapArrives, registry
<1>2. /\ req[r] \in Request
      /\ ForRelay(req[r]) /\ RequestFollows(req[r], tokens, disabled, calm)
      /\ calm \in Nat /\ req[r].wait \in Nat /\ req[r].wait <= Latency
      /\ Ttl \in Nat /\ Ttl >= 1 /\ Latency \in Nat
  BY <1>1, RequestUnderWay
<1>3. req[r].map # tokens => calm <= Latency
  BY <1>1, <1>2 DEF RequestFollows
<1> DEFINE q == [req[r] EXCEPT !.pc = "map", !.wait = 0]
           copy == [map |-> req[r].map, age |-> 0]
<1>4. RequestsFollow'
  <2>1. 0 \in 0 .. Latency
    BY <1>2
  <2>2. q \in Request
    BY <1>2, <2>1 DEF Request
  <2>3. ForRelay(q) /\ RequestFollows(q, tokens, disabled, calm')
    BY <1>1, <1>2, <1>3 DEF ForRelay, RequestFollows, Request
  <2>4. req' = [req EXCEPT ![r] = q]
    BY <1>1
  <2> HIDE DEF q
  <2>q. QED
    BY <1>1, <2>2, <2>3, <2>4, OneRequest
<1>5. CopiesFollow'
  <2>1. copy \in MapCopy /\ MapFollows(copy, tokens, calm)
    BY <1>2, <1>3 DEF MapCopy, MapFollows, Request
  <2>2. mapCache' = [mapCache EXCEPT ![<<req[r].at, req[r].api>>] = copy]
    BY <1>1
  <2> HIDE DEF copy
  <2>q. QED
    BY <1>1, <2>1, <2>2 DEF GatesInv, CopiesFollow
<1>q. QED
  BY <1>1, <1>4, <1>5 DEF GatesInv

\* A decision ends the request; the disabled set that was asked for is kept.
LEMMA DecisionFollows ==
  ASSUME GatesInv, NEW r \in Requests,
         Unauthorized(r) \/ DisabledCached(r) \/ DisabledArrives(r) \/ FilesDecision(r)
  PROVE  GatesInv'
<1>1. /\ UNCHANGED <<tokens, disabled, mapCache, calm>>
      /\ req' = [req EXCEPT ![r] = NoRequest]
  BY DEF Unauthorized, DisabledCached, DisabledArrives, FilesDecision, Settle, registry
<1>2. RequestsFollow'
  <2>1. ForRelay(NoRequest) /\ RequestFollows(NoRequest, tokens, disabled, calm')
    BY DEF ForRelay, RequestFollows, NoRequest
  <2>q. QED
    BY <1>1, <2>1, OneRequest
<1>3. CopiesFollow'
  <2>1. CASE DisabledArrives(r)
    <3> DEFINE copy == [set |-> req[r].set, age |-> 0]
    <3>1. /\ req[r].pc = "gotDisabled"
          /\ disabledCache' = [disabledCache EXCEPT ![req[r].at] = copy]
      BY <2>1 DEF DisabledArrives
    <3>2. /\ req[r] \in Request
          /\ RequestFollows(req[r], tokens, disabled, calm)
          /\ calm \in Nat /\ req[r].wait \in Nat /\ req[r].wait <= Latency
          /\ Ttl \in Nat /\ Ttl >= 1 /\ Latency \in Nat
      BY <3>1, RequestUnderWay
    <3>3. copy \in SetCopy /\ SetFollows(copy, disabled, calm)
      BY <3>1, <3>2 DEF SetCopy, SetFollows, Request, RequestFollows
    <3> HIDE DEF copy
    <3>q. QED
      BY <1>1, <3>1, <3>3 DEF GatesInv, CopiesFollow
  <2>2. CASE ~DisabledArrives(r)
    <3>1. disabledCache' = disabledCache
      BY <2>2 DEF Unauthorized, DisabledCached, FilesDecision
    <3>q. QED
      BY <1>1, <3>1, CopiesStay
  <2>q. QED
    BY <2>1, <2>2
<1>q. QED
  BY <1>1, <1>2, <1>3 DEF GatesInv

\* Time makes copies and calls older by as much as the calm.
LEMMA TickFollows ==
  ASSUME GatesInv, Tick
  PROVE  GatesInv'
<1> USE DEF GatesInv
<1>1. /\ UNCHANGED <<tokens, disabled>>
      /\ calm \in Nat /\ calm' \in 0 .. Settling /\ calm' <= calm + 1
      /\ Ttl \in Nat /\ Ttl >= 1 /\ Latency \in Nat
  BY ConstantsAssumption DEF Tick, Settling, registry
<1>2. ASSUME NEW copy \in MapCopy, MapFollows(copy, tokens, calm)
      PROVE  Aged(copy) \in MapCopy \cup {None} /\ MapFollows(Aged(copy), tokens, calm')
  <2>1. copy.age \in Nat /\ copy.map \in Maps
    BY <1>2 DEF MapCopy
  <2>2. CASE Aged(copy) = None
    BY <2>2 DEF MapFollows
  <2>3. CASE Aged(copy) # None
    <3>1. Aged(copy) = [copy EXCEPT !.age = @ + 1] /\ copy # None /\ copy.age + 1 < Ttl
      BY <1>1, <2>1, <2>3 DEF Aged
    <3>2. /\ Aged(copy).age = copy.age + 1 /\ Aged(copy).map = copy.map
          /\ Aged(copy) \in MapCopy
      BY <1>1, <2>1, <3>1 DEF MapCopy
    <3>q. QED
      BY <1>1, <1>2, <2>1, <3>1, <3>2 DEF MapFollows
  <2>q. QED
    BY <2>2, <2>3
<1>3. ASSUME NEW copy \in SetCopy, SetFollows(copy, disabled, calm)
      PROVE  Aged(copy) \in SetCopy \cup {None} /\ SetFollows(Aged(copy), disabled, calm')
  <2>1. copy.age \in Nat /\ copy.set \in SUBSET Devices
    BY <1>3 DEF SetCopy
  <2>2. CASE Aged(copy) = None
    BY <2>2 DEF SetFollows
  <2>3. CASE Aged(copy) # None
    <3>1. Aged(copy) = [copy EXCEPT !.age = @ + 1] /\ copy # None /\ copy.age + 1 < Ttl
      BY <1>1, <2>1, <2>3 DEF Aged
    <3>2. /\ Aged(copy).age = copy.age + 1 /\ Aged(copy).set = copy.set
          /\ Aged(copy) \in SetCopy
      BY <1>1, <2>1, <3>1 DEF SetCopy
    <3>q. QED
      BY <1>1, <1>3, <2>1, <3>1, <3>2 DEF SetFollows
  <2>q. QED
    BY <2>2, <2>3
<1>4. Aged(None) = None
  BY DEF Aged
<1>5. CopiesFollow'
  <2>1. /\ mapCache' = [c \in Isolates \X Apis |-> Aged(mapCache[c])]
        /\ disabledCache' = [i \in Isolates |-> Aged(disabledCache[i])]
    BY DEF Tick
  <2>2. \A c \in Isolates \X Apis :
          mapCache'[c] \in MapCopy \cup {None} /\ MapFollows(mapCache'[c], tokens, calm')
    BY <1>2, <1>4, <2>1 DEF CopiesFollow, MapFollows
  <2>3. \A i \in Isolates :
          disabledCache'[i] \in SetCopy \cup {None} /\ SetFollows(disabledCache'[i], disabled, calm')
    BY <1>3, <1>4, <2>1 DEF CopiesFollow, SetFollows
  <2>q. QED
    BY <1>1, <2>1, <2>2, <2>3 DEF CopiesFollow
<1>6. RequestsFollow'
  <2>1. req' = [r \in Requests |->
          IF req[r].pc \in Waiting THEN [req[r] EXCEPT !.wait = @ + 1] ELSE req[r]]
    BY DEF Tick
  <2>2. ASSUME NEW r \in Requests
        PROVE  /\ req'[r] \in Request \cup {NoRequest}
               /\ ForRelay(req'[r]) /\ RequestFollows(req'[r], tokens, disabled, calm')
    <3>1. CASE req[r].pc = "idle"
      <4>1. req'[r] = req[r] /\ req[r] \in Request \cup {NoRequest}
        BY <2>1, <3>1 DEF Waiting, RequestsFollow
      <4>q. QED
        BY <3>1, <4>1 DEF ForRelay, RequestFollows
    <3>2. CASE req[r].pc # "idle"
      <4>1. /\ req[r] \in Request
            /\ ForRelay(req[r]) /\ RequestFollows(req[r], tokens, disabled, calm)
            /\ req[r].wait \in Nat
        BY <3>2, RequestUnderWay
      <4>2. req[r].pc \in Waiting /\ req[r].wait < Latency
        BY <4>1 DEF Tick, Request
      <4> DEFINE q == [req[r] EXCEPT !.wait = @ + 1]
      <4>3. req'[r] = q /\ req[r].wait + 1 \in 0 .. Latency
        BY <1>1, <2>1, <4>1, <4>2
      <4>4. q \in Request
        BY <4>1, <4>3 DEF Request
      <4>5. ForRelay(q)
        BY <4>1 DEF ForRelay, Request
      <4>6. RequestFollows(q, tokens, disabled, calm')
        <5>1. /\ q.pc = req[r].pc /\ q.map = req[r].map /\ q.set = req[r].set
              /\ q.device = req[r].device /\ q.given = req[r].given
              /\ q.wait = req[r].wait + 1 /\ q.pc # "map"
          BY <4>1, <4>2 DEF Request, Waiting
        <5> HIDE DEF q
        <5>q. QED
          BY <1>1, <4>1, <5>1 DEF RequestFollows
      <4>q. QED
        BY <4>3, <4>4, <4>5, <4>6
    <3>q. QED
      BY <3>1, <3>2
  <2>q. QED
    BY <1>1, <2>1, <2>2 DEF RequestsFollow
<1>q. QED
  BY <1>1, <1>5, <1>6

\* The registry stays as it was or is calm since this step.
LEMMA RegistrySteps ==
  ASSUME RegistryInv, GatesInv, AdminApplied \/ Restart \/ RemoveInterrupted
  PROVE  /\ UNCHANGED <<mapCache, disabledCache, req>>
         /\ UNCHANGED <<tokens, disabled, calm>> \/ calm' = 0
         /\ disabled' \subseteq Devices
<1> USE DEF GatesInv, RegistryInv, AdminOK
<1>1. CASE AdminApplied
  <2>1. /\ admin.device \in Devices
        /\ \/ Upserted(admin.device, admin.token) \/ Removed(admin.device)
           \/ StateSet(admin.device, TRUE) \/ StateSet(admin.device, FALSE)
    BY <1>1 DEF AdminApplied, AdminOps
  <2>2. disabled' \subseteq Devices
    BY <2>1 DEF Upserted, StateSet, Removed
  <2>q. QED
    BY <1>1, <2>2 DEF AdminApplied
<1>2. CASE Restart
  BY <1>2 DEF Restart, Restarted, Saved
<1>3. CASE RemoveInterrupted
  <2>1. Restarted([tokens |-> [tokens EXCEPT ![admin.device] = None], disabled |-> disabled])
    BY <1>3 DEF RemoveInterrupted, RemoveCut, Saved
  <2>2. disabled' = disabled
    BY <2>1 DEF Restarted
  <2>q. QED
    BY <1>3, <2>2 DEF RemoveInterrupted
<1>q. QED
  BY <1>1, <1>2, <1>3

\* Every step keeps the gates' invariant.
LEMMA GatesStep ==
  ASSUME RegistryInv, GatesInv, [Next]_vars
  PROVE  GatesInv'
<1>0. tokens \in Maps
  BY DEF RegistryInv, Saved
<1>1. CASE Decision
  BY <1>1, DecisionFollows DEF Decision
<1>2. CASE \E r \in Requests :
             \/ \E i \in Isolates, a \in Apis, d \in Devices, t \in Tokens :
                  Arrive(r, i, a, d, t)
             \/ AnswerMap(r) \/ AnswerDisabled(r)
             \/ MapArrives(r) \/ AskFresh(r) \/ AskDisabled(r)
  BY <1>0, <1>2, ArriveFollows, CallFollows, MapArrivesFollows
<1>3. CASE \E i \in Isolates \cup {None}, op \in AdminOps,
              d \in Devices, t \in Tokens \cup {None} : AdminSends(i, op, d, t)
  <2>1. /\ UNCHANGED <<tokens, disabled, req, calm>>
        /\ \E i \in Isolates \cup {None} :
             DropMap(i) /\ (UNCHANGED disabledCache \/ DropDisabled(i))
    BY <1>3 DEF AdminSends, registry
  <2>2. CopiesFollow'
    BY <2>1 DEF GatesInv, CopiesFollow, DropMap, DropDisabled, MapFollows, SetFollows
  <2>q. QED
    BY <2>1, <2>2 DEF GatesInv, RequestsFollow
<1>4. CASE AdminApplied \/ Restart \/ RemoveInterrupted
  <2>1. /\ UNCHANGED <<mapCache, disabledCache, req>>
        /\ UNCHANGED <<tokens, disabled, calm>> \/ calm' = 0
        /\ disabled' \subseteq Devices
    BY <1>4, RegistrySteps
  <2>2. calm' \in 0 .. Settling
    BY <2>1, ConstantsAssumption DEF GatesInv, Settling
  <2>3. RequestsFollow'
    BY <2>1, JustChanged DEF GatesInv, RequestsFollow
  <2>q. QED
    BY <2>1, <2>2, <2>3, CopiesStay DEF GatesInv
<1>5. CASE Tick
  BY <1>5, TickFollows
<1>6. CASE UNCHANGED vars
  BY <1>6 DEF vars, GatesInv, CopiesFollow, RequestsFollow
<1>q. QED
  BY <1>1, <1>2, <1>3, <1>4, <1>5, <1>6 DEF Next, OtherStep, AdminOps

\* No copy and no request: the gates' invariant holds at first.
LEMMA GatesInit == Init => GatesInv
<1> SUFFICES ASSUME Init
             PROVE  GatesInv
  OBVIOUS
<1> USE DEF Init
<1>1. disabled \subseteq Devices /\ calm \in 0 .. Settling
  BY ConstantsAssumption DEF Settling
<1>2. CopiesFollow
  BY DEF CopiesFollow, MapFollows, SetFollows
<1>3. RequestsFollow
  BY DEF RequestsFollow, ForRelay, RequestFollows, NoRequest
<1>q. QED
  BY <1>1, <1>2, <1>3 DEF GatesInv

\* The relay's two ways to say who is let in are the same.
LEMMA AdmittedByRelay ==
  ASSUME tokens \in Maps, NEW d \in Devices, NEW given \in Tokens
  PROVE  Admitted("relay", d, given) <=> ~Refused(tokens, d, given)
BY ConstantsAssumption DEF Admitted, Refused, Unknown, PerDevice, Expected, Maps

\* Copies, and what requests under way have read, keep their types and ages.
THEOREM GatesTypeCorrect == Spec => []TypeOK
<1>1. RegistryInv /\ GatesInv => TypeOK
  <2> SUFFICES ASSUME RegistryInv, GatesInv
               PROVE  TypeOK
    OBVIOUS
  <2> USE DEF RegistryInv, Saved, GatesInv
  <2>1. saved \in [tokens : Maps, disabled : SUBSET Devices]
    OBVIOUS
  <2>2. ASSUME NEW c \in Isolates \X Apis, mapCache[c] # None
        PROVE  mapCache[c].map \in Maps /\ mapCache[c].age \in 0 .. Ttl
    BY <2>2, ConstantsAssumption DEF CopiesFollow, MapCopy
  <2>3. ASSUME NEW i \in Isolates, disabledCache[i] # None
        PROVE  disabledCache[i].set \subseteq Devices /\ disabledCache[i].age \in 0 .. Ttl
    BY <2>3, ConstantsAssumption DEF CopiesFollow, SetCopy
  <2>4. ASSUME NEW r \in Requests
        PROVE  /\ req[r].pc \in {"idle", "map"} \cup Waiting
               /\ req[r].map \in Maps /\ req[r].set \subseteq Devices
               /\ req[r].wait \in 0 .. Latency
    <3>1. CASE req[r] \in Request
      BY <3>1 DEF Request
    <3>2. CASE req[r] = NoRequest
      BY <3>2, ConstantsAssumption DEF NoRequest, Empty, Maps
    <3>q. QED
      BY <3>1, <3>2 DEF RequestsFollow
  <2>q. QED
    BY <2>1, <2>2, <2>3, <2>4 DEF TypeOK
<1>q. QED
  BY <1>1, RegistryInit, RegistryStep, GatesInit, GatesStep, PTL DEF Spec

\* A request is answered by one of its own decisions.
LEMMA OnlyDecisionsAnswer ==
  ASSUME Next, NEW r \in Requests, answer'.to = r
  PROVE  Unauthorized(r) \/ DisabledCached(r) \/ DisabledArrives(r) \/ FilesDecision(r)
<1>1. CASE OtherStep
  <2>1. answer'.to = None
    BY <1>1 DEF OtherStep, NoAnswer
  <2>q. QED
    BY <2>1, ConstantsAssumption
<1>2. ASSUME NEW s \in Requests,
             Unauthorized(s) \/ DisabledCached(s) \/ DisabledArrives(s) \/ FilesDecision(s)
      PROVE  s = r
  BY <1>2 DEF Unauthorized, DisabledCached, DisabledArrives, FilesDecision, Settle
<1>q. QED
  BY <1>1, <1>2 DEF Next, Decision

\* What a settled registry decides.
LEMMA SettledStep ==
  ASSUME RegistryInv, GatesInv, Next, NEW r \in Requests, answer'.to = r, calm = Settling
  PROVE  LET d == req[r].device
             outcome == answer'.is
         IN IF ~Admitted(req[r].api, d, req[r].given)
            THEN outcome = "unauthorized"
            ELSE IF req[r].api = "files"
            THEN outcome = "authorized"
            ELSE /\ outcome \notin {"unauthorized", "authorized"}
                 /\ outcome = "deviceDisabled" <=> d \in disabled
<1>1. Unauthorized(r) \/ DisabledCached(r) \/ DisabledArrives(r) \/ FilesDecision(r)
  BY OnlyDecisionsAnswer
<1> DEFINE d == req[r].device
           given == req[r].given
<1>2. /\ req[r] \in Request /\ d \in Devices /\ given \in Tokens /\ tokens \in Maps
      /\ ForRelay(req[r]) /\ RequestFollows(req[r], tokens, disabled, calm)
      /\ calm \in Nat /\ req[r].wait \in Nat /\ req[r].wait <= Latency
      /\ Ttl \in Nat /\ Ttl >= 1 /\ Latency \in Nat
      /\ calm = Ttl + 2 * Latency
  <2>1. req[r].pc # "idle"
    BY <1>1 DEF Unauthorized, DisabledCached, DisabledArrives, FilesDecision, Resolved
  <2>q. QED
    BY <2>1, RequestUnderWay DEF Request, RegistryInv, Saved, Settling
<1>3. req[r].pc \in {"map", "gotFresh"} => req[r].map = tokens
  BY <1>2 DEF RequestFollows
<1>4. \A set, o : o \in Outcomes(set, d) =>
        o \notin {"unauthorized", "authorized"} /\ (o = "deviceDisabled" <=> d \in set)
  BY DEF Outcomes, McpServed, StreamServed, DownloadServed, UpgradeServed
<1>5. CASE Unauthorized(r)
  <2>1. /\ answer'.is = "unauthorized"
        /\ req[r].api = "relay" /\ Refused(tokens, d, given)
    BY <1>3, <1>5 DEF Unauthorized, Resolved, Settle
  <2>q. QED
    BY <1>2, <2>1, AdmittedByRelay
<1>6. CASE DisabledCached(r)
  <2>1. /\ req[r].api = "relay" /\ ~Refused(tokens, d, given)
        /\ disabledCache[req[r].at] # None
        /\ answer'.is \in Outcomes(disabledCache[req[r].at].set, d)
    BY <1>3, <1>6 DEF DisabledCached, Resolved, Settle
  <2>2. disabledCache[req[r].at].set = disabled
    <3> DEFINE copy == disabledCache[req[r].at]
    <3>1. copy \in SetCopy /\ SetFollows(copy, disabled, calm)
      BY <1>2, <2>1 DEF GatesInv, CopiesFollow, Request
    <3>2. copy # None /\ copy.age \in Nat /\ copy.age <= Ttl - 1
      BY <1>2, <2>1, <3>1 DEF SetCopy
    <3> HIDE DEF copy
    <3>3. copy.set = disabled
      BY <1>2, <3>1, <3>2 DEF SetFollows
    <3>q. QED
      BY <3>3 DEF copy
  <2>q. QED
    BY <1>2, <1>4, <2>1, <2>2, AdmittedByRelay
<1>7. CASE DisabledArrives(r)
  <2>1. /\ req[r].pc = "gotDisabled" /\ req[r].api = "relay"
        /\ answer'.is \in Outcomes(req[r].set, d)
    BY <1>2, <1>7 DEF DisabledArrives, Settle, ForRelay
  <2>2. req[r].set = disabled /\ ~Refused(tokens, d, given)
    BY <1>2, <2>1 DEF RequestFollows
  <2>q. QED
    BY <1>2, <1>4, <2>1, <2>2, AdmittedByRelay
<1>8. CASE FilesDecision(r)
  <2>1. /\ req[r].api = "files" /\ req[r].map = tokens
        /\ answer'.is = IF tokens[d] # None /\ given = tokens[d]
                        THEN "authorized" ELSE "unauthorized"
    BY <1>3, <1>8 DEF FilesDecision, Settle
  <2>q. QED
    BY <1>2, <2>1 DEF Admitted
<1>q. QED
  BY <1>1, <1>5, <1>6, <1>7, <1>8

\* For any isolates, devices and requests, any Ttl and any delay of a call: the
\* life of a copy and two calls after the last change the relay's gate decides
\* by the tokens and the disabled set of the registry, and the files API's by
\* the tokens alone.
THEOREM SettledHolds == Spec => SettledDecision
<1>1. ASSUME RegistryInv, GatesInv, [Next]_vars
      PROVE  [\A r \in Requests :
                answer'.to = r /\ calm = Settling =>
                  LET d == req[r].device
                      outcome == answer'.is
                  IN IF ~Admitted(req[r].api, d, req[r].given)
                     THEN outcome = "unauthorized"
                     ELSE IF req[r].api = "files"
                     THEN outcome = "authorized"
                     ELSE /\ outcome \notin {"unauthorized", "authorized"}
                          /\ outcome = "deviceDisabled" <=> d \in disabled]_vars
  BY <1>1, SettledStep
<1>q. QED
  BY <1>1, RegistryInit, RegistryStep, GatesInit, GatesStep, PTL DEF Spec, SettledDecision

-----------------------------------------------------------------------------
(* New devices.  Until a device is registered every map that was ever read   *)
(* lacks it; while it is new every map lacks it or has its token.            *)

\* A map lacks device d, or has the token that the registry has.
LacksOrHas(map, d) == map[d] \in {None, tokens[d]}

NewsInv ==
  /\ known \in [Devices -> {"no", "new", "old", "removed"}]
  /\ \A d \in Devices :
       /\ known[d] \in {"no", "new"} => VirtualSeed[d] = None
       /\ known[d] = "no" => tokens[d] = None
       /\ known[d] = "new" => tokens[d] # None
       /\ known[d] \in {"no", "new"} =>
            /\ \A c \in Isolates \X Apis : mapCache[c] # None => LacksOrHas(mapCache[c].map, d)
            /\ \A r \in Requests : LacksOrHas(req[r].map, d)

\* A request that presents the token of its new device reads it when it asks
\* afresh, unless the registry is not reached.
DueInv(q) ==
  q.due =>
    /\ q.api = "relay"
    /\ known[q.device] # "no"
    /\ known[q.device] = "new" =>
         /\ q.given = tokens[q.device]
         /\ q.pc = "gotFresh" => q.map = Empty \/ q.map[q.device] = tokens[q.device]

\* Where the maps of copies and requests come from, in a step that leaves the
\* registry alone.
MapsMoved ==
  /\ \A c \in Isolates \X Apis : mapCache'[c] # None =>
       \/ mapCache[c] # None /\ mapCache'[c].map = mapCache[c].map
       \/ \E r \in Requests : mapCache'[c].map = req[r].map
  /\ \A r \in Requests :
       \/ req'[r].map \in {req[r].map, Empty, tokens}
       \/ \E c \in Isolates \X Apis : mapCache[c] # None /\ req'[r].map = mapCache[c].map

\* Where a map that an isolate or a request holds after a step came from.
LEMMA MapsMove ==
  ASSUME GatesInv, [Next]_vars, ~AdminApplied, ~Restart, ~RemoveInterrupted
  PROVE  MapsMoved
<1> USE DEF GatesInv, CopiesFollow, RequestsFollow
<1>1. CASE UNCHANGED vars
  BY <1>1 DEF vars, MapsMoved
<1>2. CASE Tick
  <2>1. /\ mapCache' = [c \in Isolates \X Apis |-> Aged(mapCache[c])]
        /\ req' = [r \in Requests |->
             IF req[r].pc \in Waiting THEN [req[r] EXCEPT !.wait = @ + 1] ELSE req[r]]
    BY <1>2 DEF Tick
  <2>2. ASSUME NEW c \in Isolates \X Apis, mapCache'[c] # None
        PROVE  mapCache[c] # None /\ mapCache'[c].map = mapCache[c].map
    <3>1. mapCache[c] # None
      BY <2>1, <2>2 DEF Aged
    <3>2. mapCache[c] \in MapCopy
      BY <3>1
    <3>3. mapCache'[c] = [mapCache[c] EXCEPT !.age = @ + 1]
      BY <2>1, <2>2 DEF Aged
    <3>q. QED
      BY <3>1, <3>2, <3>3 DEF MapCopy
  <2>3. ASSUME NEW r \in Requests
        PROVE  req'[r].map = req[r].map
    <3>1. req[r] \in Request \cup {NoRequest}
      OBVIOUS
    <3>q. QED
      BY <2>1, <3>1 DEF Request, NoRequest
  <2>q. QED
    BY <2>2, <2>3 DEF MapsMoved
<1>3. CASE \E i \in Isolates \cup {None}, op \in AdminOps,
              d \in Devices, t \in Tokens \cup {None} : AdminSends(i, op, d, t)
  BY <1>3 DEF AdminSends, DropMap, MapsMoved
<1>4. ASSUME NEW r \in Requests, NEW i \in Isolates, NEW a \in Apis, NEW d \in Devices,
             NEW t \in Tokens, Arrive(r, i, a, d, t)
      PROVE  /\ mapCache' = mapCache
             /\ \A s \in Requests : s # r => req'[s] = req[s]
             /\ IF mapCache[<<i, a>>] # None THEN req'[r].map = mapCache[<<i, a>>].map
                ELSE req'[r].map = Empty
  BY <1>4 DEF Arrive
<1>5. ASSUME NEW r \in Requests,
             AnswerMap(r) \/ AnswerDisabled(r) \/ AskFresh(r) \/ AskDisabled(r)
      PROVE  /\ mapCache' = mapCache
             /\ \A s \in Requests : s # r => req'[s] = req[s]
             /\ req'[r].map \in {req[r].map, Empty, tokens}
  <2>1. req[r] \in Request
    BY <1>5, RequestUnderWay DEF AnswerMap, AnswerDisabled, AskFresh, AskDisabled, Resolved
  <2>q. QED
    BY <1>5, <2>1 DEF AnswerMap, AnswerDisabled, AskFresh, AskDisabled, Request
<1>6. ASSUME NEW r \in Requests, MapArrives(r)
      PROVE  /\ \A c \in Isolates \X Apis :
                  mapCache'[c] = mapCache[c] \/ mapCache'[c].map = req[r].map
             /\ \A s \in Requests : req'[s].map = req[s].map
  <2>1. req[r] \in Request
    BY <1>6, RequestUnderWay DEF MapArrives
  <2>q. QED
    BY <1>6, <2>1 DEF MapArrives, Request
<1>7. ASSUME NEW r \in Requests,
             Unauthorized(r) \/ DisabledCached(r) \/ DisabledArrives(r) \/ FilesDecision(r)
      PROVE  /\ mapCache' = mapCache
             /\ \A s \in Requests : req'[s] = req[s] \/ req'[s].map = Empty
  BY <1>7 DEF Unauthorized, DisabledCached, DisabledArrives, FilesDecision, Settle, NoRequest
<1>q. QED
  <2>1. CASE Decision
    BY <2>1, <1>7 DEF Decision, MapsMoved
  <2>2. CASE \E r \in Requests :
               \/ \E i \in Isolates, a \in Apis, d \in Devices, t \in Tokens :
                    Arrive(r, i, a, d, t)
               \/ AnswerMap(r) \/ AnswerDisabled(r)
               \/ MapArrives(r) \/ AskFresh(r) \/ AskDisabled(r)
    <3>1. ASSUME NEW r \in Requests, NEW i \in Isolates, NEW a \in Apis, NEW d \in Devices,
                 NEW t \in Tokens, Arrive(r, i, a, d, t)
          PROVE  MapsMoved
      <4>1. /\ mapCache' = mapCache
            /\ \A s \in Requests : s # r => req'[s] = req[s]
            /\ \/ req'[r].map = Empty
               \/ \E c \in Isolates \X Apis : mapCache[c] # None /\ req'[r].map = mapCache[c].map
        BY <1>4, <3>1
      <4>q. QED
        BY <4>1 DEF MapsMoved
    <3>2. ASSUME NEW r \in Requests,
                 AnswerMap(r) \/ AnswerDisabled(r) \/ AskFresh(r) \/ AskDisabled(r)
          PROVE  MapsMoved
      <4>1. /\ mapCache' = mapCache
            /\ \A s \in Requests : s # r => req'[s] = req[s]
            /\ req'[r].map \in {req[r].map, Empty, tokens}
        BY <1>5, <3>2
      <4>q. QED
        BY <4>1 DEF MapsMoved
    <3>3. ASSUME NEW r \in Requests, MapArrives(r)
          PROVE  MapsMoved
      BY <1>6, <3>3 DEF MapsMoved
    <3>q. QED
      BY <2>2, <3>1, <3>2, <3>3
  <2>3. CASE OtherStep
    BY <1>2, <1>3, <2>2, <2>3 DEF OtherStep, AdminOps
  <2>q. QED
    BY <1>1, <2>1, <2>3 DEF Next

\* What a step of the registry does to a device that is not known or new.
LEMMA StagesStep ==
  ASSUME RegistryInv, NewsInv, AdminApplied \/ Restart \/ RemoveInterrupted
  PROVE  /\ known' \in [Devices -> {"no", "new", "old", "removed"}]
         /\ \A d \in Devices :
              /\ known'[d] = "no" => known[d] = "no" /\ tokens'[d] = None
              /\ known'[d] = "new" =>
                   \/ known[d] = "new" /\ tokens'[d] = tokens[d]
                   \/ known[d] = "no" /\ tokens'[d] # None
<1> USE DEF RegistryInv, NewsInv
<1>0. tokens \in Maps
  BY DEF Saved
<1>1. CASE AdminApplied
  <2>1. /\ admin.device \in Devices /\ admin.token \in Tokens \cup {None}
        /\ \/ Upserted(admin.device, admin.token) /\ admin.token # None
           \/ Removed(admin.device)
           \/ StateSet(admin.device, TRUE) \/ StateSet(admin.device, FALSE)
    BY <1>1 DEF AdminApplied, AdminOK, AdminOps
  <2>q. QED
    BY <1>0, <2>1 DEF Upserted, Removed, StateSet, Maps
<1>2. ASSUME NEW map \in Maps, tokens' = Rebuilt(map),
             NEW d \in Devices, known'[d] = KnownSeeded[d], map[d] = tokens[d]
      PROVE  /\ known'[d] \in {"no", "new", "old", "removed"}
             /\ known'[d] = "no" => known[d] = "no" /\ tokens'[d] = None
             /\ known'[d] = "new" => known[d] = "new" /\ tokens'[d] = tokens[d]
  <2>1. known'[d] = IF known[d] = "no" /\ tokens'[d] # None THEN "old" ELSE known[d]
    BY <1>2 DEF KnownSeeded
  <2>2. CASE known'[d] = "new"
    <3>1. known[d] = "new" /\ VirtualSeed[d] = None /\ map # Empty
      BY <1>2, <2>1, <2>2 DEF Empty
    <3>2. Rebuilt(map)[d] = map[d]
      BY <3>1, RebuiltKeeps
    <3>q. QED
      BY <1>2, <2>1, <3>1, <3>2
  <2>3. CASE known'[d] # "new"
    BY <2>1, <2>3
  <2>q. QED
    BY <2>2, <2>3
<1>3. CASE Restart
  <2>1. tokens' = Rebuilt(tokens) /\ known' = KnownSeeded
    BY <1>3 DEF Restart, Restarted, Saved
  <2>2. known' \in [Devices -> {"no", "new", "old", "removed"}]
    BY <2>1 DEF KnownSeeded
  <2>q. QED
    BY <1>0, <1>2, <2>1, <2>2
<1>4. CASE RemoveInterrupted
  <2> DEFINE map == [tokens EXCEPT ![admin.device] = None]
  <2>1. map \in Maps /\ admin.device \in Devices
    BY <1>0, <1>4 DEF Maps, RemoveInterrupted, AdminOK
  <2>2. tokens' = Rebuilt(map)
    BY <1>4 DEF RemoveInterrupted, RemoveCut, Restarted, Saved
  <2>3. known' = [KnownSeeded EXCEPT ![admin.device] = "removed"]
    BY <1>4 DEF RemoveInterrupted, RemoveCut
  <2>4. known' \in [Devices -> {"no", "new", "old", "removed"}]
    BY <2>3 DEF KnownSeeded
  <2>5. \A d \in Devices : d # admin.device =>
          known'[d] = KnownSeeded[d] /\ map[d] = tokens[d]
    BY <1>0, <2>1, <2>3 DEF KnownSeeded, Maps
  <2>6. known'[admin.device] = "removed"
    BY <2>1, <2>3 DEF KnownSeeded
  <2> HIDE DEF map
  <2>q. QED
    BY <1>2, <2>1, <2>2, <2>4, <2>5, <2>6
<1>q. QED
  BY <1>1, <1>3, <1>4

\* Every map that was ever read goes on to lack a new device or to have its token.
LEMMA NewsStep ==
  ASSUME RegistryInv, GatesInv, NewsInv, [Next]_vars
  PROVE  NewsInv'
<1>1. CASE AdminApplied \/ Restart \/ RemoveInterrupted
  <2>1. UNCHANGED <<mapCache, req>>
    BY <1>1, RegistrySteps
  <2>2. /\ known' \in [Devices -> {"no", "new", "old", "removed"}]
        /\ \A d \in Devices :
             /\ known'[d] = "no" => known[d] = "no" /\ tokens'[d] = None
             /\ known'[d] = "new" =>
                  \/ known[d] = "new" /\ tokens'[d] = tokens[d]
                  \/ known[d] = "no" /\ tokens'[d] # None
    BY <1>1, StagesStep
  <2>q. QED
    BY <2>1, <2>2 DEF NewsInv, LacksOrHas
<1>2. CASE ~AdminApplied /\ ~Restart /\ ~RemoveInterrupted
  <2>1. UNCHANGED <<tokens, known>>
    BY <1>2, Elsewhere DEF registry, vars
  <2>2. ASSUME NEW d \in Devices, known[d] \in {"no", "new"}
        PROVE  /\ \A c \in Isolates \X Apis :
                    mapCache'[c] # None => LacksOrHas(mapCache'[c].map, d)
               /\ \A r \in Requests : LacksOrHas(req'[r].map, d)
    <3>1. LacksOrHas(Empty, d) /\ LacksOrHas(tokens, d)
      BY DEF LacksOrHas, Empty
    <3>q. QED
      BY <1>2, <2>2, <3>1, MapsMove DEF MapsMoved, NewsInv
  <2>q. QED
    BY <2>1, <2>2 DEF NewsInv, LacksOrHas
<1>q. QED
  BY <1>1, <1>2

\* A request that is due reads its device's token when it asks afresh.
LEMMA DuesStep ==
  ASSUME RegistryInv, GatesInv, NewsInv, [Next]_vars, NEW r \in Requests, DueInv(req[r])
  PROVE  DueInv(req[r])'
<1>1. CASE AdminApplied \/ Restart \/ RemoveInterrupted
  <2>1. req' = req
    BY <1>1, RegistrySteps
  <2>2. req[r].due => req[r].device \in Devices
    BY DEF GatesInv, RequestsFollow, Request, NoRequest
  <2>3. \A d \in Devices :
          /\ known'[d] = "no" => known[d] = "no" /\ tokens'[d] = None
          /\ known'[d] = "new" =>
               \/ known[d] = "new" /\ tokens'[d] = tokens[d]
               \/ known[d] = "no" /\ tokens'[d] # None
    BY <1>1, StagesStep
  <2>q. QED
    BY <2>1, <2>2, <2>3 DEF DueInv
<1>2. CASE ~AdminApplied /\ ~Restart /\ ~RemoveInterrupted
  <2>1. UNCHANGED <<tokens, known>>
    BY <1>2, Elsewhere DEF registry, vars
  <2>2. CASE req'[r] = req[r]
    BY <2>1, <2>2 DEF DueInv
  <2>3. CASE req'[r] = NoRequest
    BY <2>3 DEF DueInv, NoRequest
  <2>4. CASE \E i \in Isolates, a \in Apis, d \in Devices, t \in Tokens :
               Arrive(r, i, a, d, t)
    BY <2>1, <2>4 DEF Arrive, DueInv, GatesInv, RequestsFollow
  <2>5. CASE AnswerMap(r) \/ AnswerDisabled(r) \/ MapArrives(r) \/ AskFresh(r) \/ AskDisabled(r)
    <3>1. req[r] \in Request
      BY <2>5, RequestUnderWay
      DEF AnswerMap, AnswerDisabled, MapArrives, AskFresh, AskDisabled, Resolved
    <3>2. /\ req'[r].due = req[r].due /\ req'[r].api = req[r].api
          /\ req'[r].device = req[r].device /\ req'[r].given = req[r].given
          /\ req'[r].pc = "gotFresh" => req'[r].map \in {Empty, tokens}
      BY <2>5, <3>1
      DEF AnswerMap, AnswerDisabled, MapArrives, AskFresh, AskDisabled, Request,
          GatesInv, RequestsFollow
    <3>q. QED
      BY <2>1, <3>2 DEF DueInv
  <2>6. CASE Tick
    <3>1. req[r] \in Request \cup {NoRequest}
      BY DEF GatesInv, RequestsFollow
    <3>2. /\ req'[r].due = req[r].due /\ req'[r].api = req[r].api
          /\ req'[r].device = req[r].device /\ req'[r].given = req[r].given
          /\ req'[r].pc = req[r].pc /\ req'[r].map = req[r].map
      BY <2>6, <3>1 DEF Tick, Request, NoRequest
    <3>q. QED
      BY <2>1, <3>2 DEF DueInv
  <2>7. CASE Decision
    <3>1. req'[r] = req[r] \/ req'[r] = NoRequest
      BY <2>7
      DEF Decision, Unauthorized, DisabledCached, DisabledArrives, FilesDecision, Settle,
          GatesInv, RequestsFollow
    <3>q. QED
      BY <2>2, <2>3, <3>1
  <2>8. CASE \E s \in Requests : s # r /\
               (\/ \E i \in Isolates, a \in Apis, d \in Devices, t \in Tokens :
                     Arrive(s, i, a, d, t)
                \/ AnswerMap(s) \/ AnswerDisabled(s)
                \/ MapArrives(s) \/ AskFresh(s) \/ AskDisabled(s))
    <3>1. req'[r] = req[r]
      BY <2>8
      DEF Arrive, AnswerMap, AnswerDisabled, MapArrives, AskFresh, AskDisabled,
          GatesInv, RequestsFollow
    <3>q. QED
      BY <2>2, <3>1
  <2>9. CASE UNCHANGED vars \/
             \E i \in Isolates \cup {None}, op \in AdminOps,
                d \in Devices, t \in Tokens \cup {None} : AdminSends(i, op, d, t)
    BY <2>2, <2>9 DEF AdminSends, vars
  <2>q. QED
    BY <1>2, <2>4, <2>5, <2>6, <2>7, <2>8, <2>9 DEF Next, OtherStep, AdminOps
<1>q. QED
  BY <1>1, <1>2

\* Nothing is due at first.
LEMMA NewsInit == Init => NewsInv /\ \A r \in Requests : DueInv(req[r])
<1> SUFFICES ASSUME Init
             PROVE  NewsInv /\ \A r \in Requests : DueInv(req[r])
  OBVIOUS
<1> USE DEF Init
<1>1. \A r \in Requests : DueInv(req[r])
  BY DEF DueInv, NoRequest
<1>2. PICK map \in Maps : tokens = Rebuilt(map)
  BY ConstantsAssumption DEF Maps
<1>3. \A d \in Devices : tokens[d] = None => VirtualSeed[d] = None
  BY <1>2 DEF Rebuilt, Overlay
<1>q. QED
  BY <1>1, <1>3 DEF NewsInv, LacksOrHas, NoRequest, Empty

\* Without a shared token neither a map that lacks the device nor one that has
\* its token turns the request away.
LEMMA NewDeviceStep ==
  ASSUME SharedToken = None, GatesInv, NewsInv, Next, NEW r \in Requests, DueInv(req[r]),
         req[r].due, known[req[r].device] = "new", answer'.to = r
  PROVE  answer'.is # "unauthorized"
<1>1. Unauthorized(r) \/ DisabledCached(r) \/ DisabledArrives(r) \/ FilesDecision(r)
  BY OnlyDecisionsAnswer
<1>2. /\ req[r].api = "relay" /\ req[r].given = tokens[req[r].device]
      /\ req[r].pc = "gotFresh" =>
           req[r].map = Empty \/ req[r].map[req[r].device] = tokens[req[r].device]
      /\ req[r].device \in Devices
  BY DEF DueInv, GatesInv, RequestsFollow, Request, NoRequest
<1>3. CASE Unauthorized(r)
  <2> DEFINE map == req[r].map
             d == req[r].device
  <2>1. map[d] = None => Unknown(map, d)
    BY <1>2, <1>3 DEF Unauthorized, Refused, Expected
  <2>2. map[d] # None => map[d] # tokens[d]
    BY <1>2, <1>3 DEF Unauthorized, Refused, Expected, Unknown
  <2>3. map[d] = None
    BY <1>2, <2>2 DEF NewsInv, LacksOrHas
  <2>4. map = Empty
    <3>1. req[r].pc = "gotFresh"
      BY <1>3, <2>1, <2>3 DEF Unauthorized, Resolved
    <3>2. tokens[d] # None
      BY <1>2 DEF NewsInv
    <3>q. QED
      BY <1>2, <2>3, <3>1, <3>2
  <2>q. QED
    BY <1>2, <2>1, <2>4 DEF Unknown, PerDevice, Empty
<1>4. CASE DisabledCached(r) \/ DisabledArrives(r)
  BY <1>4 DEF DisabledCached, DisabledArrives, Settle, Outcomes, McpServed, StreamServed,
              DownloadServed, UpgradeServed
<1>5. CASE FilesDecision(r)
  BY <1>2, <1>5 DEF FilesDecision
<1>q. QED
  BY <1>1, <1>3, <1>4, <1>5

\* On a gateway without a shared token no copy, however old, and no answer under
\* way turns away a request that presents the token of a device registered for
\* the first time before it arrived: for any isolates, requests, restarts and
\* failing calls.  With a shared token the run entry_shared shows that it may.
THEOREM NewDeviceHolds ==
  ASSUME SharedToken = None
  PROVE  Spec => NewDeviceKnown
<1> DEFINE DuesInv == \A r \in Requests : DueInv(req[r])
<1>1. ASSUME RegistryInv, GatesInv, NewsInv, DuesInv, [Next]_vars
      PROVE  /\ NewsInv' /\ DuesInv'
             /\ [\A r \in Requests :
                   req[r].due /\ known[req[r].device] = "new" /\ answer'.to = r =>
                     answer'.is # "unauthorized"]_vars
  BY <1>1, NewsStep, DuesStep, NewDeviceStep
<1>2. Init => NewsInv /\ DuesInv
  BY NewsInit
<1> HIDE DEF DuesInv
<1>q. QED
  BY <1>1, <1>2, RegistryInit, RegistryStep, GatesInit, GatesStep, PTL
  DEF Spec, NewDeviceKnown

\* Sweeping drops only counters that no longer count: the two maps agree on
\* every counter that does.
Agree ==
  \A k \in Keys :
    IF Current(unswept[k]) THEN buckets[k] = unswept[k]
    ELSE ~Current(buckets[k])

LimiterInv == LimiterTypeOK /\ Agree

\* A counter that counts one more is a counter within the limit.
LEMMA CountedType ==
  ASSUME now \in Nat, NEW b \in Bucket \cup {NoBucket}, Admits(b)
  PROVE  Counted(b) \in Bucket
<1> USE LimiterAssumption DEF Bucket
<1>1. CASE Current(b)
  <2>1. b \in Bucket /\ b.count < Limit
    BY <1>1 DEF Current, Admits
  <2>2. QED
    BY <1>1, <2>1 DEF Counted
<1>2. CASE ~Current(b)
  BY <1>2 DEF Counted
<1>3. QED
  BY <1>1, <1>2

\* Types, and the agreement of the swept and the unswept counters.
LEMMA LimiterInvariant == LimiterSpec => []LimiterInv
<1>1. LimiterInit => LimiterInv
  BY LimiterAssumption DEF LimiterInit, LimiterInv, LimiterTypeOK, Agree, Current, Bucket
<1>2. LimiterInv /\ [LimiterNext]_lvars => LimiterInv'
  <2> SUFFICES ASSUME LimiterInv, [LimiterNext]_lvars PROVE LimiterInv'
    OBVIOUS
  <2> USE LimiterAssumption DEF LimiterInv, LimiterTypeOK, Agree
  <2>1. CASE Sweep
    BY <2>1 DEF Sweep, Current
  <2>2. CASE ClockTicks
    BY <2>2 DEF ClockTicks, Current, Bucket
  <2>3. ASSUME NEW k \in Keys, Allow(k) PROVE LimiterInv'
    <3>1. Admits(unswept[k]) /\ Counted(unswept[k]) = Counted(buckets[k])
      BY <2>3 DEF Allow, Admits, Counted
    <3>2. now \in Nat
      OBVIOUS
    <3>3. Counted(buckets[k]) \in Bucket
      BY <2>3, <3>2, CountedType DEF Allow
    <3>4. LimiterTypeOK'
      BY <2>3, <3>1, <3>3 DEF Allow
    <3>5. Agree'
      BY <2>3, <3>1 DEF Allow, Current
    <3>6. QED
      BY <3>4, <3>5
  <2>4. CASE UNCHANGED lvars
    BY <2>4 DEF lvars, Current
  <2>5. QED
    BY <2>1, <2>2, <2>3, <2>4 DEF LimiterNext
<1>3. QED
  BY <1>1, <1>2, PTL DEF LimiterSpec

\* The counters keep their types; in particular no counter exceeds the limit,
\* because allow refuses before it increments.
THEOREM LimiterTypeCorrect == LimiterSpec => []LimiterTypeOK
<1>1. LimiterInv => LimiterTypeOK
  BY DEF LimiterInv
<1>2. QED
  BY LimiterInvariant, <1>1, PTL

\* The sweep is invisible: it never changes what a client is answered next.
THEOREM SweepInvisible == LimiterSpec => []SweepHarmless
<1>1. LimiterInv => SweepHarmless
  BY DEF LimiterInv, Agree, SweepHarmless, Admits
<1>2. QED
  BY LimiterInvariant, <1>1, PTL
-----------------------------------------------------------------------------
(* The limit.  A window is the Window + 1 instants from the request that    *)
(* restarts a counter to its resetAt, and two of them never share an        *)
(* instant, so a span of Window instants meets at most two.                  *)

Times == 0 .. MaxTime

\* The instants of a counter's window and those after it; and the Window
\* instants before it.
Since(b) == {u \in Times : b.resetAt <= u + Window}
Before(b) == {u \in Times : b.resetAt <= u + 2 * Window /\ u + Window < b.resetAt}

Span(t) == t .. (t + Window - 1)

\* At time n a counter says what passed since its window began, and the
\* instants before it meet only one other window; g is the history of the key.
Counts(n, b, g) ==
  /\ \A u \in Times : u > n => g[u] = 0
  /\ b = NoBucket => \A u \in Times : g[u] = 0
  /\ b # NoBucket =>
       /\ Window <= b.resetAt /\ b.resetAt <= n + Window
       /\ \A u \in Times : u > b.resetAt => g[u] = 0
       /\ Total(g, Since(b)) = b.count
       /\ Total(g, Before(b)) <= Limit

WindowsKept == \A k \in Keys : Counts(now, unswept[k], admitted[k])

\* The instants of a window are finitely many.
LEMMA TimesFinite ==
  ASSUME NEW S \in SUBSET Times
  PROVE  IsFiniteSet(S)
<1>1. IsFiniteSet(Times)
  BY LimiterAssumption, FS_Interval DEF Times
<1>2. QED
  BY <1>1, FS_Subset

\* One more request at an instant.
LEMMA OneMore ==
  ASSUME NEW g \in [Times -> Nat], NEW n \in Times, NEW S \in SUBSET Times
  PROVE  Total([g EXCEPT ![n] = @ + 1], S) = Total(g, S) + (IF n \in S THEN 1 ELSE 0)
<1> DEFINE h == [g EXCEPT ![n] = @ + 1]
<1>0. IsFiniteSet(S)
  BY TimesFinite
<1>1. /\ \A x \in S : g[x] \in Nat /\ h[x] \in Nat
      /\ \A x \in S \ {n} : h[x] = g[x]
      /\ h[n] = g[n] + 1 /\ g[n] \in Nat
  OBVIOUS
<1> HIDE DEF h
<1>2. Total(g, S) \in Nat
  BY <1>0, <1>1, TotalType
<1>3. CASE n \in S
  <2>1. Total(h, S) = Total(g, S) + 1
    <3>1. /\ Total(g, S) = g[n] + Total(g, S \ {n})
          /\ Total(h, S) = h[n] + Total(g, S \ {n})
          /\ Total(g, S \ {n}) \in Nat
      BY <1>0, <1>1, <1>3, TotalUpdate
    <3>2. QED
      BY <1>1, <3>1
  <2>2. QED
    BY <1>3, <2>1 DEF h
<1>4. CASE n \notin S
  <2>1. Total(h, S) = Total(g, S)
    BY <1>0, <1>1, <1>4, TotalSame
  <2>2. QED
    BY <1>2, <1>4, <2>1 DEF h
<1>5. QED
  BY <1>3, <1>4

\* What passed in two sets of instants that cover a third.
LEMMA CoveredBy ==
  ASSUME NEW g \in [Times -> Nat], NEW S \in SUBSET Times, NEW R \in SUBSET Times,
         NEW T \in SUBSET (S \cup R)
  PROVE  /\ Total(g, T) <= Total(g, S) + Total(g, R)
         /\ Total(g, T) \in Nat /\ Total(g, S) \in Nat /\ Total(g, R) \in Nat
<1>1. /\ IsFiniteSet(S) /\ IsFiniteSet(R) /\ IsFiniteSet(T \cap S) /\ IsFiniteSet(T \ S)
      /\ T = (T \cap S) \cup (T \ S)
  BY TimesFinite
<1>2. /\ \A x \in S : g[x] \in Nat
      /\ \A x \in R : g[x] \in Nat
      /\ \A x \in (T \cap S) \cup (T \ S) : g[x] \in Nat
  OBVIOUS
<1>3. /\ Total(g, T \cap S) \in Nat /\ Total(g, T \cap S) <= Total(g, S)
      /\ Total(g, S) \in Nat
  BY <1>1, <1>2, TotalSubset, TotalType
<1>4. /\ Total(g, T \ S) \in Nat /\ Total(g, T \ S) <= Total(g, R)
      /\ Total(g, R) \in Nat
  <2>1. T \ S \in SUBSET R
    OBVIOUS
  <2>2. QED
    BY <1>1, <1>2, <2>1, TotalSubset, TotalType
<1>5. Total(g, T) = Total(g, T \cap S) + Total(g, T \ S)
  <2>1. Total(g, (T \cap S) \cup (T \ S)) = Total(g, T \cap S) + Total(g, T \ S)
    BY <1>1, <1>2, TotalUnion
  <2>2. QED
    BY <1>1, <2>1
<1>6. QED
  BY <1>3, <1>4, <1>5

\* The spans of a client, as sums.
LEMMA SpansBounded ==
  /\ AtMostTwice <=>
       \A k \in Keys : \A t \in Starts : Total(admitted[k], Span(t)) <= 2 * Limit
  /\ AtMostTwice' <=>
       \A k \in Keys : \A t \in Starts : Total(admitted'[k], Span(t)) <= 2 * Limit
BY DEF AtMostTwice, Starts, InSpan, Span, Total, MapThenSumSet, MapThenFoldSet

\* Every step keeps what each unswept counter says of the requests that passed.
LEMMA WindowsStep ==
  ASSUME LimiterInv, WindowsKept, AtMostTwice, [LimiterNext]_lvars
  PROVE  WindowsKept' /\ AtMostTwice'
<1> USE LimiterAssumption DEF LimiterInv, LimiterTypeOK
<1>1. CASE admitted' = admitted /\ unswept' = unswept /\ now' \in Nat /\ now <= now'
  <2>1. AtMostTwice'
    BY <1>1, SpansBounded
  <2>2. ASSUME NEW b \in Bucket \cup {NoBucket}, NEW g, Counts(now, b, g)
        PROVE  Counts(now', b, g)
    BY <1>1, <2>2 DEF Counts, Bucket, Times
  <2>3. WindowsKept'
    BY <1>1, <2>2 DEF WindowsKept
  <2>4. QED
    BY <2>1, <2>3
<1>2. ASSUME NEW k \in Keys, Allow(k)
      PROVE  WindowsKept' /\ AtMostTwice'
  <2> DEFINE b == unswept[k]
             c == Counted(b)
             g == admitted[k]
             h == [g EXCEPT ![now] = @ + 1]
  <2>1. /\ now' = now /\ now \in Times
        /\ unswept' = [unswept EXCEPT ![k] = c]
        /\ admitted' = [admitted EXCEPT ![k] = h]
        /\ g \in [Times -> Nat] /\ h \in [Times -> Nat]
    BY <1>2 DEF Allow, Times
  <2>2. Admits(b)
    BY <1>2 DEF Allow, Admits, Agree
  <2>3. c \in Bucket /\ b \in Bucket \cup {NoBucket}
    BY <2>2, CountedType
  <2>4. \A S \in SUBSET Times : Total(h, S) = Total(g, S) + (IF now \in S THEN 1 ELSE 0)
    BY <2>1, OneMore
  <2>5. /\ Since(c) \in SUBSET Times /\ Before(c) \in SUBSET Times
        /\ Since(b) \in SUBSET Times /\ Before(b) \in SUBSET Times
    BY DEF Since, Before
  <2>6. Counts(now, b, g) /\ (~Current(b) => b = NoBucket \/ b.resetAt < now)
    BY <2>1, <2>3 DEF WindowsKept, Current, Bucket
  <2>7. IF Current(b) THEN b # NoBucket /\ c.resetAt = b.resetAt /\ c.count = b.count + 1
        ELSE c.resetAt = now + Window /\ c.count = 1
    BY DEF Counted, Current
  <2> HIDE DEF b, c, g, h
  <2>8. /\ now \in Since(c) /\ now \notin Before(c)
        /\ Window <= c.resetAt /\ c.resetAt <= now + Window
    <3>1. Window <= c.resetAt /\ c.resetAt <= now + Window
      BY <2>1, <2>3, <2>6, <2>7 DEF Counts, Times
    <3>2. QED
      BY <2>1, <2>3, <3>1 DEF Since, Before, Times, Bucket
  <2>9. /\ \A u \in Times : u > now => h[u] = 0
        /\ \A u \in Times : u > c.resetAt => h[u] = 0
    <3>1. now <= c.resetAt
      BY <2>1, <2>3, <2>7 DEF Times, Current, Bucket
    <3>2. \A u \in Times : u > now => h[u] = 0
      BY <2>1, <2>6 DEF Counts, Times, h
    <3>3. QED
      BY <2>1, <2>3, <3>1, <3>2 DEF Times, Bucket
  <2>10. Total(h, Since(c)) = c.count /\ Total(h, Before(c)) <= Limit
    <3>1. Total(h, Since(c)) = Total(g, Since(c)) + 1 /\ Total(h, Before(c)) = Total(g, Before(c)) + 0
      BY <2>4, <2>5, <2>8
    <3>2. Total(g, Since(c)) \in Nat /\ Total(g, Before(c)) \in Nat
      BY <2>1, <2>5, CoveredBy
    <3>3. CASE Current(b)
      <4>1. Since(c) = Since(b) /\ Before(c) = Before(b)
        BY <2>7, <3>3 DEF Since, Before
      <4>2. Total(g, Since(b)) = b.count /\ Total(g, Before(b)) <= Limit
        BY <2>6, <2>7, <3>3 DEF Counts
      <4>3. QED
        BY <2>7, <3>1, <3>2, <3>3, <4>1, <4>2
    <3>4. CASE ~Current(b)
      <4>1. \A u \in Since(c) : g[u] = 0
        <5>1. \A u \in Since(c) : u \in Times /\ now <= u
          BY <2>1, <2>7, <3>4 DEF Since, Times
        <5>2. CASE b = NoBucket
          BY <2>6, <5>1, <5>2 DEF Counts
        <5>3. CASE b # NoBucket
          BY <2>1, <2>3, <2>6, <3>4, <5>1, <5>3 DEF Counts, Bucket, Times
        <5>4. QED
          BY <5>2, <5>3
      <4>2. Total(g, Since(c)) = 0
        BY <2>5, <4>1, TimesFinite, TotalZero
      <4>3. Total(g, Before(c)) <= Limit
        <5>1. CASE b = NoBucket
          <6>1. \A u \in Before(c) : g[u] = 0
            BY <5>1, <2>5, <2>6 DEF Counts
          <6>2. Total(g, Before(c)) = 0
            BY <2>5, <6>1, TimesFinite, TotalZero
          <6>3. QED
            BY <6>2
        <5>2. CASE b # NoBucket
          <6>1. b \in Bucket /\ b.resetAt < now
            BY <2>3, <2>6, <3>4, <5>2
          <6>2. Before(c) \in SUBSET (Since(b) \cup {})
            BY <2>1, <2>7, <3>4, <6>1 DEF Since, Before, Bucket, Times
          <6>3. Total(g, Before(c)) <= Total(g, Since(b)) + Total(g, {})
            BY <2>1, <2>5, <6>2, CoveredBy
          <6>4. Total(g, Since(b)) = b.count
            BY <5>2, <2>6 DEF Counts
          <6>5. QED
            BY <3>2, <6>1, <6>3, <6>4, TotalEmpty DEF Bucket
        <5>3. QED
          BY <5>1, <5>2
      <4>4. QED
        BY <2>7, <3>1, <3>2, <3>4, <4>2, <4>3
    <3>5. QED
      BY <3>3, <3>4
  <2>11. WindowsKept'
    <3>1. Counts(now, c, h)
      BY <2>3, <2>8, <2>9, <2>10 DEF Counts, Bucket
    <3>2. ASSUME NEW i \in Keys
          PROVE  Counts(now', unswept'[i], admitted'[i])
      BY <2>1, <3>1 DEF WindowsKept
    <3>3. QED
      BY <3>2 DEF WindowsKept
  <2>12. ASSUME NEW t \in Starts
         PROVE  Total(h, Span(t)) <= 2 * Limit
    <3>1. Span(t) \in SUBSET Times
      BY DEF Starts, Span, Times
    <3>2. CASE now \notin Span(t)
      <4>1. Total(h, Span(t)) = Total(g, Span(t)) + 0
        BY <2>4, <3>1, <3>2
      <4>2. Total(g, Span(t)) <= 2 * Limit /\ Total(g, Span(t)) \in Nat
        <5>1. Total(g, Span(t)) <= 2 * Limit
          BY SpansBounded DEF g
        <5>2. Total(g, Span(t)) \in Nat
          BY <2>1, <3>1, CoveredBy
        <5>3. QED
          BY <5>1, <5>2
      <4>3. QED
        BY <4>1, <4>2
    <3>3. CASE now \in Span(t)
      <4>1. Span(t) \in SUBSET (Since(c) \cup Before(c))
        BY <2>1, <2>3, <2>8, <3>1, <3>3 DEF Span, Since, Before, Starts, Times, Bucket
      <4>2. Total(h, Span(t)) <= Total(h, Since(c)) + Total(h, Before(c))
            /\ Total(h, Span(t)) \in Nat /\ Total(h, Before(c)) \in Nat
        BY <2>1, <2>5, <4>1, CoveredBy
      <4>3. c.count \in Nat /\ c.count <= Limit
        BY <2>3 DEF Bucket
      <4>4. QED
        BY <2>10, <4>2, <4>3
    <3>4. QED
      BY <3>2, <3>3
  <2>13. AtMostTwice'
    <3>1. \A i \in Keys : i # k => admitted'[i] = admitted[i]
      BY <2>1
    <3>2. admitted'[k] = h
      BY <2>1
    <3>3. QED
      BY <2>12, <3>1, <3>2, SpansBounded
  <2>14. QED
    BY <2>11, <2>13
<1>3. CASE Sweep \/ ClockTicks \/ UNCHANGED lvars
  BY <1>1, <1>3 DEF Sweep, ClockTicks, lvars
<1>4. QED
  BY <1>2, <1>3 DEF LimiterNext

\* However requests, sweeps and time interleave, no client gets more than
\* twice the limit through in any span as long as a window.
THEOREM SpansHold == LimiterSpec => []AtMostTwice
<1>1. LimiterInit => WindowsKept /\ AtMostTwice
  <2> SUFFICES ASSUME LimiterInit PROVE WindowsKept /\ AtMostTwice
    OBVIOUS
  <2> USE LimiterAssumption DEF LimiterInit
  <2>1. WindowsKept
    BY DEF WindowsKept, Counts, Times
  <2>2. ASSUME NEW k \in Keys, NEW t \in Starts
        PROVE  Total(admitted[k], Span(t)) = 0
    <3>1. Span(t) \in SUBSET Times
      BY DEF Starts, Span, Times
    <3>2. \A u \in Span(t) : admitted[k][u] = 0
      BY <3>1 DEF Times
    <3>3. QED
      BY <3>1, <3>2, TimesFinite, TotalZero
  <2>3. AtMostTwice
    BY <2>2, SpansBounded
  <2>4. QED
    BY <2>1, <2>3
<1>2. QED
  BY <1>1, WindowsStep, LimiterInvariant, PTL DEF LimiterSpec

-----------------------------------------------------------------------------
(* The budget.                                                              *)

\* What a charged usage knows of the bytes that stand and the uploads.
Covers(usage) ==
  /\ usage.bytes = standing
  /\ usage.month <= month
  /\ uploads <= IF usage.month = month THEN usage.classA ELSE 0

BudgetInv ==
  /\ BudgetTypeOK
  /\ Covers(spent)
  /\ Covers(onDisk)
  /\ HardCeiling

\* Multiplication by a price is monotone.
LEMMA TimesMonotone ==
  ASSUME NEW m \in Nat, NEW n \in Nat, NEW price \in Nat, m <= n
  PROVE  m * price \in Nat /\ m * price <= n * price
<1>1. PICK d \in Nat : n = m + d
  <2>1. n - m \in Nat /\ n = m + (n - m)
    OBVIOUS
  <2>q. QED
    BY <2>1
<1>2. d * price \in Nat /\ m * price \in Nat
  OBVIOUS
<1>3. n * price = m * price + d * price
  BY <1>1
<1>q. QED
  BY <1>2, <1>3

\* More bytes and more operations never cost less.
LEMMA CostMonotone ==
  ASSUME NEW b1 \in Nat, NEW b2 \in Nat, NEW a1 \in Nat, NEW a2 \in Nat, NEW c \in Nat,
         b1 <= b2, a1 <= a2
  PROVE  /\ R2Cost(b1, a1, 0) \in Nat
         /\ R2Cost(b1, a1, 0) <= R2Cost(b2, a2, c)
<1>0. /\ StorageUsd \in Nat /\ ClassAUsd \in Nat /\ ClassBUsd \in Nat
      /\ FreeBytes \in Nat /\ FreeClassA \in Nat /\ FreeClassB \in Nat
  BY BudgetAssumption
<1> DEFINE storage(b) == Over(b, FreeBytes) * StorageUsd
           writes(a) == Over(a, FreeClassA) * ClassAUsd
           reads(n) == Over(n, FreeClassB) * ClassBUsd
<1>1. storage(b1) \in Nat /\ storage(b2) \in Nat /\ storage(b1) <= storage(b2)
  <2>1. /\ Over(b1, FreeBytes) \in Nat /\ Over(b2, FreeBytes) \in Nat
        /\ Over(b1, FreeBytes) <= Over(b2, FreeBytes)
    BY <1>0 DEF Over
  <2>q. QED
    BY <1>0, <2>1, TimesMonotone
<1>2. writes(a1) \in Nat /\ writes(a2) \in Nat /\ writes(a1) <= writes(a2)
  <2>1. /\ Over(a1, FreeClassA) \in Nat /\ Over(a2, FreeClassA) \in Nat
        /\ Over(a1, FreeClassA) <= Over(a2, FreeClassA)
    BY <1>0 DEF Over
  <2>q. QED
    BY <1>0, <2>1, TimesMonotone
<1>3. reads(0) \in Nat /\ reads(c) \in Nat /\ reads(0) <= reads(c)
  <2>1. /\ Over(0, FreeClassB) \in Nat /\ Over(c, FreeClassB) \in Nat
        /\ Over(0, FreeClassB) <= Over(c, FreeClassB)
    BY <1>0 DEF Over
  <2>q. QED
    BY <1>0, <2>1, TimesMonotone
<1>4. /\ R2Cost(b1, a1, 0) = storage(b1) + writes(a1) + reads(0)
      /\ R2Cost(b2, a2, c) = storage(b2) + writes(a2) + reads(c)
  BY DEF R2Cost
<1> HIDE DEF storage, writes, reads
<1>q. QED
  BY <1>1, <1>2, <1>3, <1>4

\* A cost is a natural number.
LEMMA CostType ==
  ASSUME NEW b \in Nat, NEW a \in Nat, NEW c \in Nat
  PROVE  R2Cost(b, a, c) \in Nat
<1>1. /\ Over(b, FreeBytes) \in Nat /\ Over(a, FreeClassA) \in Nat
      /\ Over(c, FreeClassB) \in Nat
      /\ StorageUsd \in Nat /\ ClassAUsd \in Nat /\ ClassBUsd \in Nat
  BY BudgetAssumption DEF Over
<1>2. /\ Over(b, FreeBytes) * StorageUsd \in Nat
      /\ Over(a, FreeClassA) * ClassAUsd \in Nat
      /\ Over(c, FreeClassB) * ClassBUsd \in Nat
  BY <1>1, TimesMonotone
<1>q. QED
  BY <1>2 DEF R2Cost

\* A usage with other bytes and more operations.
LEMMA ChargedFacts ==
  ASSUME NEW usage \in Usage, NEW bytes \in Nat, NEW ops \in Nat
  PROVE  LET charged == Charged(usage, bytes, ops)
         IN /\ charged \in Usage
            /\ charged.month = usage.month /\ charged.bytes = bytes
            /\ charged.classA = usage.classA + ops
BY DEF Usage, Charged

\* Fewer bytes and fewer uploads keep within the budget.
LEMMA CeilingKept ==
  ASSUME BudgetTypeOK, BudgetTypeOK', HardCeiling,
         standing' <= standing, uploads' <= uploads
  PROVE  HardCeiling'
<1>1. R2Cost(standing', uploads', 0) <= R2Cost(standing, uploads, 0)
  BY CostMonotone DEF BudgetTypeOK
<1>2. R2Cost(standing', uploads', 0) \in Nat /\ R2Cost(standing, uploads, 0) \in Nat
  BY CostType DEF BudgetTypeOK
<1>q. QED
  BY <1>1, <1>2, BudgetAssumption DEF HardCeiling

\* An empty bucket costs nothing.
LEMMA BudgetInitInv == BudgetInit => BudgetInv
<1> SUFFICES ASSUME BudgetInit
             PROVE  BudgetInv
  OBVIOUS
<1>1. R2Cost(0, 0, 0) = 0
  BY BudgetAssumption DEF R2Cost, Over
<1>q. QED
  BY <1>1, BudgetAssumption
  DEF BudgetInit, BudgetInv, BudgetTypeOK, Usage, Covers, HardCeiling

\* The usage of the current month covers what stands and was uploaded in it.
LEMMA RolledFacts ==
  ASSUME BudgetInv
  PROVE  /\ Rolled \in Usage
         /\ Rolled.month = month /\ Rolled.bytes = standing /\ uploads <= Rolled.classA
BY DEF BudgetInv, BudgetTypeOK, Covers, Rolled, Usage

\* Every step keeps the usage, in memory and on disk, above what it must cover.
LEMMA BudgetStep ==
  ASSUME BudgetInv, [BudgetNext]_bvars
  PROVE  BudgetInv'
<1>t. BudgetTypeOK /\ Covers(spent) /\ Covers(onDisk) /\ HardCeiling
  BY DEF BudgetInv
<1>1. CASE UNCHANGED bvars
  BY <1>t, <1>1 DEF bvars, BudgetInv, BudgetTypeOK, Covers, HardCeiling
<1>2. CASE BudgetStatus
  BY <1>t, <1>2, RolledFacts
  DEF BudgetStatus, BudgetInv, BudgetTypeOK, Covers, HardCeiling, Usage
<1>3. ASSUME NEW bytes \in 0 .. MaxBytes, NEW ops \in {0, 1}, Admit(bytes, ops)
      PROVE  BudgetInv'
  <2>n. bytes \in Nat /\ ops \in Nat
    BY BudgetAssumption
  <2>1. CASE ~Affordable(bytes, ops)
    BY <1>t, <1>3, <2>1, RolledFacts
    DEF Admit, BudgetInv, BudgetTypeOK, Covers, HardCeiling, Usage
  <2>2. CASE Affordable(bytes, ops)
    <3>1. /\ spent' = Charged(Rolled, Rolled.bytes + bytes, ops)
          /\ onDisk' = spent'
          /\ standing' = standing + bytes /\ uploads' = uploads + ops /\ month' = month
      BY <1>3, <2>2 DEF Admit, Persisted
    <3>2. BudgetTypeOK' /\ Covers(spent)' /\ Covers(onDisk)'
      <4>1. /\ spent' \in Usage
            /\ spent'.month = month /\ spent'.bytes = standing + bytes
            /\ spent'.classA = Rolled.classA + ops
        <5>1. /\ standing + bytes \in Nat
              /\ spent' = Charged(Rolled, standing + bytes, ops)
          BY <1>t, <2>n, <3>1, RolledFacts DEF BudgetTypeOK
        <5>q. QED
          BY <2>n, <5>1, RolledFacts, ChargedFacts
      <4>2. uploads + ops <= Rolled.classA + ops /\ Rolled.classA \in Nat
        BY <1>t, <2>n, RolledFacts DEF Usage, BudgetTypeOK
      <4>q. QED
        BY <1>t, <2>n, <3>1, <4>1, <4>2 DEF BudgetTypeOK, Covers
    <3>3. HardCeiling'
      <4> DEFINE cost == R2Cost(standing + bytes, Rolled.classA + ops, Rolled.classB)
      <4>1. cost <= BudgetUsd
        BY <2>2, RolledFacts DEF Affordable
      <4>2. /\ R2Cost(standing + bytes, uploads + ops, 0) \in Nat
            /\ R2Cost(standing + bytes, uploads + ops, 0) <= cost
        <5>1. PICK b \in Nat, a1 \in Nat, a2 \in Nat, c \in Nat :
                /\ b = standing + bytes /\ a1 = uploads + ops
                /\ a2 = Rolled.classA + ops /\ c = Rolled.classB
                /\ a1 <= a2 /\ b <= b
          BY <1>t, <2>n, RolledFacts DEF BudgetTypeOK, Usage
        <5>2. R2Cost(b, a1, 0) \in Nat /\ R2Cost(b, a1, 0) <= R2Cost(b, a2, c)
          BY <5>1, CostMonotone
        <5>q. QED
          BY <5>1, <5>2
      <4>3. cost \in Int
        BY <1>t, <2>n, RolledFacts, BudgetAssumption
        DEF R2Cost, Over, BudgetTypeOK, Usage
      <4>q. QED
        BY <3>1, <4>1, <4>2, <4>3, BudgetAssumption DEF HardCeiling
    <3>q. QED
      BY <3>2, <3>3 DEF BudgetInv
  <2>q. QED
    BY <2>1, <2>2
<1>4. ASSUME NEW bytes \in 0 .. MaxBytes, NEW ops \in {0, 1}, Release(bytes, ops)
      PROVE  BudgetInv'
  <2>1. BudgetTypeOK' /\ Covers(spent)' /\ Covers(onDisk)'
    <3>1. /\ bytes \in Nat /\ ops \in Nat /\ bytes <= standing
          /\ standing' = standing - bytes /\ UNCHANGED <<month, uploads>>
          /\ onDisk' = spent'
          /\ spent' = Charged(spent, Over(spent.bytes, bytes), ops)
      BY <1>4, BudgetAssumption DEF Release, Persisted
    <3>2. Over(standing, bytes) = standing - bytes /\ standing - bytes \in Nat
      BY <1>t, <3>1 DEF Over, BudgetTypeOK
    <3>3. /\ spent' \in Usage
          /\ spent'.month = spent.month /\ spent'.bytes = standing - bytes
          /\ spent'.classA = spent.classA + ops
      <4>1. /\ standing - bytes \in Nat
            /\ spent' = Charged(spent, standing - bytes, ops)
        BY <1>t, <3>1, <3>2 DEF Covers
      <4>2. spent \in Usage /\ ops \in Nat
        BY <1>t, <3>1 DEF BudgetTypeOK
      <4>q. QED
        BY <4>1, <4>2, ChargedFacts
    <3>4. spent.classA \in Nat /\ spent.month \in Nat
      BY <1>t DEF BudgetTypeOK, Usage
    <3>q. QED
      BY <1>t, <3>1, <3>2, <3>3, <3>4 DEF BudgetTypeOK, Covers
  <2>2. standing' <= standing /\ uploads' <= uploads
    BY <1>t, <1>4, BudgetAssumption DEF Release, BudgetTypeOK
  <2>q. QED
    BY <1>t, <2>1, <2>2, CeilingKept DEF BudgetInv
<1>5. CASE RecordReads(1)
  BY <1>t, <1>5, RolledFacts
  DEF RecordReads, Persisted, BudgetInv, BudgetTypeOK, Covers, HardCeiling, Usage
<1>6. CASE MonthEnds
  <2>1. BudgetTypeOK' /\ Covers(spent)' /\ Covers(onDisk)'
    BY <1>t, <1>6 DEF MonthEnds, BudgetTypeOK, Covers, Usage
  <2>2. standing' <= standing /\ uploads' <= uploads
    BY <1>t, <1>6 DEF MonthEnds, BudgetTypeOK
  <2>q. QED
    BY <1>t, <2>1, <2>2, CeilingKept DEF BudgetInv
<1>7. CASE BudgetReread
  BY <1>t, <1>7 DEF BudgetReread, BudgetInv, BudgetTypeOK, Covers, HardCeiling
<1>q. QED
  BY <1>1, <1>2, <1>3, <1>4, <1>5, <1>6, <1>7 DEF BudgetNext

\* For every price, allowance and order of calls, months and evictions, the bytes
\* that stand and the uploads of a month cost no more than the budget.
THEOREM CeilingHolds == BudgetSpec => []HardCeiling
BY BudgetInitInv, BudgetStep, PTL DEF BudgetSpec, BudgetInv

-----------------------------------------------------------------------------
(* The parts together.                                                      *)

\* Each part behaves in the composition as it does alone.
LEMMA Composition ==
  EntrySpec => Spec /\ LimiterSpec /\ DownloadsSpec /\ BudgetSpec
<1>1. EntryInit => Init /\ LimiterInit /\ DownloadsInit /\ BudgetInit
  BY DEF EntryInit
<1>2. [EntryNext]_<<vars, lvars, dvars, bvars, about>> =>
        [Next]_vars /\ [LimiterNext]_lvars /\ [DownloadsNext]_dvars /\ [BudgetNext]_bvars
  BY DEF EntryNext
<1>q. QED
  BY <1>1, <1>2, PTL DEF EntrySpec, Spec, LimiterSpec, DownloadsSpec, BudgetSpec

\* All parts of the entry keep their types: no copy is used past its life, no
\* counter exceeds its limit and no cache its bound.
THEOREM EntryTypeCorrect == EntrySpec => []EntryTypeOK
<1>1. BudgetSpec => []BudgetTypeOK
  BY BudgetInitInv, BudgetStep, PTL DEF BudgetSpec, BudgetInv
<1>2. DownloadsSpec => [](DownloadsTypeOK /\ OwnersBounded)
  <2>1. Inv => DownloadsTypeOK
    BY DEF Inv
  <2>q. QED
    BY <2>1, Invariant, OwnersStayBounded, PTL
<1>3. TypeOK /\ LimiterTypeOK /\ DownloadsTypeOK /\ OwnersBounded /\ BudgetTypeOK => EntryTypeOK
  BY DEF EntryTypeOK
<1>q. QED
  BY <1>1, <1>2, <1>3, Composition, GatesTypeCorrect, LimiterTypeCorrect, PTL

\* The same for the limit of the rate limiter, within the composition.
THEOREM EntrySpansLimited == EntrySpec => []SpansLimited
<1>1. AtMostTwice => SpansLimited
  BY DEF SpansLimited
<1>q. QED
  BY <1>1, Composition, SpansHold, PTL
=============================================================================
