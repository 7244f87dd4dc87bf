---------------------------- MODULE DeviceAccess ----------------------------
(***************************************************************************)
(* Who may use a device: the gates of the entry (worker/src/index.ts) and   *)
(* the registry object behind them (worker/src/registry-do.ts).             *)
(*                                                                          *)
(* The registry holds the token of every registered device and the set of   *)
(* disabled ones, in memory and in storage.  Each isolate of the entry      *)
(* keeps a copy of both for Ttl.  A request reads the copies, or asks the   *)
(* registry, in the order of authorizeRelay; POST /mcp and the WebSocket    *)
(* upgrade repeat the same gates in line.  The files API keeps a copy of    *)
(* the tokens of its own (worker/src/files-routes.ts).  Administrators      *)
(* change the registry through an isolate, which first drops its copies.    *)
(*                                                                          *)
(* What is decided before any device is looked at (gateway token, rate      *)
(* limit, origin, the form of an id) is left out: Arrive is a request that  *)
(* got this far.  A token is a model value; the ways to send one, and the   *)
(* rewriting of the forwarded request, are not modelled.  Time is counted   *)
(* in ticks, and a call to the registry takes at most Latency of them.      *)
(***************************************************************************)
EXTENDS Integers, FiniteSets

CONSTANTS Devices,      \* device ids
          Virtual,      \* VIRTUAL_DEVICE_IDS
          Tokens,       \* credentials
          SharedToken,  \* DEVICE_TOKEN, None when it is not set
          Seed,         \* DEVICE_TOKENS
          VirtualSeed,  \* VIRTUAL_DEVICE_TOKENS
          Stored,       \* what the storage may hold when the behaviour begins
          Isolates,     \* isolates of the entry
          Apis,         \* {"relay", "files"}: the routes of index.ts, /api/files
          Requests,     \* requests under way at one time
          Ttl,          \* MAP_CACHE_TTL_MS
          Latency,      \* the longest call to the registry
          MaxChanges,   \* bound: changes made by administrators
          Faults,       \* {"unreachable", "crash"}: calls may fail, the registry may restart
          None

ASSUME ConstantsAssumption ==
  /\ Virtual \subseteq Devices
  /\ Apis \subseteq {"relay", "files"}
  /\ None \notin Tokens \cup Isolates \cup Requests
  /\ SharedToken \in Tokens \cup {None}
  /\ Seed \in [Devices -> Tokens \cup {None}]
  /\ VirtualSeed \in [Devices -> Tokens \cup {None}]
  /\ Stored \subseteq [Devices -> Tokens \cup {None}]
  /\ Ttl \in Nat \ {0} /\ Latency \in Nat /\ MaxChanges \in Nat

VARIABLES tokens,         \* RegistryDO.tokens
          disabled,       \* RegistryDO.disabled
          saved,          \* its storage: device_tokens and disabled
          mapCache,       \* per isolate and API: mapCache, None when unset or past its Ttl
          disabledCache,  \* per isolate: disabledCache
          req,            \* the requests
          answer,         \* what the last step answered, and to which request
          admin,          \* the administrator's request
          changes,        \* changes made so far (bound)
          calm,           \* history: ticks since the registry changed or a call failed
          known           \* history, per device: "no", "new", "old" or "removed"

vars == <<tokens, disabled, saved, mapCache, disabledCache, req, answer, admin,
          changes, calm, known>>
registry == <<tokens, disabled, saved, changes, known>>

Maps == [Devices -> Tokens \cup {None}]
Empty == [d \in Devices |-> None]

\* After this long without a change every decision follows the registry.
Settling == Ttl + 2 * Latency

Waiting == {"askMap", "gotMap", "askFresh", "gotFresh", "askDisabled", "gotDisabled"}

NoRequest == [pc |-> "idle", at |-> None, api |-> None, device |-> None, given |-> None,
              map |-> Empty, set |-> {}, wait |-> 0, due |-> FALSE]
NoAnswer == [to |-> None, is |-> None]
AdminRest == [pc |-> "idle", op |-> None, device |-> None, token |-> None]

-----------------------------------------------------------------------------
(* The registry object.                                                     *)

Overlay(map, over) == [d \in Devices |-> IF over[d] # None THEN over[d] ELSE map[d]]

\* What the constructor makes of the storage: the seed only for an empty
\* registry, the tokens of the virtual devices always.
Rebuilt(stored) ==
  Overlay(IF stored = Empty THEN Seed ELSE stored, VirtualSeed)

Restarted(stored) ==
  /\ tokens' = Rebuilt(stored.tokens)
  /\ disabled' = stored.disabled
  /\ saved' = [stored EXCEPT !.tokens = Rebuilt(stored.tokens)]

\* A device that a restart seeds is no longer one to be registered.
KnownSeeded ==
  [d \in Devices |-> IF known[d] = "no" /\ tokens'[d] # None THEN "old" ELSE known[d]]

\* The state after POST /upsert, /setstate and /remove.
Upserted(d, t) ==
  /\ tokens' = [tokens EXCEPT ![d] = t]
  /\ saved' = [saved EXCEPT !.tokens = tokens']
  /\ known' = [known EXCEPT ![d] = IF @ = "no" THEN "new" ELSE "old"]
  /\ UNCHANGED disabled

\* Mutant: the disabled set is changed in memory only.
StateSetUnsaved(d, dis) ==
  /\ disabled' = IF dis THEN disabled \cup {d} ELSE disabled \ {d}
  /\ UNCHANGED <<saved, tokens, known>>

StateSet(d, dis) ==
  /\ disabled' = IF dis THEN disabled \cup {d} ELSE disabled \ {d}
  /\ saved' = [saved EXCEPT !.disabled = disabled']
  /\ UNCHANGED <<tokens, known>>

Removed(d) ==
  /\ tokens' = [tokens EXCEPT ![d] = None]
  /\ disabled' = disabled \ {d}
  /\ saved' = [tokens |-> tokens', disabled |-> disabled']
  /\ known' = [known EXCEPT ![d] = "removed"]

\* The registry restarts between the writes of /remove: the tokens are stored,
\* the disabled set is not.
RemoveCut(d) ==
  /\ Restarted([saved EXCEPT !.tokens = [tokens EXCEPT ![d] = None]])
  /\ known' = [KnownSeeded EXCEPT ![d] = "removed"]

-----------------------------------------------------------------------------
(* Decisions of the entry.                                                  *)

\* Mutant: virtual devices count as well.
PerDeviceAny(map) == \E d \in Devices : map[d] # None

\* hasNonVirtualDevice: real devices alone put the gateway in per-device mode.
PerDevice(map) == \E d \in Devices \ Virtual : map[d] # None

Unknown(map, d) == PerDevice(map) /\ map[d] = None

Expected(map, d) == IF map[d] # None THEN map[d] ELSE SharedToken

Refused(map, d, given) ==
  Unknown(map, d) \/ (Expected(map, d) # None /\ given # Expected(map, d))

\* How the routes go on behind the gates: POST /mcp serves virtual devices in
\* the isolate; streams, their messages, downloads and upgrades turn them away.
McpServed(d) == IF d \in Virtual THEN "cloud" ELSE "relayed"
StreamServed(d) == IF d \in Virtual THEN "noTunnel" ELSE "relayed"
DownloadServed(d) == StreamServed(d)
UpgradeServed(d) == StreamServed(d)

Outcomes(set, d) ==
  IF d \in set
  THEN {"deviceDisabled"}
  ELSE {McpServed(d), StreamServed(d), DownloadServed(d), UpgradeServed(d)}

\* Request r is answered: "unauthorized", "deviceDisabled", "cloud", "noTunnel",
\* "relayed", or "authorized" by the files API.
Settle(r, outcome) ==
  /\ req' = [req EXCEPT ![r] = NoRequest]
  /\ answer' = [to |-> r, is |-> outcome]

-----------------------------------------------------------------------------
(* Requests.  A step ends where the code awaits.                            *)

\* effectiveDeviceMap, deviceMap: the copy while it is fresh, else the registry
\* is asked.
Arrive(r, i, a, d, t) ==
  /\ req[r].pc = "idle"
  /\ req' = [req EXCEPT ![r] =
       [pc |-> IF mapCache[<<i, a>>] # None THEN "map" ELSE "askMap",
        at |-> i, api |-> a, device |-> d, given |-> t,
        map |-> IF mapCache[<<i, a>>] # None THEN mapCache[<<i, a>>].map ELSE Empty,
        set |-> {}, wait |-> 0,
        due |-> /\ a = "relay" /\ known[d] = "new" /\ t = tokens[d]]]
  /\ UNCHANGED <<registry, mapCache, disabledCache, admin, calm>>

\* GET /map and GET /disabled at the registry.  A call that fails reads as an
\* answer without devices.
AnswerMap(r) ==
  /\ req[r].pc \in {"askMap", "askFresh"}
  /\ \E fails \in BOOLEAN :
       /\ fails => "unreachable" \in Faults
       /\ req' = [req EXCEPT ![r].pc = IF @ = "askMap" THEN "gotMap" ELSE "gotFresh",
                             ![r].map = IF fails THEN Empty ELSE tokens]
       /\ calm' = IF fails THEN 0 ELSE calm
  /\ UNCHANGED <<registry, mapCache, disabledCache, admin>>

AnswerDisabled(r) ==
  /\ req[r].pc = "askDisabled"
  /\ \E fails \in BOOLEAN :
       /\ fails => "unreachable" \in Faults
       /\ req' = [req EXCEPT ![r].pc = "gotDisabled",
                             ![r].set = IF fails THEN {} ELSE disabled]
       /\ calm' = IF fails THEN 0 ELSE calm
  /\ UNCHANGED <<registry, mapCache, disabledCache, admin>>

\* The answer reaches the isolate, which keeps a copy whatever it is.
MapArrives(r) ==
  /\ req[r].pc = "gotMap"
  /\ mapCache' = [mapCache EXCEPT ![<<req[r].at, req[r].api>>] = [map |-> req[r].map, age |-> 0]]
  /\ req' = [req EXCEPT ![r].pc = "map", ![r].wait = 0]
  /\ UNCHANGED <<registry, disabledCache, admin, calm>>

\* resolveDeviceMap: a copy that lacks the device is not trusted.
AskFresh(r) ==
  /\ req[r].pc = "map" /\ req[r].api = "relay"
  /\ Unknown(req[r].map, req[r].device)
  /\ req' = [req EXCEPT ![r].pc = "askFresh", ![r].wait = 0]
  /\ UNCHANGED <<registry, mapCache, disabledCache, admin, calm>>

\* Mutant: the copy is believed when it lacks the device.
ResolvedFromCopy(r) ==
  req[r].api = "relay" /\ req[r].pc \in {"map", "gotFresh"}

Resolved(r) ==
  /\ req[r].api = "relay"
  /\ \/ req[r].pc = "map" /\ ~Unknown(req[r].map, req[r].device)
     \/ req[r].pc = "gotFresh"

Unauthorized(r) ==
  /\ Resolved(r)
  /\ Refused(req[r].map, req[r].device, req[r].given)
  /\ Settle(r, "unauthorized")
  /\ UNCHANGED <<registry, mapCache, disabledCache, admin, calm>>

\* effectiveDisabledSet, with a fresh copy.
DisabledCached(r) ==
  /\ Resolved(r)
  /\ ~Refused(req[r].map, req[r].device, req[r].given)
  /\ disabledCache[req[r].at] # None
  /\ \E o \in Outcomes(disabledCache[req[r].at].set, req[r].device) : Settle(r, o)
  /\ UNCHANGED <<registry, mapCache, disabledCache, admin, calm>>

AskDisabled(r) ==
  /\ Resolved(r)
  /\ ~Refused(req[r].map, req[r].device, req[r].given)
  /\ disabledCache[req[r].at] = None
  /\ req' = [req EXCEPT ![r].pc = "askDisabled", ![r].map = Empty, ![r].wait = 0]
  /\ UNCHANGED <<registry, mapCache, disabledCache, admin, calm>>

DisabledArrives(r) ==
  /\ req[r].pc = "gotDisabled"
  /\ disabledCache' = [disabledCache EXCEPT ![req[r].at] = [set |-> req[r].set, age |-> 0]]
  /\ \E o \in Outcomes(req[r].set, req[r].device) : Settle(r, o)
  /\ UNCHANGED <<registry, mapCache, admin, calm>>

\* authorizeDevice, the gate of the files API: the token of the device and
\* nothing else.
FilesDecision(r) ==
  /\ req[r].pc = "map" /\ req[r].api = "files"
  /\ LET expected == req[r].map[req[r].device]
     IN Settle(r, IF expected # None /\ req[r].given = expected
                  THEN "authorized" ELSE "unauthorized")
  /\ UNCHANGED <<registry, mapCache, disabledCache, admin, calm>>

-----------------------------------------------------------------------------
(* Administration: the isolate drops its copies, then calls the registry.   *)

DropMap(i) ==
  mapCache' = [c \in Isolates \X Apis |-> IF c = <<i, "relay">> THEN None ELSE mapCache[c]]
DropDisabled(i) ==
  disabledCache' = [j \in Isolates |-> IF j = i THEN None ELSE disabledCache[j]]

\* i is None for an isolate that is not in the model.
AdminSends(i, op, d, t) ==
  /\ admin.pc = "idle"
  /\ changes < MaxChanges
  /\ op = "upsert" <=> t # None
  /\ DropMap(i)
  /\ IF op = "upsert" THEN UNCHANGED disabledCache ELSE DropDisabled(i)
  /\ admin' = [pc |-> "sent", op |-> op, device |-> d, token |-> t]
  /\ UNCHANGED <<registry, req, calm>>

AdminApplied ==
  /\ admin.pc = "sent"
  /\ CASE admin.op = "upsert"  -> Upserted(admin.device, admin.token)
       [] admin.op = "disable" -> StateSet(admin.device, TRUE)
       [] admin.op = "enable"  -> StateSet(admin.device, FALSE)
       [] admin.op = "remove"  -> Removed(admin.device)
  /\ admin' = AdminRest
  /\ changes' = changes + 1
  /\ calm' = 0
  /\ UNCHANGED <<mapCache, disabledCache, req>>

\* The registry object is evicted; its next call rebuilds it from storage.
Restart ==
  /\ "crash" \in Faults
  /\ Restarted(saved)
  /\ known' = KnownSeeded
  /\ calm' = IF tokens' = tokens /\ disabled' = disabled THEN calm ELSE 0
  /\ UNCHANGED <<changes, mapCache, disabledCache, req, admin>>

RemoveInterrupted ==
  /\ "crash" \in Faults
  /\ admin.pc = "sent" /\ admin.op = "remove"
  /\ RemoveCut(admin.device)
  /\ admin' = AdminRest
  /\ changes' = changes + 1
  /\ calm' = 0
  /\ UNCHANGED <<mapCache, disabledCache, req>>

-----------------------------------------------------------------------------
(* Time passes while nothing is ready to run: no longer than Latency for a  *)
(* call, and a copy is used until it is Ttl old.                            *)

\* Mutant: a copy is used however old it is.
AgedNever(entry) ==
  IF entry = None THEN None ELSE [entry EXCEPT !.age = @ + 1]

Aged(entry) ==
  IF entry = None \/ entry.age + 1 >= Ttl THEN None ELSE [entry EXCEPT !.age = @ + 1]

Tick ==
  /\ \A r \in Requests :
       req[r].pc # "map" /\ (req[r].pc \in Waiting => req[r].wait < Latency)
  /\ req' = [r \in Requests |->
       IF req[r].pc \in Waiting THEN [req[r] EXCEPT !.wait = @ + 1] ELSE req[r]]
  /\ mapCache' = [c \in Isolates \X Apis |-> Aged(mapCache[c])]
  /\ disabledCache' = [i \in Isolates |-> Aged(disabledCache[i])]
  /\ calm' = IF calm < Settling THEN calm + 1 ELSE calm
  /\ UNCHANGED <<registry, admin>>

Init ==
  /\ \E stored \in Stored : tokens = Rebuilt(stored)
  /\ disabled = {}
  /\ saved = [tokens |-> tokens, disabled |-> {}]
  /\ mapCache = [c \in Isolates \X Apis |-> None]
  /\ disabledCache = [i \in Isolates |-> None]
  /\ req = [r \in Requests |-> NoRequest]
  /\ answer = NoAnswer
  /\ admin = AdminRest
  /\ changes = 0
  /\ calm = 0
  /\ known = [d \in Devices |-> IF tokens[d] # None THEN "old" ELSE "no"]

Decision ==
  \E r \in Requests :
    Unauthorized(r) \/ DisabledCached(r) \/ DisabledArrives(r) \/ FilesDecision(r)

OtherStep ==
  /\ \/ \E r \in Requests :
          \/ \E i \in Isolates, a \in Apis, d \in Devices, t \in Tokens :
               Arrive(r, i, a, d, t)
          \/ AnswerMap(r) \/ AnswerDisabled(r)
          \/ MapArrives(r) \/ AskFresh(r) \/ AskDisabled(r)
     \/ \E i \in Isolates \cup {None}, op \in {"upsert", "disable", "enable", "remove"},
           d \in Devices, t \in Tokens \cup {None} : AdminSends(i, op, d, t)
     \/ AdminApplied
     \/ Restart \/ RemoveInterrupted
     \/ Tick
  /\ answer' = NoAnswer

Next == Decision \/ OtherStep

Spec == Init /\ [][Next]_vars

-----------------------------------------------------------------------------
(* Properties.                                                              *)

\* Every variable has its type; no copy outlives its Ttl and no call Latency.
TypeOK ==
  /\ tokens \in Maps
  /\ disabled \subseteq Devices
  /\ saved \in [tokens : Maps, disabled : SUBSET Devices]
  /\ \A c \in Isolates \X Apis :
       mapCache[c] # None => mapCache[c].map \in Maps /\ mapCache[c].age \in 0 .. Ttl
  /\ \A i \in Isolates :
       /\ disabledCache[i] # None =>
            disabledCache[i].set \subseteq Devices /\ disabledCache[i].age \in 0 .. Ttl
  /\ \A r \in Requests :
       /\ req[r].pc \in {"idle", "map"} \cup Waiting
       /\ req[r].map \in Maps /\ req[r].set \subseteq Devices
       /\ req[r].wait \in 0 .. Latency
  /\ calm \in 0 .. Settling

Admitted(api, d, given) ==
  IF tokens[d] # None
  THEN given = tokens[d]
  ELSE api = "relay" /\ (\A e \in Devices : tokens[e] # None => e \in Virtual) /\ SharedToken \in {None, given}

\* Once the registry has not changed and no call to it has failed for the life
\* of a copy and two calls, both gates decide as the registry says, whatever
\* copies and answers are about (index.ts:84-86, "other isolates pick the change
\* up within the TTL"): a removed device is out and a registered one is in; a
\* disabled one is out at the relay, and still in at the files API, whose
\* authorizeDevice looks at the token alone (files-routes.ts:98-116).
SettledDecision ==
  [][\A r \in Requests :
       answer'.to = r /\ calm = Settling =>
         LET d == req[r].device
             outcome == answer'.is
         IN IF ~Admitted(req[r].api, d, req[r].given)
            THEN outcome = "unauthorized"
            ELSE IF req[r].api = "files"
            THEN outcome = "authorized"
            ELSE /\ outcome \notin {"unauthorized", "authorized"}
                 /\ outcome = "deviceDisabled" <=> d \in disabled]_vars

\* "Disabled devices are rejected with 403 by the gateway entry before any
\* request reaches a tunnel/DO" (registry-do.ts:271-272): once the registry has
\* settled nothing gets past the gates for a disabled device.  The files API,
\* which goes on to the files object of the device, never asks.
DisabledTurnedAway ==
  [][\A r \in Requests :
       answer'.to = r /\ calm = Settling /\ req[r].device \in disabled =>
         answer'.is \in {"unauthorized", "deviceDisabled"}]_vars

\* A device registered for the first time is not turned away by an old copy:
\* a request that presents its token once the registry has it is not
\* unauthorized (index.ts:156-163, "without a fresh read, a legitimate
\* first connection right after registration would be spuriously 401'd").
NewDeviceKnown ==
  [][\A r \in Requests :
       req[r].due /\ known[req[r].device] = "new" /\ answer'.to = r =>
         answer'.is # "unauthorized"]_vars

\* The registry survives a restart: only an administrator changes a token or
\* the disabled set, as long as anything was stored and apart from the virtual
\* devices, whose tokens are set again (registry-do.ts:62-110).
RegistryKept ==
  [][changes' = changes /\ saved.tokens # Empty =>
       /\ \A d \in Devices : VirtualSeed[d] = None => tokens'[d] = tokens[d]
       /\ disabled' = disabled]_vars
=============================================================================
