------------------------------ MODULE DeviceDO ------------------------------
(***************************************************************************)
(* The Durable Object that owns one device: the WebSocket tunnel the       *)
(* device keeps open, the JSON-RPC requests relayed over it, the legacy    *)
(* SSE streams, the download slots, the keepalive alarm, and the marker    *)
(* the object keeps in the global registry (worker/src/device-do.ts).      *)
(*                                                                         *)
(* A Durable Object runs one event at a time and yields only at an await,  *)
(* so one action is the code between two awaits.  Handlers that await (the *)
(* upgrade awaits the registry, /mcp and /messages await the body) are two *)
(* actions; everything else is one.                                        *)
(*                                                                         *)
(* Time is discrete: a tick is the registry refresh interval, and Grace,   *)
(* Keepalive and RosterTtl count ticks.  The per-request timeout and the   *)
(* stream idle timeout have no clock: they may fire at any moment.         *)
(***************************************************************************)
EXTENDS Naturals, FiniteSets

CONSTANTS
  Sockets,      \* server ends of the WebSockets the device ever opens
  HttpReqs,     \* POST /mcp requests
  SseReqs,      \* POST /messages requests
  Streams,      \* GET /sse sessions (a session id is never used twice)
  Downloads,    \* GET /download transfers
  MaxPending,   \* MAX_PENDING_PER_DEVICE
  MaxStreams,   \* MAX_SSE_SESSIONS
  MaxDownloads, \* the literal 4 of DownloadRelay.start
  Grace,        \* TUNNEL_REPLACE_GRACE_MS, in ticks
  Keepalive,    \* KEEPALIVE_TIMEOUT_MS, in ticks
  RosterTtl,    \* ONLINE_TTL_MS of the registry, in ticks
  None          \* no socket, no stream, no alarm, no roster entry

Requests == HttpReqs \cup SseReqs

ASSUME RequestsAssumption == HttpReqs \cap SseReqs = {}
ASSUME LimitsAssumption ==
  /\ MaxPending \in Nat
  /\ MaxStreams \in Nat
  /\ MaxDownloads \in Nat
ASSUME ClockAssumption ==
  /\ Keepalive \in Nat \ {0}
  /\ Grace \in 0 .. Keepalive
  /\ RosterTtl \in Nat \ {0}
ASSUME NoneAssumption ==
  /\ None \notin Sockets \cup Streams
  /\ None \notin Nat

VARIABLES
  ws,       \* this.ws: the attached tunnel
  sock,     \* the runtime's state of every socket
  age,      \* ticks since the lastSeen of a socket's attachment
  alarm,    \* ticks until the storage alarm, 0 when it is due
  due,      \* now - lastRegistryAt >= REGISTRY_REFRESH_MS
  calls,    \* calls to the registry under way: <<operation, socket>>
  roster,   \* age of this device's entry in the registry's online map, which
            \* may be past RosterTtl until a listing sweeps it
  phase,    \* how far the handler of a request has come
  via,      \* the socket a request was sent on
  target,   \* the stream a POST /messages names
  outcome,  \* what became of a request
  stream,   \* sseSessions: "open" while the map holds the id
  download  \* DownloadRelay.transfers: "active" while the map holds the id

tunnelVars   == <<ws, sock, age, alarm>>
registryVars == <<due, calls, roster>>
requestVars  == <<phase, via, target, outcome>>
streamVars   == <<stream, download>>
vars == <<tunnelVars, registryVars, requestVars, streamVars>>

(***************************************************************************)
(* A socket is accepted when the object attaches it and open once the      *)
(* upgrade was answered with 101.  After close() it is closing until the   *)
(* peer acknowledges; when the peer goes first it is ended until the       *)
(* runtime delivers webSocketClose or webSocketError.                      *)
(***************************************************************************)
SocketStates == {"unused", "accepted", "open", "closing", "ended", "gone"}
Phases       == {"new", "body", "pending", "done"}
Outcomes     == {"none", "offline", "busy", "refused", "unknown", "result",
                 "timeout", "failed", "dropped", "crashed", "cut"}
Operations   == {"register", "registered", "unaccepted", "refresh",
                 "unregister"}

TypeOK ==
  /\ ws \in Sockets \cup {None}
  /\ sock \in [Sockets -> SocketStates]
  /\ age \in [Sockets -> 0 .. Keepalive + 1]
  /\ alarm \in 0 .. Keepalive \cup {None}
  /\ due \in BOOLEAN
  /\ calls \subseteq Operations \X Sockets
  /\ roster \in 0 .. RosterTtl + 1 \cup {None}
  /\ phase \in [Requests -> Phases]
  /\ via \in [Requests -> Sockets \cup {None}]
  /\ target \in [Requests -> Streams \cup {None}]
  /\ outcome \in [Requests -> Outcomes]
  /\ stream \in [Streams -> {"unused", "open", "closed"}]
  /\ download \in [Downloads -> {"unused", "active", "over"}]

Init ==
  /\ ws = None
  /\ sock = [s \in Sockets |-> "unused"]
  /\ age = [s \in Sockets |-> 0]
  /\ alarm = None
  /\ due = TRUE
  /\ calls = {}
  /\ roster = None
  /\ phase = [r \in Requests |-> "new"]
  /\ via = [r \in Requests |-> None]
  /\ target = [r \in Requests |-> None]
  /\ outcome = [r \in Requests |-> "none"]
  /\ stream = [k \in Streams |-> "unused"]
  /\ download = [d \in Downloads |-> "unused"]

Pending       == {r \in Requests : phase[r] = "pending"}
OpenStreams   == {k \in Streams : stream[k] = "open"}
ActiveDownloads == {d \in Downloads : download[d] = "active"}

\* The test of every relay path: a tunnel is attached and its readyState is 1.
Online == ws # None /\ sock[ws] \in {"accepted", "open"}

\* Mutant: the replaced socket is not closed.
AfterCloseForgotten(s) == sock[s]

\* close() called by the object: without effect when the peer has gone first.
AfterClose(s) == IF sock[s] = "ended" THEN "ended" ELSE "closing"

\* A request leaves the relay with outcome o.
Finish(r, o) ==
  /\ phase' = [phase EXCEPT ![r] = "done"]
  /\ outcome' = [outcome EXCEPT ![r] = o]

(***************************************************************************)
(* failDevice: every transfer fails, every pending request is answered (an *)
(* HTTP request with 503, an SSE request with an error frame on its still  *)
(* open stream), then every stream is closed.                              *)
(***************************************************************************)
FailDevice ==
  /\ phase' = [r \in Requests |-> IF r \in Pending THEN "done" ELSE phase[r]]
  /\ outcome' = [r \in Requests |->
                   IF r \in Pending THEN "failed" ELSE outcome[r]]
  /\ stream' = [k \in Streams |->
                  IF stream[k] = "open" THEN "closed" ELSE stream[k]]
  /\ download' = [d \in Downloads |->
                    IF download[d] = "active" THEN "over" ELSE download[d]]
  /\ UNCHANGED <<via, target>>

-----------------------------------------------------------------------------
(* The tunnel: upgrade, frames, close. *)

\* Mutant: the grace period is over one instant early.
MayAttachEarly == ws # None => age[ws] >= Grace

\* May a new connection of the device take the tunnel?
MayAttach == ws # None => age[ws] > Grace

\* handleUpgrade up to the await of the registry.  A refused duplicate (409)
\* changes nothing.
Upgrade(s) ==
  /\ sock[s] = "unused"
  /\ MayAttach
  /\ IF ws = None
     THEN /\ sock' = [sock EXCEPT ![s] = "accepted"]
          /\ UNCHANGED <<requestVars, streamVars>>
     ELSE /\ sock' = [sock EXCEPT ![s] = "accepted", ![ws] = AfterClose(ws)]
          /\ FailDevice
  /\ ws' = s
  /\ age' = [age EXCEPT ![s] = 0]
  /\ calls' = calls \cup {<<"register", s>>}
  /\ UNCHANGED <<alarm, due, roster>>

\* Mutant: the deadline is counted from the next tick.
UpgradeAnsweredLate(s) ==
  \E op \in {"registered", "unaccepted"} :
    /\ <<op, s>> \in calls
    /\ calls' = calls \ {<<op, s>>}
    /\ due' = (due /\ op = "unaccepted")
    /\ alarm' = Keepalive + 1
    /\ sock' = [sock EXCEPT ![s] = IF @ = "accepted" THEN "open" ELSE @]
    /\ UNCHANGED <<ws, age, roster, requestVars, streamVars>>

\* The registry answered, or the call failed and the catch swallowed it:
\* the watchdog is armed and the device receives the 101.
UpgradeAnswered(s) ==
  \E op \in {"registered", "unaccepted"} :
    /\ <<op, s>> \in calls
    /\ calls' = calls \ {<<op, s>>}
    /\ due' = (due /\ op = "unaccepted")
    /\ alarm' = Keepalive
    /\ sock' = [sock EXCEPT ![s] = IF @ = "accepted" THEN "open" ELSE @]
    /\ UNCHANGED <<ws, age, roster, requestVars, streamVars>>

\* Mutant: frames do not refresh the registry entry.
HeardUnlisted(s) ==
  /\ ws = s
  /\ sock[s] \in {"open", "closing"}
  /\ age' = [age EXCEPT ![s] = 0]
  /\ alarm' = Keepalive
  /\ UNCHANGED <<ws, sock, due, calls, roster>>

\* The head of webSocketMessage: a frame of any other socket is ignored, one
\* of the attached socket restarts the watchdog and refreshes the registry
\* entry, at most once per refresh interval.
Heard(s) ==
  /\ ws = s
  /\ sock[s] \in {"open", "closing"}
  /\ age' = [age EXCEPT ![s] = 0]
  /\ alarm' = Keepalive
  /\ due' = FALSE
  /\ calls' = IF due THEN calls \cup {<<"refresh", s>>} ELSE calls
  /\ UNCHANGED <<ws, sock, roster>>

\* keepalive, register, an unknown type, a reply to a request nobody awaits.
Frame(s) == Heard(s) /\ UNCHANGED <<requestVars, streamVars>>

\* resolveFromDevice: the reply of a pending request.
Response(s, r) ==
  /\ r \in Pending
  /\ Heard(s)
  /\ Finish(r, "result")
  /\ UNCHANGED <<via, target, streamVars>>

\* A download-head, -chunk or -error frame that ends its transfer; one that
\* does not is a Frame.
DownloadFrame(s, d) ==
  /\ download[d] = "active"
  /\ Heard(s)
  /\ download' = [download EXCEPT ![d] = "over"]
  /\ UNCHANGED <<requestVars, stream>>

\* The device closes the connection, or the runtime sees it break.
PeerEnds(s) ==
  /\ sock[s] \in {"open", "closing"}
  /\ sock' = [sock EXCEPT ![s] = "ended"]
  /\ UNCHANGED <<ws, age, alarm, registryVars, requestVars, streamVars>>

\* Mutant: failDevice runs whichever socket closed.
SocketClosedAny(s) ==
  /\ sock[s] = "ended"
  /\ sock' = [sock EXCEPT ![s] = "gone"]
  /\ age' = [age EXCEPT ![s] = 0]
  /\ ws' = IF ws = s THEN None ELSE ws
  /\ calls' = IF ws = s THEN calls \cup {<<"unregister", s>>} ELSE calls
  /\ FailDevice
  /\ UNCHANGED <<alarm, due, roster>>

\* webSocketClose and webSocketError: only the attached socket counts.
SocketClosed(s) ==
  /\ sock[s] = "ended"
  /\ sock' = [sock EXCEPT ![s] = "gone"]
  /\ age' = [age EXCEPT ![s] = 0]
  /\ IF ws = s
     THEN /\ ws' = None
          /\ calls' = calls \cup {<<"unregister", s>>}
          /\ FailDevice
     ELSE UNCHANGED <<ws, calls, requestVars, streamVars>>
  /\ UNCHANGED <<alarm, due, roster>>

\* Mutant: a tunnel that is not overdue is not watched any further.
AlarmOnce ==
  /\ alarm = 0
  /\ alarm' = None
  /\ IF ws # None /\ age[ws] > Keepalive
     THEN /\ sock' = [sock EXCEPT ![ws] = AfterClose(ws)]
          /\ ws' = None
          /\ FailDevice
     ELSE UNCHANGED <<ws, sock, requestVars, streamVars>>
  /\ UNCHANGED <<age, registryVars>>

\* The storage alarm.  A tunnel that is not overdue by the strict comparison
\* gets a whole further period; an overdue one is dropped without telling the
\* registry.
Alarm ==
  /\ alarm = 0
  /\ \/ /\ ws = None
        /\ alarm' = None
        /\ UNCHANGED <<ws, sock, requestVars, streamVars>>
     \/ /\ ws # None
        /\ age[ws] > Keepalive
        /\ sock' = [sock EXCEPT ![ws] = AfterClose(ws)]
        /\ ws' = None
        /\ alarm' = None
        /\ FailDevice
     \/ /\ ws # None
        /\ age[ws] <= Keepalive
        /\ alarm' = Keepalive
        /\ UNCHANGED <<ws, sock, requestVars, streamVars>>
  /\ UNCHANGED <<age, registryVars>>

-----------------------------------------------------------------------------
(* The registry, a Durable Object of its own.  Each call is a fetch on a    *)
(* stub of its own, so calls under way may be applied in any order, and one *)
(* may fail.                                                                *)

RegistryApplies(op, s) ==
  /\ <<op, s>> \in calls
  /\ \/ /\ op = "register"
        /\ calls' = (calls \ {<<op, s>>}) \cup {<<"registered", s>>}
        /\ roster' = 0
     \/ /\ op = "refresh"
        /\ calls' = calls \ {<<op, s>>}
        /\ roster' = 0
     \/ /\ op = "unregister"
        /\ calls' = calls \ {<<op, s>>}
        /\ roster' = None
  /\ UNCHANGED <<due, tunnelVars, requestVars, streamVars>>

RegistryFails(op, s) ==
  /\ <<op, s>> \in calls
  /\ \/ /\ op = "register"
        /\ calls' = (calls \ {<<op, s>>}) \cup {<<"unaccepted", s>>}
     \/ /\ op \in {"refresh", "unregister"}
        /\ calls' = calls \ {<<op, s>>}
  /\ UNCHANGED <<due, roster, tunnelVars, requestVars, streamVars>>

\* Mutant: a listing reports whatever entry there is.
ListedUnswept == roster # None

\* Would a listing of the registry, which sweeps before it answers, report
\* the device?
Listed == roster # None /\ roster <= RosterTtl

\* A listing (GET /devices, /full) removes an entry past its TTL, from memory
\* and from storage.
RegistryLists ==
  /\ roster # None
  /\ ~Listed
  /\ roster' = None
  /\ UNCHANGED <<due, calls, tunnelVars, requestVars, streamVars>>

\* An administrator removes the device (POST /remove), whose tunnel stays.
RegistryRemoves ==
  /\ roster # None
  /\ roster' = None
  /\ UNCHANGED <<due, calls, tunnelVars, requestVars, streamVars>>

\* The registry is evicted and rebuilt.  Storage has the ids of the map, which
\* is saved with every change, but not the times: every entry is fresh again.
RegistryRestarts ==
  /\ roster # None
  /\ roster' = 0
  /\ UNCHANGED <<due, calls, tunnelVars, requestVars, streamVars>>

-----------------------------------------------------------------------------
(* POST /mcp *)

\* handleMcp up to the await of the body: the device must be online and the
\* pending budget not used up.
McpArrives(r) ==
  /\ r \in HttpReqs
  /\ phase[r] = "new"
  /\ \/ ~Online /\ Finish(r, "offline")
     \/ /\ Online
        /\ Cardinality(Pending) >= MaxPending
        /\ Finish(r, "busy")
     \/ /\ Online
        /\ Cardinality(Pending) < MaxPending
        /\ phase' = [phase EXCEPT ![r] = "body"]
        /\ UNCHANGED outcome
  /\ UNCHANGED <<tunnelVars, registryVars, via, target, streamVars>>

\* The body is too large, is no JSON, or cannot be read, or the send throws.
BodyRefused(r) ==
  /\ phase[r] = "body"
  /\ Finish(r, "refused")
  /\ UNCHANGED <<tunnelVars, registryVars, via, target, streamVars>>

\* The request is entered in the pending map and sent on the tunnel.
Relay(r) ==
  /\ phase' = [phase EXCEPT ![r] = "pending"]
  /\ via' = [via EXCEPT ![r] = ws]
  /\ UNCHANGED outcome

\* Mutant: the tunnel seen before the await is used after it.
McpBodyUnchecked(r) ==
  /\ r \in HttpReqs
  /\ phase[r] = "body"
  /\ Relay(r)
  /\ UNCHANGED <<tunnelVars, registryVars, target, streamVars>>

\* The rest of handleMcp: the tunnel is looked up again, the budget is not.
McpBody(r) ==
  /\ r \in HttpReqs
  /\ phase[r] = "body"
  /\ \/ Online /\ Relay(r)
     \/ ~Online /\ Finish(r, "offline") /\ UNCHANGED via
  /\ UNCHANGED <<tunnelVars, registryVars, target, streamVars>>

\* Mutant: the timer of a settled request fires all the same.
ExpirePendingTwice(r) ==
  /\ phase[r] \in {"pending", "done"}
  /\ Finish(r, "timeout")
  /\ UNCHANGED <<tunnelVars, registryVars, via, target, streamVars>>

\* Mutant: only SSE requests have a timer.
ExpirePendingSse(r) ==
  /\ r \in Pending \cap SseReqs
  /\ Finish(r, "timeout")
  /\ UNCHANGED <<tunnelVars, registryVars, via, target, streamVars>>

\* setTimeout(expirePending): 504, or an error frame on the stream.
ExpirePending(r) ==
  /\ r \in Pending
  /\ Finish(r, "timeout")
  /\ UNCHANGED <<tunnelVars, registryVars, via, target, streamVars>>

-----------------------------------------------------------------------------
(* GET /sse and POST /messages *)

\* handleSse; a 503 changes nothing.
SseOpens(k) ==
  /\ stream[k] = "unused"
  /\ Cardinality(OpenStreams) < MaxStreams
  /\ Online
  /\ stream' = [stream EXCEPT ![k] = "open"]
  /\ UNCHANGED <<tunnelVars, registryVars, requestVars, download>>

\* Mutant: the stream's requests stay in the pending map.
CloseSessionOnly(k) ==
  /\ stream[k] = "open"
  /\ stream' = [stream EXCEPT ![k] = "closed"]
  /\ UNCHANGED <<tunnelVars, registryVars, requestVars, download>>

\* closeSession, from the client's cancel or the idle timer: the stream's
\* pending requests are forgotten without a frame.
CloseSession(k) ==
  /\ stream[k] = "open"
  /\ stream' = [stream EXCEPT ![k] = "closed"]
  /\ LET lost == {r \in Pending : r \in SseReqs /\ target[r] = k}
     IN  /\ phase' = [r \in Requests |-> IF r \in lost THEN "done" ELSE phase[r]]
         /\ outcome' = [r \in Requests |->
                          IF r \in lost THEN "dropped" ELSE outcome[r]]
  /\ UNCHANGED <<tunnelVars, registryVars, via, target, download>>

\* handleMessages up to the await of the body.
MessageArrives(r, k) ==
  /\ r \in SseReqs
  /\ phase[r] = "new"
  /\ target' = [target EXCEPT ![r] = k]
  /\ \/ stream[k] # "open" /\ Finish(r, "unknown")
     \/ /\ stream[k] = "open"
        /\ phase' = [phase EXCEPT ![r] = "body"]
        /\ UNCHANGED outcome
  /\ UNCHANGED <<tunnelVars, registryVars, via, streamVars>>

\* The rest of handleMessages: tunnel and budget are checked now, the session
\* is fetched without a check, and a missing one is a TypeError.
MessageBody(r) ==
  /\ r \in SseReqs
  /\ phase[r] = "body"
  /\ \/ ~Online /\ Finish(r, "offline") /\ UNCHANGED via
     \/ /\ Online
        /\ Cardinality(Pending) >= MaxPending
        /\ Finish(r, "busy")
        /\ UNCHANGED via
     \/ /\ Online
        /\ Cardinality(Pending) < MaxPending
        /\ IF target[r] \in OpenStreams
           THEN Relay(r)
           ELSE Finish(r, "crashed") /\ UNCHANGED via
  /\ UNCHANGED <<tunnelVars, registryVars, target, streamVars>>

-----------------------------------------------------------------------------
(* GET /download: the slots only, DownloadRelay has the transfer. *)

DownloadStarts(d) ==
  /\ download[d] = "unused"
  /\ Online
  /\ Cardinality(ActiveDownloads) < MaxDownloads
  /\ download' = [download EXCEPT ![d] = "active"]
  /\ UNCHANGED <<tunnelVars, registryVars, requestVars, stream>>

\* The client goes away or a transfer timer fires.
DownloadStops(d) ==
  /\ download[d] = "active"
  /\ download' = [download EXCEPT ![d] = "over"]
  /\ UNCHANGED <<tunnelVars, registryVars, requestVars, stream>>

-----------------------------------------------------------------------------
(* Time, hibernation and restarts. *)

Older(n, limit) == IF n < limit THEN n + 1 ELSE limit

Tick ==
  /\ age' = [s \in Sockets |->
               IF sock[s] \in {"unused", "gone"} THEN age[s]
               ELSE Older(age[s], Keepalive + 1)]
  /\ alarm' = IF alarm \in {None, 0} THEN alarm ELSE alarm - 1
  /\ roster' = IF roster = None THEN None ELSE Older(roster, RosterTtl + 1)
  /\ due' = TRUE
  /\ UNCHANGED <<ws, sock, calls, requestVars, streamVars>>

\* Nothing keeps the object in memory: no handler, timer or call of it is
\* under way.
Idle ==
  /\ calls = {}
  /\ \A r \in Requests : phase[r] \in {"new", "done"}
  /\ OpenStreams = {}
  /\ ActiveDownloads = {}

\* Hibernation and wake: memory is lost, the constructor takes the first
\* socket the runtime still holds.  That list has no documented order, and
\* it may still name a socket whose end was not delivered yet.
Wake ==
  /\ Idle
  /\ \E late \in SUBSET {s \in Sockets : sock[s] = "ended"} :
       LET held == {s \in Sockets : sock[s] \in {"open", "closing"}} \cup late
       IN  IF held = {} THEN ws' = None ELSE ws' \in held
  /\ due' = TRUE
  /\ UNCHANGED <<sock, age, alarm, calls, roster, requestVars, streamVars>>

\* The object is evicted while at work (a deployment, a crash): its sockets
\* break without an event, its handlers die, calls already sent may still be
\* applied and the storage alarm survives.
Restart ==
  /\ ws' = None
  /\ sock' = [s \in Sockets |-> IF sock[s] = "unused" THEN "unused" ELSE "gone"]
  /\ age' = [s \in Sockets |-> 0]
  /\ due' = TRUE
  /\ calls' = {<<"refresh", s>> : s \in {t \in Sockets :
                   {<<"register", t>>, <<"refresh", t>>} \cap calls # {}}}
              \cup {c \in calls : c[1] = "unregister"}
  /\ LET cut == {r \in Requests : phase[r] \in {"body", "pending"}}
     IN  /\ phase' = [r \in Requests |-> IF r \in cut THEN "done" ELSE phase[r]]
         /\ outcome' = [r \in Requests |->
                          IF r \in cut THEN "cut" ELSE outcome[r]]
  /\ stream' = [k \in Streams |->
                  IF stream[k] = "open" THEN "closed" ELSE stream[k]]
  /\ download' = [d \in Downloads |->
                    IF download[d] = "active" THEN "over" ELSE download[d]]
  /\ UNCHANGED <<alarm, roster, via, target>>

-----------------------------------------------------------------------------
TunnelStep ==
  \E s \in Sockets : \/ Upgrade(s)
                     \/ UpgradeAnswered(s)
                     \/ Frame(s)
                     \/ \E r \in Requests : Response(s, r)
                     \/ \E d \in Downloads : DownloadFrame(s, d)
                     \/ PeerEnds(s)
                     \/ SocketClosed(s)

RegistryStep ==
  \/ \E op \in {"register", "refresh", "unregister"}, s \in Sockets :
       RegistryApplies(op, s) \/ RegistryFails(op, s)
  \/ RegistryLists
  \/ RegistryRemoves
  \/ RegistryRestarts

RelayStep ==
  \/ \E r \in Requests : \/ McpArrives(r)
                         \/ McpBody(r)
                         \/ MessageBody(r)
                         \/ BodyRefused(r)
                         \/ ExpirePending(r)
                         \/ \E k \in Streams : MessageArrives(r, k)
  \/ \E k \in Streams : SseOpens(k) \/ CloseSession(k)
  \/ \E d \in Downloads : DownloadStarts(d) \/ DownloadStops(d)

\* Every step of an object that stays in memory until it is restarted.
AwakeNext == TunnelStep \/ RegistryStep \/ RelayStep \/ Alarm \/ Tick \/ Restart

Next == AwakeNext \/ Wake

AwakeSpec == Init /\ [][AwakeNext]_vars
Spec == Init /\ [][Next]_vars
(***************************************************************************)
(* What the runtime and the platform guarantee: time passes, a due alarm   *)
(* and a pending close event are delivered, timers fire, bodies arrive or  *)
(* fail, calls to the registry end, and a registry that is called again    *)
(* and again is reached again and again.  Nothing is assumed of devices    *)
(* and clients.                                                            *)
(***************************************************************************)
Fairness ==
  /\ WF_vars(Tick)
  /\ WF_vars(Alarm)
  /\ \A s \in Sockets :
       /\ WF_vars(UpgradeAnswered(s))
       /\ WF_vars(SocketClosed(s))
       /\ SF_vars(RegistryApplies("refresh", s))
       /\ \A op \in {"register", "refresh", "unregister"} :
            WF_vars(RegistryApplies(op, s) \/ RegistryFails(op, s))
  /\ \A r \in Requests :
       /\ WF_vars(McpBody(r) \/ MessageBody(r) \/ BodyRefused(r))
       /\ WF_vars(ExpirePending(r))

FairAwakeSpec == AwakeSpec /\ Fairness

-----------------------------------------------------------------------------
(* Properties. *)

\* A pending request was sent on the tunnel that is attached now: whatever
\* detaches a tunnel (replacement, close, error, alarm) settles its requests,
\* so a reply on a later tunnel can never answer an earlier tunnel's request.
PendingOnTunnel ==
  \A r \in Pending : ws # None /\ via[r] = ws

\* Streams and transfers never outlive the tunnel that serves them.
StreamsNeedTunnel ==
  ws = None => OpenStreams = {} /\ ActiveDownloads = {}

\* An in-flight SSE request always has an open stream to answer on: the frame
\* of a reply, a timeout or a device failure is never pushed to a stream that
\* is gone.
PendingHasStream ==
  \A r \in Pending \cap SseReqs : target[r] \in OpenStreams

\* Requests, streams and the tunnel go together: both of the above.
StreamsServed == StreamsNeedTunnel /\ PendingHasStream

\* A request fails with the tunnel only when the tunnel it was sent on is lost:
\* the late close of a replaced socket never fails the requests of the tunnel
\* that took its place.
FailedOnlyByLoss ==
  \A r \in Requests :
    outcome[r] = "failed" => sock[via[r]] \in {"closing", "ended", "gone"}

\* A socket whose 101 was sent and that nobody closed is the attached tunnel:
\* no device is left talking on a socket the object ignores.
OpenIsAttached ==
  \A s \in Sockets : sock[s] \in {"accepted", "open"} => ws = s

\* An attached tunnel is watched: the alarm is set, or the upgrade that will
\* set it still awaits the registry.
Watched ==
  ws # None =>
    \/ alarm # None
    \/ \E op \in {"register", "registered", "unaccepted"} : <<op, ws>> \in calls

\* No live socket is ignored and no attached one is unwatched, whatever order
\* upgrades, their awaits, late closes and alarms take.
SocketsCared == OpenIsAttached /\ Watched

\* A request is settled once: whichever of reply, timeout, device failure and
\* stream close comes first takes it out of the pending map.
SettledOnce ==
  [][\A r \in Requests :
       phase[r] = "done" => phase'[r] = "done" /\ outcome'[r] = outcome[r]]_vars

\* A tunnel heard from within the grace period is detached by nothing but its
\* own end or a restart: neither another connection nor the alarm takes it.
FreshTunnelKept ==
  [][\A s \in Sockets :
       ws = s /\ sock[s] = "open" /\ age[s] <= Grace
         => ws' = s \/ sock'[s] = "gone"]_vars

\* Every accepted request is settled.
RequestsSettled ==
  \A r \in Requests : phase[r] \in {"body", "pending"} ~> phase[r] = "done"

\* A tunnel that falls silent does not stay attached.
SilentTunnelDropped ==
  []<>(ws = None \/ age[ws] = 0)

\* A tunnel that stays attached and keeps sending frames is listed again and
\* again, whatever late unregister calls, lost calls, removals by an
\* administrator or restarts of the registry do.
LiveTunnelListed ==
  \A s \in Sockets :
    <>[](ws = s) /\ []<><<Frame(s)>>_vars => []<>Listed

\* A device that stays away is no longer listed in the end, although the alarm
\* and a restart drop a tunnel without telling the registry and calls may be
\* lost or late: unless the registry itself restarts for ever, because each
\* restart gives the entry another RosterTtl.
LostTunnelForgotten ==
  <>[](ws = None) => <>[]~Listed \/ []<><<RegistryRestarts>>_vars

\* The online set is swept by its TTL: a device without a tunnel, no call of
\* which is under way, is not listed again once it is no longer listed.  The
\* code does not keep this: a registry that restarts before a listing took the
\* entry out makes it fresh.
SweptStaysSwept ==
  [][ws = None /\ calls = {} /\ ~Listed => ~Listed']_vars
=============================================================================
