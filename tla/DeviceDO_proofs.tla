--------------------------- MODULE DeviceDO_proofs ---------------------------
(* Proofs about DeviceDO, for every set of sockets, requests, streams and   *)
(* transfers and every value of the limits and periods.                     *)
EXTENDS DeviceDO, TLAPS

\* What the two changes several handlers share preserve.
LEMMA FailDeviceType ==
  ASSUME TypeOK, FailDevice
  PROVE  /\ phase' \in [Requests -> Phases]
         /\ via' \in [Requests -> Sockets \cup {None}]
         /\ target' \in [Requests -> Streams \cup {None}]
         /\ outcome' \in [Requests -> Outcomes]
         /\ stream' \in [Streams -> {"unused", "open", "closed"}]
         /\ download' \in [Downloads -> {"unused", "active", "over"}]
BY DEF TypeOK, FailDevice, Phases, Outcomes

\* What a frame of the attached socket does keeps the types.
LEMMA HeardType ==
  ASSUME TypeOK, NEW s \in Sockets, Heard(s)
  PROVE  /\ ws' \in Sockets \cup {None}
         /\ sock' \in [Sockets -> SocketStates]
         /\ age' \in [Sockets -> 0 .. Keepalive + 1]
         /\ alarm' \in 0 .. Keepalive \cup {None}
         /\ due' \in BOOLEAN
         /\ calls' \subseteq Operations \X Sockets
         /\ roster' \in 0 .. RosterTtl + 1 \cup {None}
<1>1. age' \in [Sockets -> 0 .. Keepalive + 1]
  BY ClockAssumption DEF TypeOK, Heard
<1>2. alarm' \in 0 .. Keepalive \cup {None}
  BY ClockAssumption DEF TypeOK, Heard
<1>3. calls' \subseteq Operations \X Sockets
  BY DEF TypeOK, Heard, Operations
<1>q. QED  BY <1>1, <1>2, <1>3 DEF TypeOK, Heard

\* Every step of the object, hibernation included, preserves the types.
LEMMA TypeStep == TypeOK /\ [Next]_vars => TypeOK'
<1> SUFFICES ASSUME TypeOK, [Next]_vars
             PROVE  TypeOK'
  OBVIOUS
<1> USE DEF vars, tunnelVars, registryVars, requestVars, streamVars
<1>1. ASSUME NEW s \in Sockets, Upgrade(s)
      PROVE  TypeOK'
  <2>1. sock' \in [Sockets -> SocketStates]
    BY <1>1 DEF Upgrade, TypeOK, SocketStates, AfterClose
  <2>2. age' \in [Sockets -> 0 .. Keepalive + 1]
    BY <1>1, ClockAssumption DEF Upgrade, TypeOK
  <2>3. calls' \subseteq Operations \X Sockets
    BY <1>1 DEF Upgrade, TypeOK, Operations
  <2>4. CASE ws = None
    BY <1>1, <2>1, <2>2, <2>3, <2>4 DEF Upgrade, TypeOK
  <2>5. CASE ws # None
    BY <1>1, <2>1, <2>2, <2>3, <2>5, FailDeviceType DEF Upgrade, TypeOK
  <2>q. QED  BY <2>4, <2>5
<1>2. ASSUME NEW s \in Sockets, UpgradeAnswered(s)
      PROVE  TypeOK'
  <2>1. sock' \in [Sockets -> SocketStates]
    BY <1>2 DEF UpgradeAnswered, TypeOK, SocketStates
  <2>2. alarm' \in 0 .. Keepalive \cup {None}
    BY <1>2, ClockAssumption DEF UpgradeAnswered
  <2>3. due' \in BOOLEAN
    BY <1>2 DEF UpgradeAnswered, TypeOK
  <2>q. QED  BY <1>2, <2>1, <2>2, <2>3 DEF UpgradeAnswered, TypeOK
<1>3. ASSUME NEW s \in Sockets, Frame(s)
      PROVE  TypeOK'
  BY <1>3, HeardType DEF Frame, TypeOK
<1>4. ASSUME NEW s \in Sockets, NEW r \in Requests, Response(s, r)
      PROVE  TypeOK'
  <2>1. /\ phase' \in [Requests -> Phases]
        /\ outcome' \in [Requests -> Outcomes]
    BY <1>4 DEF Response, Finish, TypeOK, Phases, Outcomes
  <2>q. QED  BY <1>4, <2>1, HeardType DEF Response, TypeOK
<1>5. ASSUME NEW s \in Sockets, NEW d \in Downloads, DownloadFrame(s, d)
      PROVE  TypeOK'
  BY <1>5, HeardType DEF DownloadFrame, TypeOK
<1>6. ASSUME NEW s \in Sockets, PeerEnds(s)
      PROVE  TypeOK'
  BY <1>6 DEF PeerEnds, TypeOK, SocketStates
<1>7. ASSUME NEW s \in Sockets, SocketClosed(s)
      PROVE  TypeOK'
  <2>1. sock' \in [Sockets -> SocketStates]
    BY <1>7 DEF SocketClosed, TypeOK, SocketStates
  <2>2. age' \in [Sockets -> 0 .. Keepalive + 1]
    BY <1>7, ClockAssumption DEF SocketClosed, TypeOK
  <2>3. CASE ws = s
    <3>1. calls' \subseteq Operations \X Sockets
      BY <1>7, <2>3 DEF SocketClosed, TypeOK, Operations
    <3>q. QED
      BY <1>7, <2>1, <2>2, <2>3, <3>1, FailDeviceType DEF SocketClosed, TypeOK
  <2>4. CASE ws # s
    BY <1>7, <2>1, <2>2, <2>4 DEF SocketClosed, TypeOK
  <2>q. QED  BY <2>3, <2>4
<1>8. ASSUME Alarm
      PROVE  TypeOK'
  <2>1. CASE ws = None
    BY <1>8, <2>1 DEF Alarm, TypeOK
  <2>2. CASE ws # None /\ age[ws] > Keepalive
    <3>1. sock' \in [Sockets -> SocketStates]
      BY <1>8, <2>2, ClockAssumption DEF Alarm, TypeOK, SocketStates, AfterClose
    <3>q. QED
      BY <1>8, <2>2, <3>1, FailDeviceType, ClockAssumption DEF Alarm, TypeOK
  <2>3. CASE ws # None /\ ~(age[ws] > Keepalive)
    BY <1>8, <2>3, ClockAssumption DEF Alarm, TypeOK
  <2>q. QED  BY <2>1, <2>2, <2>3
<1>9. ASSUME NEW op \in {"register", "refresh", "unregister"},
             NEW s \in Sockets, RegistryApplies(op, s)
      PROVE  TypeOK'
  <2>1. calls' \subseteq Operations \X Sockets
    BY <1>9 DEF RegistryApplies, TypeOK, Operations
  <2>2. roster' \in 0 .. RosterTtl + 1 \cup {None}
    BY <1>9, ClockAssumption DEF RegistryApplies, TypeOK
  <2>q. QED  BY <1>9, <2>1, <2>2 DEF RegistryApplies, TypeOK
<1>10. ASSUME NEW op \in {"register", "refresh", "unregister"},
              NEW s \in Sockets, RegistryFails(op, s)
       PROVE  TypeOK'
  <2>1. calls' \subseteq Operations \X Sockets
    BY <1>10 DEF RegistryFails, TypeOK, Operations
  <2>q. QED  BY <1>10, <2>1 DEF RegistryFails, TypeOK
<1>11. ASSUME NEW r \in Requests,
              McpArrives(r) \/ McpBody(r) \/ MessageBody(r) \/ BodyRefused(r)
                \/ ExpirePending(r)
       PROVE  TypeOK'
  <2>1. /\ phase' \in [Requests -> Phases]
        /\ outcome' \in [Requests -> Outcomes]
    BY <1>11 DEF McpArrives, McpBody, MessageBody, BodyRefused, ExpirePending,
                 Finish, Relay, TypeOK, Phases, Outcomes
  <2>2. via' \in [Requests -> Sockets \cup {None}]
    BY <1>11 DEF McpArrives, McpBody, MessageBody, BodyRefused, ExpirePending,
                 Finish, Relay, TypeOK
  <2>q. QED
    BY <1>11, <2>1, <2>2 DEF McpArrives, McpBody, MessageBody, BodyRefused,
                             ExpirePending, TypeOK
<1>12. ASSUME NEW r \in Requests, NEW k \in Streams, MessageArrives(r, k)
       PROVE  TypeOK'
  BY <1>12 DEF MessageArrives, Finish, TypeOK, Phases, Outcomes
<1>13. ASSUME NEW k \in Streams, SseOpens(k) \/ CloseSession(k)
       PROVE  TypeOK'
  BY <1>13 DEF SseOpens, CloseSession, TypeOK, Phases, Outcomes
<1>14. ASSUME NEW d \in Downloads, DownloadStarts(d) \/ DownloadStops(d)
       PROVE  TypeOK'
  BY <1>14 DEF DownloadStarts, DownloadStops, TypeOK
<1>15. ASSUME Tick
       PROVE  TypeOK'
  <2>1. age' \in [Sockets -> 0 .. Keepalive + 1]
    BY <1>15, ClockAssumption DEF Tick, TypeOK, Older
  <2>2. alarm' \in 0 .. Keepalive \cup {None}
    BY <1>15, ClockAssumption, NoneAssumption DEF Tick, TypeOK
  <2>3. roster' \in 0 .. RosterTtl + 1 \cup {None}
    BY <1>15, ClockAssumption, NoneAssumption DEF Tick, TypeOK, Older
  <2>q. QED  BY <1>15, <2>1, <2>2, <2>3 DEF Tick, TypeOK
<1>16. ASSUME Restart
       PROVE  TypeOK'
  <2>1. /\ sock' \in [Sockets -> SocketStates]
        /\ age' \in [Sockets -> 0 .. Keepalive + 1]
    BY <1>16, ClockAssumption DEF Restart, TypeOK, SocketStates
  <2>2. calls' \subseteq Operations \X Sockets
    BY <1>16 DEF Restart, TypeOK, Operations
  <2>3. /\ phase' \in [Requests -> Phases]
        /\ outcome' \in [Requests -> Outcomes]
    BY <1>16 DEF Restart, TypeOK, Phases, Outcomes
  <2>q. QED  BY <1>16, <2>1, <2>2, <2>3 DEF Restart, TypeOK
<1>17. ASSUME Wake
       PROVE  TypeOK'
  <2>1. ws' \in Sockets \cup {None}
    BY <1>17 DEF Wake
  <2>q. QED  BY <1>17, <2>1 DEF Wake, TypeOK
<1>18. ASSUME RegistryLists \/ RegistryRemoves \/ RegistryRestarts
       PROVE  TypeOK'
  BY <1>18, ClockAssumption DEF RegistryLists, RegistryRemoves, RegistryRestarts, TypeOK
<1>19. CASE UNCHANGED vars
  BY <1>19 DEF TypeOK
<1>q. QED
  BY <1>1, <1>2, <1>3, <1>4, <1>5, <1>6, <1>7, <1>8, <1>9, <1>10, <1>11, <1>12,
     <1>13, <1>14, <1>15, <1>16, <1>17, <1>18, <1>19
  DEF Next, AwakeNext, TunnelStep, RegistryStep, RelayStep

\* Type correctness, hibernation included.
THEOREM TypeCorrect == Spec => []TypeOK
<1>1. Init => TypeOK
  BY ClockAssumption DEF Init, TypeOK, SocketStates, Phases, Outcomes
<1>q. QED  BY <1>1, TypeStep, PTL DEF Spec

\* The attached tunnel is a socket the runtime still holds: the close event of
\* the attached socket, or its replacement, is what detaches it.
AttachedIsHeld ==
  ws # None => sock[ws] \in {"accepted", "open", "closing", "ended"}

\* The attached socket is always one the runtime holds: the upgrade accepts it,
\* a wake chooses it among the held ones, and its close event detaches it.
LEMMA HeldStep == TypeOK /\ AttachedIsHeld /\ [Next]_vars => AttachedIsHeld'
<1> SUFFICES ASSUME TypeOK, AttachedIsHeld, [Next]_vars
             PROVE  AttachedIsHeld'
  OBVIOUS
<1> USE DEF vars, tunnelVars, TypeOK, AttachedIsHeld
<1>1. ASSUME NEW t \in Sockets, Upgrade(t)
      PROVE  AttachedIsHeld'
  BY <1>1 DEF Upgrade
<1>2. ASSUME NEW t \in Sockets, UpgradeAnswered(t) \/ PeerEnds(t) \/ Heard(t)
      PROVE  AttachedIsHeld'
  BY <1>2, NoneAssumption DEF UpgradeAnswered, PeerEnds, Heard
<1>3. ASSUME NEW t \in Sockets, SocketClosed(t)
      PROVE  AttachedIsHeld'
  BY <1>3 DEF SocketClosed
<1>4. CASE Alarm
  BY <1>4 DEF Alarm
<1>5. CASE Restart
  BY <1>5 DEF Restart
<1>6. CASE Wake
  BY <1>6 DEF Wake
<1>7. ASSUME UNCHANGED <<ws, sock>>
      PROVE  AttachedIsHeld'
  BY <1>7
<1>8. RegistryStep \/ RelayStep \/ Tick => UNCHANGED <<ws, sock>>
  BY DEF RegistryStep, RegistryApplies, RegistryFails, RegistryLists,
         RegistryRemoves, RegistryRestarts, RelayStep, McpArrives,
         McpBody, MessageBody, BodyRefused, ExpirePending, MessageArrives,
         SseOpens, CloseSession, DownloadStarts, DownloadStops, Tick
<1>q. QED
  BY <1>1, <1>2, <1>3, <1>4, <1>5, <1>6, <1>7, <1>8
  DEF Next, AwakeNext, TunnelStep, Frame, Response, DownloadFrame

\* The attached tunnel is a held socket, hibernation and restarts included.
THEOREM TunnelHeld == Spec => []AttachedIsHeld
<1>1. Init => AttachedIsHeld
  BY DEF Init, AttachedIsHeld
<1>q. QED  BY <1>1, HeldStep, TypeCorrect, PTL DEF Spec

-----------------------------------------------------------------------------
(* The relay invariant.  PendingOnTunnel, StreamsNeedTunnel and              *)
(* PendingHasStream depend on one another: a handler only looks at the       *)
(* tunnel, so that a request it enters has a stream to answer on follows     *)
(* from the streams, and that nothing is pending without a tunnel from what  *)
(* failDevice settles.  FailedOnlyByLoss needs besides that a request that   *)
(* failed is out of the pending map for good and names the socket it was     *)
(* sent on.                                                                  *)

FailedIsDone ==
  \A r \in Requests :
    outcome[r] = "failed" => phase[r] = "done" /\ via[r] \in Sockets

RelayInv ==
  /\ TypeOK
  /\ PendingOnTunnel
  /\ StreamsNeedTunnel
  /\ PendingHasStream
  /\ FailedIsDone
  /\ FailedOnlyByLoss

\* failDevice leaves nothing pending, no stream and no transfer.
LEMMA FailDeviceSettles ==
  ASSUME TypeOK, FailDevice
  PROVE  /\ Pending' = {}
         /\ OpenStreams' = {}
         /\ ActiveDownloads' = {}
         /\ via' = via
         /\ \A r \in Requests : r \in Pending \/ outcome'[r] = outcome[r]
         /\ \A r \in Requests : r \in Pending => phase'[r] = "done"
         /\ \A r \in Requests : r \notin Pending => phase'[r] = phase[r]
BY DEF TypeOK, FailDevice, Pending, OpenStreams, ActiveDownloads

\* A socket that was closed or has ended never serves again.
LEMMA LostForGood ==
  ASSUME TypeOK, [Next]_vars, NEW s \in Sockets,
         sock[s] \in {"closing", "ended", "gone"}
  PROVE  sock'[s] \in {"closing", "ended", "gone"}
<1> USE DEF vars, tunnelVars, TypeOK
<1>1. ASSUME NEW t \in Sockets, Upgrade(t) \/ UpgradeAnswered(t) \/ PeerEnds(t)
                                 \/ SocketClosed(t)
      PROVE  sock'[s] \in {"closing", "ended", "gone"}
  BY <1>1 DEF Upgrade, UpgradeAnswered, PeerEnds, SocketClosed, AfterClose
<1>2. ASSUME NEW t \in Sockets, Heard(t)
      PROVE  sock'[s] \in {"closing", "ended", "gone"}
  BY <1>2 DEF Heard
<1>3. CASE Alarm
  BY <1>3 DEF Alarm, AfterClose
<1>4. CASE Restart
  BY <1>4 DEF Restart
<1>5. ASSUME UNCHANGED sock
      PROVE  sock'[s] \in {"closing", "ended", "gone"}
  BY <1>5
<1>6. RegistryStep => UNCHANGED sock
  BY DEF RegistryStep, RegistryApplies, RegistryFails, RegistryLists,
         RegistryRemoves, RegistryRestarts
<1>7. RelayStep => UNCHANGED sock
  BY DEF RelayStep, McpArrives, McpBody, MessageBody, BodyRefused,
         ExpirePending, MessageArrives, SseOpens, CloseSession, DownloadStarts,
         DownloadStops
<1>8. Tick \/ Wake \/ UNCHANGED vars => UNCHANGED sock
  BY DEF Tick, Wake
<1>q. QED
  BY <1>1, <1>2, <1>3, <1>4, <1>5, <1>6, <1>7, <1>8
  DEF Next, AwakeNext, TunnelStep, Frame, Response, DownloadFrame

\* A step that detaches the tunnel through failDevice, having closed or lost
\* its socket, keeps the relay invariant whatever it attaches.
LEMMA DetachKeeps ==
  ASSUME RelayInv, [Next]_vars, FailDevice,
         ws \in Sockets, sock'[ws] \in {"closing", "ended", "gone"}
  PROVE  RelayInv'
<1>1. TypeOK'
  BY TypeStep DEF RelayInv
<1>2. PendingOnTunnel' /\ StreamsNeedTunnel' /\ PendingHasStream'
  BY FailDeviceSettles DEF RelayInv, PendingOnTunnel, StreamsNeedTunnel,
                           PendingHasStream
<1>3. ASSUME NEW r \in Requests, outcome'[r] = "failed"
      PROVE  /\ phase'[r] = "done"
             /\ via'[r] \in Sockets
             /\ sock'[via'[r]] \in {"closing", "ended", "gone"}
  <2>1. CASE r \in Pending
    <3>1. via[r] = ws
      BY <2>1 DEF RelayInv, PendingOnTunnel
    <3>q. QED  BY <2>1, <3>1, FailDeviceSettles DEF RelayInv
  <2>2. CASE r \notin Pending
    <3>1. outcome[r] = "failed"
      BY <1>3, <2>2, FailDeviceSettles DEF RelayInv
    <3>2. phase[r] = "done" /\ via[r] \in Sockets
      BY <3>1 DEF RelayInv, FailedIsDone
    <3>3. sock[via[r]] \in {"closing", "ended", "gone"}
      BY <3>1 DEF RelayInv, FailedOnlyByLoss
    <3>q. QED
      BY <2>2, <3>2, <3>3, FailDeviceSettles, LostForGood DEF RelayInv
  <2>q. QED  BY <2>1, <2>2
<1>q. QED
  BY <1>1, <1>2, <1>3 DEF RelayInv, FailedIsDone, FailedOnlyByLoss

\* A step that touches neither the requests, the streams nor the transfers and
\* keeps the tunnel attached keeps the relay invariant.
LEMMA TunnelKeeps ==
  ASSUME RelayInv, [Next]_vars, UNCHANGED <<requestVars, streamVars>>,
         ws' = ws \/ (Pending = {} /\ OpenStreams = {} /\ ActiveDownloads = {})
  PROVE  RelayInv'
<1> USE DEF requestVars, streamVars, Pending, OpenStreams, ActiveDownloads
<1>1. TypeOK'
  BY TypeStep DEF RelayInv
<1>2. PendingOnTunnel' /\ StreamsNeedTunnel' /\ PendingHasStream'
  BY DEF RelayInv, PendingOnTunnel, StreamsNeedTunnel, PendingHasStream
<1>3. FailedIsDone' /\ FailedOnlyByLoss'
  BY LostForGood DEF RelayInv, FailedIsDone, FailedOnlyByLoss
<1>q. QED  BY <1>1, <1>2, <1>3 DEF RelayInv

\* A step that leaves the tunnel and its socket alone keeps FailedOnlyByLoss
\* when it makes no request fail and sends none anew that had failed.
LEMMA NoFailureKeeps ==
  ASSUME RelayInv, [Next]_vars,
         \A r \in Requests :
           \/ outcome'[r] # "failed"
           \/ outcome'[r] = outcome[r] /\ phase'[r] = phase[r] /\ via'[r] = via[r]
  PROVE  FailedIsDone' /\ FailedOnlyByLoss'
BY LostForGood DEF RelayInv, FailedIsDone, FailedOnlyByLoss

\* Every step keeps the relay invariant.
LEMMA RelayInvStep == AttachedIsHeld /\ RelayInv /\ [Next]_vars => RelayInv'
<1> SUFFICES ASSUME AttachedIsHeld, RelayInv, [Next]_vars
             PROVE  RelayInv'
  OBVIOUS
<1> USE DEF vars, tunnelVars, registryVars, requestVars, streamVars
<1>t. TypeOK /\ TypeOK'
  BY TypeStep DEF RelayInv
<1>1. ASSUME NEW s \in Sockets, Upgrade(s)
      PROVE  RelayInv'
  <2>1. CASE ws = None
    <3>1. Pending = {} /\ OpenStreams = {} /\ ActiveDownloads = {}
      BY <2>1 DEF RelayInv, PendingOnTunnel, StreamsNeedTunnel
    <3>q. QED  BY <1>1, <2>1, <3>1, TunnelKeeps DEF Upgrade
  <2>2. CASE ws # None
    <3>1. ws \in Sockets /\ ws # s
      BY <1>1, <1>t, <2>2 DEF Upgrade, TypeOK, AttachedIsHeld
    <3>2. sock'[ws] \in {"closing", "ended", "gone"}
      BY <1>1, <1>t, <2>2, <3>1 DEF Upgrade, TypeOK, AfterClose
    <3>q. QED  BY <1>1, <2>2, <3>1, <3>2, DetachKeeps DEF Upgrade
  <2>q. QED  BY <2>1, <2>2
<1>2. ASSUME NEW s \in Sockets,
             UpgradeAnswered(s) \/ Frame(s) \/ PeerEnds(s)
      PROVE  RelayInv'
  BY <1>2, TunnelKeeps DEF UpgradeAnswered, Frame, Heard, PeerEnds
<1>3. ASSUME NEW s \in Sockets, NEW r \in Requests, Response(s, r)
      PROVE  RelayInv'
  <2>1. FailedIsDone' /\ FailedOnlyByLoss'
    BY <1>3, <1>t, NoFailureKeeps DEF Response, Finish, TypeOK
  <2>2. PendingOnTunnel' /\ StreamsNeedTunnel' /\ PendingHasStream'
    BY <1>3, <1>t DEF Response, Heard, Finish, TypeOK, RelayInv, PendingOnTunnel,
       StreamsNeedTunnel, PendingHasStream, Pending, OpenStreams, ActiveDownloads
  <2>q. QED  BY <1>t, <2>1, <2>2 DEF RelayInv
<1>4. ASSUME NEW s \in Sockets, NEW d \in Downloads, DownloadFrame(s, d)
      PROVE  RelayInv'
  <2>1. FailedIsDone' /\ FailedOnlyByLoss'
    BY <1>4, NoFailureKeeps DEF DownloadFrame
  <2>2. PendingOnTunnel' /\ StreamsNeedTunnel' /\ PendingHasStream'
    BY <1>4, <1>t DEF DownloadFrame, Heard, TypeOK, RelayInv, PendingOnTunnel,
       StreamsNeedTunnel, PendingHasStream, Pending, OpenStreams, ActiveDownloads
  <2>q. QED  BY <1>t, <2>1, <2>2 DEF RelayInv
<1>5. ASSUME NEW s \in Sockets, SocketClosed(s)
      PROVE  RelayInv'
  <2>1. CASE ws = s
    <3>1. FailDevice /\ sock'[ws] = "gone"
      BY <1>5, <1>t, <2>1 DEF SocketClosed, TypeOK
    <3>q. QED  BY <2>1, <3>1, DetachKeeps
  <2>2. CASE ws # s
    BY <1>5, <2>2, TunnelKeeps DEF SocketClosed
  <2>q. QED  BY <2>1, <2>2
<1>6. CASE Alarm
  <2>1. CASE ws # None /\ age[ws] > Keepalive
    <3>1. FailDevice /\ ws \in Sockets
      BY <1>6, <1>t, <2>1, ClockAssumption DEF Alarm, TypeOK
    <3>2. sock'[ws] \in {"closing", "ended", "gone"}
      BY <1>6, <1>t, <2>1, <3>1, ClockAssumption DEF Alarm, TypeOK, AfterClose
    <3>q. QED  BY <3>1, <3>2, DetachKeeps
  <2>2. CASE ~(ws # None /\ age[ws] > Keepalive)
    BY <1>6, <2>2, TunnelKeeps DEF Alarm
  <2>q. QED  BY <2>1, <2>2
<1>7. CASE RegistryStep
  BY <1>7, TunnelKeeps
  DEF RegistryStep, RegistryApplies, RegistryFails, RegistryLists,
         RegistryRemoves, RegistryRestarts
<1>8. ASSUME NEW r \in Requests,
             McpArrives(r) \/ McpBody(r) \/ MessageBody(r) \/ BodyRefused(r)
               \/ ExpirePending(r) \/ \E k \in Streams : MessageArrives(r, k)
      PROVE  RelayInv'
  <2>1. FailedIsDone' /\ FailedOnlyByLoss'
    <3>1. outcome[r] # "failed" \/ phase[r] = "done"
      BY DEF RelayInv, FailedIsDone
    <3>2. outcome'[r] # "failed"
      BY <1>8, <1>t, <3>1
      DEF McpArrives, McpBody, MessageBody, BodyRefused, ExpirePending,
          MessageArrives, Finish, Relay, TypeOK, Pending
    <3>3. ASSUME NEW q \in Requests, q # r
          PROVE  /\ outcome'[q] = outcome[q]
                 /\ phase'[q] = phase[q]
                 /\ via'[q] = via[q]
      BY <1>8, <1>t, <3>3
      DEF McpArrives, McpBody, MessageBody, BodyRefused, ExpirePending,
          MessageArrives, Finish, Relay, TypeOK
    <3>q. QED  BY <3>2, <3>3, NoFailureKeeps
  <2>2. PendingOnTunnel'
    BY <1>8, <1>t
    DEF McpArrives, McpBody, MessageBody, BodyRefused, ExpirePending, Online,
        MessageArrives, Finish, Relay, TypeOK, RelayInv, PendingOnTunnel, Pending
  <2>3. StreamsNeedTunnel'
    BY <1>8
    DEF McpArrives, McpBody, MessageBody, BodyRefused, ExpirePending,
        MessageArrives, RelayInv, StreamsNeedTunnel, OpenStreams, ActiveDownloads
  <2>4. PendingHasStream'
    BY <1>8, <1>t, RequestsAssumption
    DEF McpArrives, McpBody, MessageBody, BodyRefused, ExpirePending, Requests,
        MessageArrives, Finish, Relay, TypeOK, RelayInv, PendingHasStream, Pending,
        OpenStreams
  <2>q. QED  BY <1>t, <2>1, <2>2, <2>3, <2>4 DEF RelayInv
<1>9. ASSUME NEW k \in Streams, SseOpens(k) \/ CloseSession(k)
      PROVE  RelayInv'
  <2>1. FailedIsDone' /\ FailedOnlyByLoss'
    <3>1. ASSUME NEW q \in Requests
          PROVE  \/ outcome'[q] = "dropped"
                 \/ /\ outcome'[q] = outcome[q]
                    /\ phase'[q] = phase[q]
                    /\ via'[q] = via[q]
      BY <1>9, <1>t DEF SseOpens, CloseSession, TypeOK
    <3>q. QED  BY <3>1, NoFailureKeeps
  <2>2. PendingOnTunnel' /\ StreamsNeedTunnel'
    BY <1>9, <1>t DEF SseOpens, CloseSession, Online, TypeOK, RelayInv,
       PendingOnTunnel, StreamsNeedTunnel, Pending, OpenStreams, ActiveDownloads
  <2>3. PendingHasStream'
    BY <1>9, <1>t DEF SseOpens, CloseSession, TypeOK, RelayInv, PendingHasStream,
       Pending, OpenStreams
  <2>q. QED  BY <1>t, <2>1, <2>2, <2>3 DEF RelayInv
<1>10. ASSUME NEW d \in Downloads, DownloadStarts(d) \/ DownloadStops(d)
       PROVE  RelayInv'
  <2>1. FailedIsDone' /\ FailedOnlyByLoss'
    BY <1>10, NoFailureKeeps DEF DownloadStarts, DownloadStops
  <2>2. PendingOnTunnel' /\ StreamsNeedTunnel' /\ PendingHasStream'
    BY <1>10, <1>t DEF DownloadStarts, DownloadStops, Online, TypeOK, RelayInv,
       PendingOnTunnel, StreamsNeedTunnel, PendingHasStream, Pending,
       OpenStreams, ActiveDownloads
  <2>q. QED  BY <1>t, <2>1, <2>2 DEF RelayInv
<1>11. CASE Tick
  BY <1>11, TunnelKeeps DEF Tick
<1>12. CASE Restart
  <2>1. FailedIsDone' /\ FailedOnlyByLoss'
    <3>1. ASSUME NEW r \in Requests, outcome'[r] = "failed"
          PROVE  outcome[r] = "failed" /\ phase'[r] = phase[r]
      BY <1>12, <1>t, <3>1 DEF Restart, TypeOK
    <3>q. QED  BY <1>12, <3>1, NoFailureKeeps DEF Restart
  <2>2. PendingOnTunnel' /\ StreamsNeedTunnel' /\ PendingHasStream'
    BY <1>12, <1>t DEF Restart, TypeOK, PendingOnTunnel, StreamsNeedTunnel,
       PendingHasStream, Pending, OpenStreams, ActiveDownloads
  <2>q. QED  BY <1>t, <2>1, <2>2 DEF RelayInv
<1>13. CASE Wake
  <2>1. Pending = {} /\ OpenStreams = {} /\ ActiveDownloads = {}
    BY <1>13 DEF Wake, Idle, Pending
  <2>q. QED  BY <1>13, <2>1, TunnelKeeps DEF Wake
<1>14. CASE UNCHANGED vars
  BY <1>14, TunnelKeeps
<1>q. QED
  BY <1>1, <1>2, <1>3, <1>4, <1>5, <1>6, <1>7, <1>8, <1>9, <1>10, <1>11, <1>12,
     <1>13, <1>14
  DEF Next, AwakeNext, TunnelStep, RelayStep

\* The relay invariant holds throughout.
THEOREM RelayInvariant == Spec => []RelayInv
<1>1. Init => RelayInv
  <2>1. Init => TypeOK
    BY ClockAssumption DEF Init, TypeOK, SocketStates, Phases, Outcomes
  <2>2. Init => /\ PendingOnTunnel
                /\ StreamsNeedTunnel
                /\ PendingHasStream
    BY DEF Init, PendingOnTunnel, StreamsNeedTunnel, PendingHasStream, Pending,
           OpenStreams, ActiveDownloads
  <2>3. ASSUME Init, NEW r \in Requests
        PROVE  outcome[r] # "failed"
    BY <2>3 DEF Init
  <2>q. QED
    BY <2>1, <2>2, <2>3 DEF RelayInv, FailedIsDone, FailedOnlyByLoss
<1>q. QED  BY <1>1, RelayInvStep, TunnelHeld, PTL DEF Spec

\* A pending request was sent on the tunnel that is attached now, hibernation
\* and restarts included: what detaches a tunnel settles its requests (failDevice).
THEOREM PendingOnTunnelHolds == Spec => []PendingOnTunnel
BY RelayInvariant, PTL DEF RelayInv

\* Streams and transfers never outlive the tunnel, and an SSE request that is
\* pending always has an open stream to be answered on.
THEOREM StreamsServedHolds == Spec => []StreamsServed
<1>1. RelayInv => StreamsServed
  BY DEF RelayInv, StreamsServed
<1>q. QED  BY <1>1, RelayInvariant, PTL

\* A request fails with the very tunnel it was sent on: the late close event of
\* a replaced socket fails none of its successor's requests.
THEOREM FailedOnlyByLossHolds == Spec => []FailedOnlyByLoss
BY RelayInvariant, PTL DEF RelayInv

\* Once settled, a request is never settled again: no handler takes a request
\* that is done.
LEMMA DoneStays ==
  ASSUME TypeOK, [Next]_vars, NEW r \in Requests, phase[r] = "done"
  PROVE  phase'[r] = "done" /\ outcome'[r] = outcome[r]
<1> USE DEF vars, requestVars, TypeOK
<1>1. ASSUME FailDevice
      PROVE  phase'[r] = "done" /\ outcome'[r] = outcome[r]
  BY <1>1 DEF FailDevice, Pending
<1>2. ASSUME UNCHANGED requestVars
      PROVE  phase'[r] = "done" /\ outcome'[r] = outcome[r]
  BY <1>2
<1>3. CASE TunnelStep
  <2>1. ASSUME NEW s \in Sockets, NEW q \in Requests, Response(s, q)
        PROVE  phase'[r] = "done" /\ outcome'[r] = outcome[r]
    BY <2>1 DEF Response, Finish, Pending
  <2>q. QED
    BY <1>1, <1>2, <1>3, <2>1 DEF TunnelStep, Upgrade, UpgradeAnswered, Frame,
       DownloadFrame, PeerEnds, SocketClosed
<1>4. CASE RelayStep
  <2>1. ASSUME NEW q \in Requests, phase[q] # "done",
               \/ McpArrives(q) \/ McpBody(q) \/ MessageBody(q)
               \/ BodyRefused(q) \/ ExpirePending(q)
               \/ \E k \in Streams : MessageArrives(q, k)
        PROVE  phase'[r] = "done" /\ outcome'[r] = outcome[r]
    BY <2>1 DEF McpArrives, McpBody, MessageBody, BodyRefused, ExpirePending,
                MessageArrives, Finish, Relay
  <2>2. ASSUME NEW k \in Streams, SseOpens(k) \/ CloseSession(k)
        PROVE  phase'[r] = "done" /\ outcome'[r] = outcome[r]
    BY <2>2 DEF SseOpens, CloseSession, Pending
  <2>3. ASSUME NEW d \in Downloads, DownloadStarts(d) \/ DownloadStops(d)
        PROVE  phase'[r] = "done" /\ outcome'[r] = outcome[r]
    BY <2>3 DEF DownloadStarts, DownloadStops
  <2>q. QED
    BY <1>4, <2>1, <2>2, <2>3 DEF RelayStep, McpArrives, McpBody, MessageBody,
       BodyRefused, ExpirePending, MessageArrives, Pending
<1>5. CASE Restart
  BY <1>5 DEF Restart
<1>6. CASE Alarm
  BY <1>1, <1>2, <1>6 DEF Alarm
<1>7. CASE RegistryStep \/ Tick \/ Wake \/ UNCHANGED vars
  BY <1>7 DEF RegistryStep, RegistryApplies, RegistryFails, RegistryLists,
         RegistryRemoves, RegistryRestarts, Tick, Wake
<1>q. QED  BY <1>3, <1>4, <1>5, <1>6, <1>7 DEF Next, AwakeNext

\* A settled request keeps its outcome, whichever handlers still run late.
THEOREM SettledForGood == Spec => SettledOnce
<1>1. TypeOK /\ [Next]_vars =>
        [\A r \in Requests :
           phase[r] = "done" => phase'[r] = "done" /\ outcome'[r] = outcome[r]]_vars
  BY DoneStays
<1>q. QED  BY <1>1, TypeCorrect, PTL DEF Spec, SettledOnce

-----------------------------------------------------------------------------
(* The tunnel while the object stays in memory.  A wake may attach a socket  *)
(* other than the open one, so these hold of AwakeSpec only.                 *)

TunnelInv ==
  /\ TypeOK
  /\ OpenIsAttached
  /\ Watched

\* Every step of an object that stays in memory keeps the tunnel invariant.
LEMMA TunnelInvStep == TunnelInv /\ [AwakeNext]_vars => TunnelInv'
<1> SUFFICES ASSUME TunnelInv, [AwakeNext]_vars
             PROVE  TunnelInv'
  OBVIOUS
<1> USE DEF vars, tunnelVars, registryVars
<1>t. TypeOK /\ TypeOK'
  BY TypeStep DEF TunnelInv, Next
<1>1. ASSUME NEW s \in Sockets, Upgrade(s)
      PROVE  OpenIsAttached' /\ Watched'
  <2>1. OpenIsAttached'
    <3>1. ASSUME NEW t \in Sockets, t # s, sock'[t] \in {"accepted", "open"}
          PROVE  FALSE
      <4>1. CASE ws = None
        BY <1>1, <1>t, <3>1, <4>1, NoneAssumption
        DEF Upgrade, TypeOK, TunnelInv, OpenIsAttached
      <4>2. CASE ws # None
        <5>1. sock' = [sock EXCEPT ![s] = "accepted", ![ws] = AfterClose(ws)]
          BY <1>1, <4>2 DEF Upgrade
        <5>2. ws = t
          BY <1>t, <3>1, <4>2, <5>1 DEF TypeOK, TunnelInv, OpenIsAttached
        <5>q. QED  BY <1>t, <3>1, <5>1, <5>2 DEF TypeOK, AfterClose
      <4>q. QED  BY <4>1, <4>2
    <3>q. QED  BY <1>1, <3>1 DEF Upgrade, OpenIsAttached
  <2>2. Watched'
    BY <1>1 DEF Upgrade, Watched
  <2>q. QED  BY <2>1, <2>2
<1>2. ASSUME NEW s \in Sockets, UpgradeAnswered(s)
      PROVE  OpenIsAttached' /\ Watched'
  BY <1>2, <1>t, NoneAssumption, ClockAssumption
  DEF UpgradeAnswered, TypeOK, TunnelInv, OpenIsAttached, Watched
<1>3. ASSUME NEW s \in Sockets, Heard(s)
      PROVE  OpenIsAttached' /\ Watched'
  BY <1>3, <1>t, NoneAssumption, ClockAssumption
  DEF Heard, TypeOK, TunnelInv, OpenIsAttached, Watched
<1>4. ASSUME NEW s \in Sockets, PeerEnds(s)
      PROVE  OpenIsAttached' /\ Watched'
  BY <1>4, <1>t DEF PeerEnds, TypeOK, TunnelInv, OpenIsAttached, Watched
<1>5. ASSUME NEW s \in Sockets, SocketClosed(s)
      PROVE  OpenIsAttached' /\ Watched'
  <2>1. OpenIsAttached'
    BY <1>5, <1>t DEF SocketClosed, TypeOK, TunnelInv, OpenIsAttached
  <2>2. Watched'
    BY <1>5, <1>t DEF SocketClosed, TunnelInv, Watched
  <2>q. QED  BY <2>1, <2>2
<1>6. ASSUME Alarm
      PROVE  OpenIsAttached' /\ Watched'
  <2>1. OpenIsAttached'
    BY <1>6, <1>t DEF Alarm, AfterClose, TypeOK, TunnelInv, OpenIsAttached
  <2>2. Watched'
    BY <1>6, NoneAssumption, ClockAssumption DEF Alarm, Watched
  <2>q. QED  BY <2>1, <2>2
<1>7. ASSUME NEW op \in {"register", "refresh", "unregister"},
             NEW s \in Sockets, RegistryApplies(op, s) \/ RegistryFails(op, s)
      PROVE  OpenIsAttached' /\ Watched'
  <2>1. OpenIsAttached'
    BY <1>7 DEF RegistryApplies, RegistryFails, TunnelInv, OpenIsAttached
  <2>2. Watched'
    BY <1>7 DEF RegistryApplies, RegistryFails, TunnelInv, Watched
  <2>q. QED  BY <2>1, <2>2
<1>8. ASSUME RelayStep \/ RegistryLists \/ RegistryRemoves \/ RegistryRestarts \/ UNCHANGED vars
      PROVE  OpenIsAttached' /\ Watched'
  BY <1>8 DEF RegistryLists, RegistryRemoves, RegistryRestarts, RelayStep,
     McpArrives, McpBody, MessageBody, BodyRefused,
     ExpirePending, MessageArrives, SseOpens, CloseSession, DownloadStarts,
     DownloadStops, TunnelInv, OpenIsAttached, Watched
<1>9. ASSUME Tick
      PROVE  OpenIsAttached' /\ Watched'
  BY <1>9, <1>t, NoneAssumption DEF Tick, TypeOK, TunnelInv, OpenIsAttached,
                                    Watched
<1>10. ASSUME Restart
       PROVE  OpenIsAttached' /\ Watched'
  BY <1>10 DEF Restart, OpenIsAttached, Watched
<1>q. QED
  BY <1>t, <1>1, <1>2, <1>3, <1>4, <1>5, <1>6, <1>7, <1>8, <1>9, <1>10
  DEF TunnelInv, AwakeNext, TunnelStep, RegistryStep, Frame, Response,
      DownloadFrame

\* While the object stays in memory, an open socket is always the attached one
\* and an attached tunnel is always watched.
THEOREM TunnelSafety == AwakeSpec => []SocketsCared
<1>1. Init => TunnelInv
  BY ClockAssumption DEF Init, TypeOK, SocketStates, Phases, Outcomes,
                         TunnelInv, OpenIsAttached, Watched
<1>2. TunnelInv => SocketsCared
  BY DEF TunnelInv, SocketsCared
<1>q. QED  BY <1>1, <1>2, TunnelInvStep, PTL DEF AwakeSpec

\* Neither a rival connection nor the alarm takes a tunnel heard from within
\* the grace period.
THEOREM FreshTunnelSafe == AwakeSpec => FreshTunnelKept
<1>1. ASSUME TypeOK, [AwakeNext]_vars, NEW s \in Sockets,
             ws = s, sock[s] = "open", age[s] <= Grace
      PROVE  ws' = s \/ sock'[s] = "gone"
  <2> USE DEF vars, tunnelVars
  <2>1. ASSUME NEW t \in Sockets, Upgrade(t)
        PROVE  FALSE
    BY <1>1, <2>1, ClockAssumption, NoneAssumption DEF Upgrade, MayAttach, TypeOK
  <2>2. ASSUME NEW t \in Sockets, SocketClosed(t)
        PROVE  ws' = s
    BY <1>1, <2>2 DEF SocketClosed
  <2>3. CASE Alarm
    BY <1>1, <2>3, ClockAssumption, NoneAssumption DEF Alarm, TypeOK
  <2>4. CASE Restart
    BY <1>1, <2>4 DEF Restart
  <2>5. ASSUME UNCHANGED ws
        PROVE  ws' = s
    BY <1>1, <2>5
  <2>6. RegistryStep \/ RelayStep \/ Tick => UNCHANGED ws
    BY DEF RegistryStep, RegistryApplies, RegistryFails, RegistryLists,
         RegistryRemoves, RegistryRestarts, RelayStep, McpArrives,
           McpBody, MessageBody, BodyRefused, ExpirePending, MessageArrives,
           SseOpens, CloseSession, DownloadStarts, DownloadStops, Tick
  <2>q. QED
    BY <1>1, <2>1, <2>2, <2>3, <2>4, <2>5, <2>6
    DEF AwakeNext, TunnelStep, UpgradeAnswered, Frame, Response, DownloadFrame,
        Heard, PeerEnds
<1>2. TypeOK /\ [AwakeNext]_vars =>
        [\A s \in Sockets :
           ws = s /\ sock[s] = "open" /\ age[s] <= Grace
             => ws' = s \/ sock'[s] = "gone"]_vars
  BY <1>1
<1>3. Init => TypeOK
  BY ClockAssumption DEF Init, TypeOK, SocketStates, Phases, Outcomes
<1>4. TypeOK /\ [AwakeNext]_vars => TypeOK'
  BY TypeStep DEF Next
<1>q. QED  BY <1>2, <1>3, <1>4, PTL DEF AwakeSpec, FreshTunnelKept
=============================================================================
