---------------------------- MODULE DownloadRelay ----------------------------
(***************************************************************************)
(* The relay of file downloads from a device over its tunnel               *)
(* (worker/src/download-relay.ts): one download-pull frame at a time asks   *)
(* the device for a chunk, and the answer goes straight to the waiting      *)
(* reader.  Device and client are unconstrained: the device may send any    *)
(* frame at any time, the client may read, stop reading or go away.         *)
(*                                                                         *)
(* The response body is a ReadableStream with highWaterMark 0: it calls     *)
(* pull() only for a reader that waits and never while an earlier pull is   *)
(* unresolved.  Timers have no clock: an armed one may fire at any moment.  *)
(***************************************************************************)
EXTENDS Naturals, FiniteSets

CONSTANTS
  Transfers,    \* download requests (each is a fresh UUID)
  MaxTransfers, \* the literal 4 in start
  MaxBytes,     \* MAX_BYTES
  MaxChunk      \* MAX_CHUNK

ASSUME BoundsAssumption ==
  /\ MaxTransfers \in Nat \ {0}
  /\ MaxBytes \in Nat
  /\ MaxChunk \in Nat \ {0}

VARIABLES
  linked,   \* the tunnel's readyState is 1: a send does not throw
  slot,     \* "open" while the transfers map holds the request
  head,     \* Transfer.head
  length,   \* Transfer.length
  received, \* Transfer.received
  pulling,  \* Transfer.pulling, and the stream's pull promise is unresolved
  timer,    \* Transfer.timer is armed
  reply,    \* the response the request was resolved with
  body,     \* the response body stream
  reading,  \* the client waits for a chunk
  queued,   \* chunks in the stream's queue, that is handed over unasked
  got       \* bytes the client was handed

transferVars == <<slot, head, length, received, pulling, timer>>
clientVars   == <<reply, body, reading, queued, got>>
vars == <<linked, transferVars, clientVars>>

Replies == {"none", "ok", "error", "busy", "cancelled", "unavailable",
            "bad gateway", "timeout"}

TypeOK ==
  /\ linked \in BOOLEAN
  /\ slot \in [Transfers -> {"unused", "open", "over"}]
  /\ head \in [Transfers -> BOOLEAN]
  /\ length \in [Transfers -> 0 .. MaxBytes]
  /\ received \in [Transfers -> 0 .. MaxBytes]
  /\ pulling \in [Transfers -> BOOLEAN]
  /\ timer \in [Transfers -> BOOLEAN]
  /\ reply \in [Transfers -> Replies]
  /\ body \in [Transfers -> {"none", "open", "closed", "errored"}]
  /\ reading \in [Transfers -> BOOLEAN]
  /\ queued \in [Transfers -> Nat]
  /\ got \in [Transfers -> 0 .. MaxBytes]

Init ==
  /\ linked = TRUE
  /\ slot = [d \in Transfers |-> "unused"]
  /\ head = [d \in Transfers |-> FALSE]
  /\ length = [d \in Transfers |-> 0]
  /\ received = [d \in Transfers |-> 0]
  /\ pulling = [d \in Transfers |-> FALSE]
  /\ timer = [d \in Transfers |-> FALSE]
  /\ reply = [d \in Transfers |-> "none"]
  /\ body = [d \in Transfers |-> "none"]
  /\ reading = [d \in Transfers |-> FALSE]
  /\ queued = [d \in Transfers |-> 0]
  /\ got = [d \in Transfers |-> 0]

Open == {d \in Transfers : slot[d] = "open"}

(***************************************************************************)
(* finish drops the entries D from the map, clears their timers and        *)
(* resolves their pull; fail then breaks the body of a transfer whose head *)
(* was sent and answers the others with the given status.  A download-     *)
(* cancel frame tells the device; its loss changes nothing here.           *)
(***************************************************************************)
Drop(D) ==
  /\ slot' = [d \in Transfers |-> IF d \in D THEN "over" ELSE slot[d]]
  /\ timer' = [d \in Transfers |-> d \notin D /\ timer[d]]
  /\ pulling' = [d \in Transfers |-> d \notin D /\ pulling[d]]

\* Mutant: a request without a head is dropped but not answered.
FailSilently(D, status) ==
  /\ Drop(D)
  /\ body' = [d \in Transfers |->
                IF d \in D /\ head[d] THEN "errored" ELSE body[d]]
  /\ reading' = [d \in Transfers |-> d \notin D /\ reading[d]]
  /\ UNCHANGED <<head, length, received, reply, queued, got>>

\* fail, for every entry of D.
Fail(D, status) ==
  /\ Drop(D)
  /\ body' = [d \in Transfers |->
                IF d \in D /\ head[d] THEN "errored" ELSE body[d]]
  /\ reply' = [d \in Transfers |->
                 IF d \in D /\ ~head[d] THEN status ELSE reply[d]]
  /\ reading' = [d \in Transfers |-> d \notin D /\ reading[d]]
  /\ UNCHANGED <<head, length, received, queued, got>>

-----------------------------------------------------------------------------
(* The client. *)

\* start: a full relay and a client that is gone already take no slot.
\* DeviceDO calls it only while the tunnel is linked, so its send succeeds.
Start(d) ==
  /\ slot[d] = "unused"
  /\ linked
  /\ \/ /\ Cardinality(Open) >= MaxTransfers
        /\ slot' = [slot EXCEPT ![d] = "over"]
        /\ reply' = [reply EXCEPT ![d] = "busy"]
        /\ UNCHANGED timer
     \/ /\ Cardinality(Open) < MaxTransfers
        /\ slot' = [slot EXCEPT ![d] = "over"]
        /\ reply' = [reply EXCEPT ![d] = "cancelled"]
        /\ UNCHANGED timer
     \/ /\ Cardinality(Open) < MaxTransfers
        /\ slot' = [slot EXCEPT ![d] = "open"]
        /\ timer' = [timer EXCEPT ![d] = TRUE]
        /\ UNCHANGED reply
  /\ UNCHANGED <<linked, head, length, received, pulling, body, reading,
                 queued, got>>

\* The client asks the body for more.
Read(d) ==
  /\ body[d] = "open"
  /\ ~reading[d]
  /\ reading' = [reading EXCEPT ![d] = TRUE]
  /\ UNCHANGED <<linked, transferVars, reply, body, queued, got>>

\* Mutant: a pull does not arm the step timer.
PullUntimed(d) ==
  /\ slot[d] = "open"
  /\ reading[d]
  /\ ~pulling[d]
  /\ IF linked
     THEN /\ pulling' = [pulling EXCEPT ![d] = TRUE]
          /\ UNCHANGED <<slot, head, length, received, timer, clientVars>>
     ELSE Fail({d}, "bad gateway")
  /\ UNCHANGED linked

\* pull(): the stream calls it for a waiting reader.
Pull(d) ==
  /\ slot[d] = "open"
  /\ reading[d]
  /\ ~pulling[d]
  /\ IF linked
     THEN /\ pulling' = [pulling EXCEPT ![d] = TRUE]
          /\ timer' = [timer EXCEPT ![d] = TRUE]
          /\ UNCHANGED <<slot, head, length, received, clientVars>>
     ELSE Fail({d}, "bad gateway")
  /\ UNCHANGED linked

\* The request's abort signal, or cancel() of the body.
ClientGoes(d) ==
  /\ slot[d] = "open"
  /\ Fail({d}, "cancelled")
  /\ UNCHANGED linked

-----------------------------------------------------------------------------
(* The device: frames, each judged by the state of its transfer. *)

\* A frame for an entry in the map.
Framed(d) == slot[d] = "open" /\ linked /\ UNCHANGED linked

\* download-head with status 400 to 599, or a second head.
HeadStatus(d) ==
  /\ Framed(d)
  /\ IF head[d]
     THEN Fail({d}, "bad gateway")
     ELSE /\ Drop({d})
          /\ reply' = [reply EXCEPT ![d] = "error"]
          /\ UNCHANGED <<head, length, received, body, reading, queued, got>>

\* download-head with status 200 and a content-length of n.
Head(d, n) ==
  /\ Framed(d)
  /\ IF head[d] \/ n > MaxBytes
     THEN Fail({d}, "bad gateway")
     ELSE /\ head' = [head EXCEPT ![d] = TRUE]
          /\ length' = [length EXCEPT ![d] = n]
          /\ timer' = [timer EXCEPT ![d] = FALSE]
          /\ reply' = [reply EXCEPT ![d] = "ok"]
          /\ body' = [body EXCEPT ![d] = "open"]
          /\ UNCHANGED <<slot, received, pulling, reading, queued, got>>

\* Mutant: the last chunk may come early.
ExpectedShort(d, n, done) ==
  /\ head[d]
  /\ pulling[d]
  /\ n <= MaxChunk
  /\ n > 0 \/ done
  /\ received[d] + n <= length[d]

\* Mutant: only the last chunk is held against the announced length.
ExpectedLong(d, n, done) ==
  /\ head[d]
  /\ pulling[d]
  /\ n <= MaxChunk
  /\ n > 0 \/ done
  /\ done => received[d] + n = length[d]

\* A chunk is due, has a legal size and agrees with the announced length.
Expected(d, n, done) ==
  /\ head[d]
  /\ pulling[d]
  /\ n <= MaxChunk
  /\ n > 0 \/ done
  /\ received[d] + n <= length[d]
  /\ done => received[d] + n = length[d]

\* enqueue(): straight to a waiting reader, else into the queue.
Enqueue(d, n) ==
  IF n = 0 THEN UNCHANGED <<queued, got>>
  ELSE IF reading[d]
  THEN /\ got' = [got EXCEPT ![d] = @ + n]
       /\ UNCHANGED queued
  ELSE /\ queued' = [queued EXCEPT ![d] = @ + 1]
       /\ UNCHANGED got

\* download-chunk with n bytes: the last one closes the body, any other
\* resolves the pull.
Chunk(d, n, done) ==
  /\ Framed(d)
  /\ IF ~Expected(d, n, done)
     THEN Fail({d}, "bad gateway")
     ELSE /\ received' = [received EXCEPT ![d] = @ + n]
          /\ Enqueue(d, n)
          /\ reading' = [reading EXCEPT ![d] = FALSE]
          /\ IF done
             THEN Drop({d}) /\ body' = [body EXCEPT ![d] = "closed"]
             ELSE /\ pulling' = [pulling EXCEPT ![d] = FALSE]
                  /\ timer' = [timer EXCEPT ![d] = FALSE]
                  /\ UNCHANGED <<slot, body>>
          /\ UNCHANGED <<head, length, reply>>

\* download-error, an unknown download frame, a malformed head or chunk.
BadFrame(d) == Framed(d) /\ Fail({d}, "bad gateway")

-----------------------------------------------------------------------------
(* Timers and the tunnel. *)

\* The timer of the frame that the device owes.
StepTimer(d) ==
  /\ timer[d]
  /\ Fail({d}, "timeout")
  /\ UNCHANGED linked

\* Mutant: the overall timer is cleared when the head arrives.
OverallTimerToHead(d) ==
  /\ slot[d] = "open"
  /\ ~head[d]
  /\ Fail({d}, "timeout")
  /\ UNCHANGED linked

\* The timer of the whole transfer.
OverallTimer(d) ==
  /\ slot[d] = "open"
  /\ Fail({d}, "timeout")
  /\ UNCHANGED linked

\* The tunnel breaks before its close event is delivered.
LinkBreaks ==
  /\ linked
  /\ linked' = FALSE
  /\ UNCHANGED <<transferVars, clientVars>>

\* failAll, from DeviceDO.failDevice: the tunnel is lost or replaced.
FailAll ==
  /\ Fail(Open, "unavailable")
  /\ linked' \in BOOLEAN

-----------------------------------------------------------------------------
Next ==
  \/ \E d \in Transfers : \/ Start(d)
                          \/ Read(d)
                          \/ Pull(d)
                          \/ ClientGoes(d)
                          \/ HeadStatus(d)
                          \/ \E n \in 0 .. MaxBytes + 1 : Head(d, n)
                          \/ \E n \in 0 .. MaxChunk + 1, done \in BOOLEAN :
                               Chunk(d, n, done)
                          \/ BadFrame(d)
                          \/ StepTimer(d)
                          \/ OverallTimer(d)
  \/ LinkBreaks
  \/ FailAll

Spec == Init /\ [][Next]_vars

\* Timers fire when nothing else ends the transfer.
FairSpec == Spec /\ \A d \in Transfers : WF_vars(OverallTimer(d))

-----------------------------------------------------------------------------
(* Properties. *)

\* What the client knows of its request: the abstract state of a download.
ClientState ==
  [d \in Transfers |->
     IF slot[d] = "unused" THEN "idle"
     ELSE IF body[d] = "open" THEN "streaming"
     ELSE IF body[d] = "closed" THEN "complete"
     ELSE IF body[d] = "errored" THEN "broken"
     ELSE IF reply[d] = "none" THEN "waiting"
     ELSE "refused"]

Promise == INSTANCE RelayedDownload
             WITH state <- ClientState, size <- length, sent <- got

\* The relay keeps the promise: one answer, and a body that ends complete
\* only with exactly the announced bytes handed over.
KeepsPromise == Promise!Spec

\* A transfer that left the map left nobody waiting: the client has a status,
\* a complete body or a broken one, and no timer of it is left armed.
NobodyWaits ==
  \A d \in Transfers : slot[d] = "over" =>
    /\ reply[d] # "none"
    /\ reply[d] = "ok" => body[d] \in {"closed", "errored"}
    /\ ~reading[d]
    /\ ~timer[d]

\* The step timer runs exactly while the device owes a frame: a slow client is
\* never timed out by it and a silent device always is.
TimedWhileOwed ==
  \A d \in Transfers : timer[d] <=> slot[d] = "open" /\ (~head[d] \/ pulling[d])

\* One outstanding pull per stream and no queued chunks (the file's first line).
NoQueuedChunk ==
  \A d \in Transfers : queued[d] = 0

\* Backpressure: the client's reading paces the device, and only the device is
\* timed.
PullBased == TimedWhileOwed /\ NoQueuedChunk

\* A transfer ends, even for a client that stops reading.
TransferEnds ==
  \A d \in Transfers : slot[d] = "open" ~> slot[d] = "over"
=============================================================================
