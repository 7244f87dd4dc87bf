------------------------- MODULE DownloadRelay_proofs -------------------------
(* Proofs about DownloadRelay for any number of transfers, any length limit  *)
(* and any chunk limit: the types, the safety properties and the refinement  *)
(* of RelayedDownload.                                                       *)
EXTENDS DownloadRelay, TLAPS

(***************************************************************************)
(* The inductive invariant ties the two views of a transfer together: the  *)
(* entry the relay keeps (slot, head, pulling, timer) and what the client  *)
(* holds (reply, body, reading, got).  None of the properties is inductive *)
(* alone; that no chunk is queued, for instance, needs that a pull stands  *)
(* for a waiting reader, and that needs that a reader waits on an open     *)
(* body only.                                                              *)
(***************************************************************************)
Coherent(d) ==
  /\ slot[d] = "unused" => /\ ~head[d]
                           /\ reply[d] = "none"
  /\ slot[d] = "open" => /\ head[d] <=> body[d] = "open"
                         /\ ~head[d] => body[d] = "none"
                         /\ head[d] <=> reply[d] = "ok"
                         /\ ~head[d] <=> reply[d] = "none"
  /\ slot[d] = "over" => /\ reply[d] # "none"
                         /\ reply[d] = "ok" <=> body[d] \in {"closed", "errored"}
                         /\ body[d] # "open"
                         /\ ~pulling[d]
  /\ slot[d] = "unused" => body[d] = "none"
  /\ pulling[d] => reading[d]
  /\ reading[d] => body[d] = "open"
  /\ queued[d] = 0
  /\ got[d] = received[d]
  /\ received[d] <= length[d]
  /\ ~head[d] => received[d] = 0
  /\ body[d] = "closed" => got[d] = length[d]
  /\ timer[d] <=> slot[d] = "open" /\ (~head[d] \/ pulling[d])

Inv == TypeOK /\ \A d \in Transfers : Coherent(d)

\* fail() keeps the invariant whichever entries it drops.
LEMMA FailKeeps ==
  ASSUME Inv, linked' \in BOOLEAN,
         NEW D \in SUBSET Open, NEW status \in Replies \ {"none", "ok"},
         Fail(D, status)
  PROVE  Inv'
<1>1. TypeOK'
  BY DEF Inv, TypeOK, Fail, Drop, Replies
<1>2. ASSUME NEW d \in Transfers
      PROVE  Coherent(d)'
  <2>1. Coherent(d)
    BY DEF Inv
  <2>2. CASE d \in D
    BY <2>1, <2>2 DEF Inv, TypeOK, Fail, Drop, Coherent, Open
  <2>3. CASE d \notin D
    BY <2>1, <2>3 DEF Inv, TypeOK, Fail, Drop, Coherent
  <2>q. QED  BY <2>2, <2>3
<1>q. QED  BY <1>1, <1>2 DEF Inv

LEMMA InvStep == Inv /\ [Next]_vars => Inv'
<1> SUFFICES ASSUME Inv, [Next]_vars
             PROVE  Inv'
  OBVIOUS
<1> USE DEF vars, transferVars, clientVars
<1>t. TypeOK /\ \A d \in Transfers : Coherent(d)
  BY DEF Inv
<1>s. {"busy", "cancelled", "unavailable", "bad gateway", "timeout"}
        \subseteq Replies \ {"none", "ok"}
  BY DEF Replies
<1>1. ASSUME NEW d \in Transfers, Start(d)
      PROVE  Inv'
  <2>1. TypeOK'
    BY <1>1, <1>t DEF Start, TypeOK, Replies
  <2>2. ASSUME NEW e \in Transfers
        PROVE  Coherent(e)'
    BY <1>1, <1>t DEF Start, TypeOK, Coherent
  <2>q. QED  BY <2>1, <2>2 DEF Inv
<1>2. ASSUME NEW d \in Transfers, Read(d)
      PROVE  Inv'
  BY <1>2, <1>t DEF Read, Inv, TypeOK, Coherent
<1>3. ASSUME NEW d \in Transfers, Pull(d)
      PROVE  Inv'
  <2>1. CASE linked
    <3>1. TypeOK'
      BY <1>3, <1>t, <2>1 DEF Pull, TypeOK
    <3>2. ASSUME NEW e \in Transfers
          PROVE  Coherent(e)'
      BY <1>3, <1>t, <2>1 DEF Pull, TypeOK, Coherent
    <3>q. QED  BY <3>1, <3>2 DEF Inv
  <2>2. CASE ~linked
    BY <1>3, <1>t, <1>s, <2>2, FailKeeps DEF Pull, Open, TypeOK
  <2>q. QED  BY <2>1, <2>2
<1>4. ASSUME NEW d \in Transfers,
             ClientGoes(d) \/ BadFrame(d) \/ OverallTimer(d)
      PROVE  Inv'
  BY <1>4, <1>t, <1>s, FailKeeps
  DEF ClientGoes, BadFrame, OverallTimer, Framed, Open, TypeOK
<1>5. ASSUME NEW d \in Transfers, StepTimer(d)
      PROVE  Inv'
  <2>1. slot[d] = "open"
    BY <1>5, <1>t DEF StepTimer, Coherent
  <2>q. QED  BY <1>5, <1>t, <1>s, <2>1, FailKeeps DEF StepTimer, Open, TypeOK
<1>6. ASSUME NEW d \in Transfers, HeadStatus(d)
      PROVE  Inv'
  <2>1. CASE head[d]
    BY <1>6, <1>t, <1>s, <2>1, FailKeeps DEF HeadStatus, Framed, Open, TypeOK
  <2>2. CASE ~head[d]
    <3>1. TypeOK'
      <4>1. /\ slot' \in [Transfers -> {"unused", "open", "over"}]
            /\ timer' \in [Transfers -> BOOLEAN]
            /\ pulling' \in [Transfers -> BOOLEAN]
        BY <1>6, <1>t, <2>2 DEF HeadStatus, Drop, TypeOK
      <4>2. reply' \in [Transfers -> Replies] /\ linked' \in BOOLEAN
        BY <1>6, <1>t, <2>2 DEF HeadStatus, Framed, TypeOK, Replies
      <4>q. QED  BY <1>6, <1>t, <2>2, <4>1, <4>2 DEF HeadStatus, TypeOK
    <3>2. ASSUME NEW e \in Transfers
          PROVE  Coherent(e)'
      BY <1>6, <1>t, <2>2 DEF HeadStatus, Framed, Drop, TypeOK, Coherent
    <3>q. QED  BY <3>1, <3>2 DEF Inv
  <2>q. QED  BY <2>1, <2>2
<1>7. ASSUME NEW d \in Transfers, NEW n \in 0 .. MaxBytes + 1, Head(d, n)
      PROVE  Inv'
  <2>1. CASE head[d] \/ n > MaxBytes
    BY <1>7, <1>t, <1>s, <2>1, FailKeeps DEF Head, Framed, Open, TypeOK
  <2>2. CASE ~(head[d] \/ n > MaxBytes)
    <3>1. TypeOK'
      <4>1. n \in 0 .. MaxBytes
        BY <2>2, BoundsAssumption
      <4>2. /\ head' \in [Transfers -> BOOLEAN]
            /\ length' \in [Transfers -> 0 .. MaxBytes]
            /\ timer' \in [Transfers -> BOOLEAN]
        BY <1>7, <1>t, <2>2, <4>1 DEF Head, TypeOK
      <4>3. /\ reply' \in [Transfers -> Replies]
            /\ body' \in [Transfers -> {"none", "open", "closed", "errored"}]
            /\ linked' \in BOOLEAN
        BY <1>7, <1>t, <2>2 DEF Head, Framed, TypeOK, Replies
      <4>q. QED  BY <1>7, <1>t, <2>2, <4>2, <4>3 DEF Head, TypeOK
    <3>2. ASSUME NEW e \in Transfers
          PROVE  Coherent(e)'
      <4>1. received[e] = 0 \/ e # d
        BY <1>t, <2>2 DEF Coherent
      <4>2. CASE e = d
        <5>1. n \in Nat
          BY BoundsAssumption
        <5>2. /\ slot[d] = "open" /\ slot'[d] = "open"
              /\ head'[d] /\ body'[d] = "open" /\ reply'[d] = "ok"
              /\ ~timer'[d]
              /\ length'[d] = n
              /\ UNCHANGED <<received, pulling, reading, queued, got>>
          BY <1>7, <1>t, <2>2 DEF Head, Framed, TypeOK
        <5>q. QED  BY <1>t, <2>2, <4>1, <4>2, <5>1, <5>2 DEF Coherent
      <4>3. CASE e # d
        BY <1>7, <1>t, <2>2, <4>3 DEF Head, Framed, TypeOK, Coherent
      <4>q. QED  BY <4>2, <4>3
    <3>q. QED  BY <3>1, <3>2 DEF Inv
  <2>q. QED  BY <2>1, <2>2
<1>8. ASSUME NEW d \in Transfers, NEW n \in 0 .. MaxChunk + 1,
             NEW done \in BOOLEAN, Chunk(d, n, done)
      PROVE  Inv'
  <2>1. CASE ~Expected(d, n, done)
    BY <1>8, <1>t, <1>s, <2>1, FailKeeps DEF Chunk, Framed, Open, TypeOK
  <2>2. CASE Expected(d, n, done)
    <3>1. n \in Nat
      BY BoundsAssumption
    <3>2. reading[d] /\ got[d] = received[d] /\ received[d] + n \in 0 .. MaxBytes
      BY <1>t, <2>2, <3>1, BoundsAssumption DEF Expected, Coherent, TypeOK
    <3>3. got' = [got EXCEPT ![d] = @ + n] /\ UNCHANGED queued
      BY <1>8, <1>t, <2>2, <3>1, <3>2 DEF Chunk, Enqueue, TypeOK
    <3>4. TypeOK'
      <4>1. /\ slot' \in [Transfers -> {"unused", "open", "over"}]
            /\ timer' \in [Transfers -> BOOLEAN]
            /\ pulling' \in [Transfers -> BOOLEAN]
            /\ body' \in [Transfers -> {"none", "open", "closed", "errored"}]
        <5>1. CASE done
          <6>1. Drop({d}) /\ body' = [body EXCEPT ![d] = "closed"]
            BY <1>8, <2>2, <5>1 DEF Chunk
          <6>q. QED  BY <1>t, <6>1 DEF Drop, TypeOK
        <5>2. CASE ~done
          <6>1. /\ pulling' = [pulling EXCEPT ![d] = FALSE]
                /\ timer' = [timer EXCEPT ![d] = FALSE]
                /\ UNCHANGED <<slot, body>>
            BY <1>8, <2>2, <5>2 DEF Chunk
          <6>q. QED  BY <1>t, <6>1 DEF TypeOK
        <5>q. QED  BY <5>1, <5>2
      <4>2. /\ received' \in [Transfers -> 0 .. MaxBytes]
            /\ got' \in [Transfers -> 0 .. MaxBytes]
        BY <1>8, <1>t, <2>2, <3>2, <3>3 DEF Chunk, TypeOK
      <4>3. reading' \in [Transfers -> BOOLEAN] /\ linked' \in BOOLEAN
        BY <1>8, <1>t, <2>2 DEF Chunk, Framed, TypeOK
      <4>q. QED
        BY <1>8, <1>t, <2>2, <3>3, <4>1, <4>2, <4>3 DEF Chunk, TypeOK
    <3>5. ASSUME NEW e \in Transfers
          PROVE  Coherent(e)'
      <4>1. CASE e = d
        <5>1. /\ slot[d] = "open" /\ head'[d] /\ ~pulling'[d] /\ ~timer'[d]
              /\ reply'[d] = reply[d] /\ length'[d] = length[d]
              /\ ~reading'[d] /\ queued'[d] = queued[d]
              /\ received'[d] = received[d] + n /\ got'[d] = got[d] + n
              /\ received[d] + n <= length[d]
          BY <1>8, <1>t, <2>2, <3>3 DEF Chunk, Expected, Framed, Drop, TypeOK
        <5>2. /\ done => /\ slot'[d] = "over"
                         /\ body'[d] = "closed"
                         /\ received[d] + n = length[d]
              /\ ~done => slot'[d] = "open" /\ body'[d] = body[d]
          BY <1>8, <1>t, <2>2 DEF Chunk, Expected, Framed, Drop, TypeOK
        <5>3. Coherent(d) /\ head[d]
          BY <1>t, <2>2 DEF Expected
        <5>q. QED  BY <3>2, <4>1, <5>1, <5>2, <5>3 DEF Coherent
      <4>2. CASE e # d
        BY <1>8, <1>t, <2>2, <3>3, <4>2 DEF Chunk, Framed, Drop, TypeOK, Coherent
      <4>q. QED  BY <4>1, <4>2
    <3>q. QED  BY <3>4, <3>5 DEF Inv
  <2>q. QED  BY <2>1, <2>2
<1>9. CASE LinkBreaks \/ UNCHANGED vars
  <2>1. TypeOK'
    BY <1>9, <1>t DEF LinkBreaks, TypeOK
  <2>2. ASSUME NEW d \in Transfers
        PROVE  Coherent(d)'
    BY <1>9, <1>t DEF LinkBreaks, Coherent
  <2>q. QED  BY <2>1, <2>2 DEF Inv
<1>10. CASE FailAll
  BY <1>10, <1>s, FailKeeps DEF FailAll
<1>q. QED
  BY <1>1, <1>2, <1>3, <1>4, <1>5, <1>6, <1>7, <1>8, <1>9, <1>10 DEF Next

LEMMA InvInit == Init => Inv
<1> SUFFICES ASSUME Init
             PROVE  Inv
  OBVIOUS
<1>1. TypeOK
  BY BoundsAssumption DEF Init, TypeOK, Replies
<1>2. ASSUME NEW d \in Transfers
      PROVE  Coherent(d)
  BY DEF Init, Coherent
<1>q. QED  BY <1>1, <1>2 DEF Inv

\* The invariant holds whatever device and client do.
THEOREM Invariant == Spec => []Inv
BY InvInit, InvStep, PTL DEF Spec

\* Every variable of the relay has its type.
THEOREM TypeCorrect == Spec => []TypeOK
BY Invariant, PTL DEF Inv

\* A transfer that left the map left nobody waiting: the client has its answer,
\* its body has ended, and no timer of it is armed, whichever of the frames, the
\* timeout, the cancellation and the loss of the tunnel came first.
THEOREM NobodyWaitsHolds == Spec => []NobodyWaits
<1>1. Inv => NobodyWaits
  BY DEF Inv, Coherent, NobodyWaits
<1>q. QED  BY <1>1, Invariant, PTL

\* The step timer runs exactly while the device owes a frame, and a chunk is
\* handed over only to a reader that asked for one.
THEOREM PullBasedHolds == Spec => []PullBased
<1>1. Inv => PullBased
  <2> SUFFICES ASSUME Inv
               PROVE  PullBased
    OBVIOUS
  <2>1. TimedWhileOwed
    BY DEF Inv, Coherent, TimedWhileOwed
  <2>2. NoQueuedChunk
    BY DEF Inv, Coherent, NoQueuedChunk
  <2>q. QED  BY <2>1, <2>2 DEF PullBased
<1>q. QED  BY <1>1, Invariant, PTL

-----------------------------------------------------------------------------
(* The refinement: the relay's initial state is an initial state of the      *)
(* promise, and every step of the relay moves each download as the promise   *)
(* allows.                                                                   *)

\* fail() breaks a body that was begun and refuses a request that was not.
LEMMA FailMoves ==
  ASSUME Inv, NEW D \in SUBSET Open, NEW status \in Replies \ {"none", "ok"},
         Fail(D, status), NEW d \in Transfers
  PROVE  Promise!Move(d)
<1>1. Coherent(d)
  BY DEF Inv
<1>2. length'[d] = length[d] /\ got'[d] = got[d]
  BY DEF Fail
<1>3. CASE d \in D /\ head[d]
  <2>1. ClientState[d] = "streaming"
    BY <1>1, <1>3 DEF ClientState, Coherent, Open
  <2>2. ClientState'[d] = "broken"
    BY <1>3 DEF ClientState, Fail, Drop
  <2>q. QED
    BY <1>2, <2>1, <2>2 DEF Promise!Move, Promise!Break, Promise!Unsized
<1>4. CASE d \in D /\ ~head[d]
  <2>1. ClientState[d] = "waiting"
    BY <1>1, <1>4 DEF ClientState, Coherent, Open
  <2>2. ClientState'[d] = "refused"
    BY <1>1, <1>4 DEF ClientState, Fail, Drop, Coherent, Open, Inv, TypeOK
  <2>q. QED
    BY <1>2, <2>1, <2>2 DEF Promise!Move, Promise!Refuse, Promise!Unsized
<1>5. CASE d \notin D
  <2>1. ClientState'[d] = ClientState[d]
    BY <1>5 DEF ClientState, Fail, Drop
  <2>q. QED  BY <1>2, <2>1 DEF Promise!Move, Promise!Keep, Promise!Unsized
<1>q. QED  BY <1>3, <1>4, <1>5

\* Every step of the relay is a move of each download.
LEMMA StepMoves ==
  ASSUME Inv, [Next]_vars, NEW e \in Transfers
  PROVE  Promise!Move(e)
<1> USE DEF vars, transferVars, clientVars
<1>t. TypeOK /\ \A d \in Transfers : Coherent(d)
  BY DEF Inv
<1>s. {"busy", "cancelled", "unavailable", "bad gateway", "timeout"}
        \subseteq Replies \ {"none", "ok"}
  BY DEF Replies
<1>k. ASSUME /\ slot'[e] = slot[e]
             /\ body'[e] = body[e]
             /\ reply'[e] = reply[e]
             /\ length'[e] = length[e]
             /\ got'[e] = got[e]
      PROVE  Promise!Move(e)
  BY <1>k DEF ClientState, Promise!Move, Promise!Keep, Promise!Unsized
<1>1. ASSUME NEW d \in Transfers, Start(d)
      PROVE  Promise!Move(e)
  <2>1. CASE e = d
    <3>1. ClientState[e] = "idle"
      BY <1>1, <2>1 DEF Start, ClientState
    <3>2. body[e] = "none" /\ reply[e] = "none"
      BY <1>1, <1>t, <2>1 DEF Start, Coherent
    <3>3. ClientState'[e] \in {"waiting", "refused"}
      BY <1>1, <1>t, <2>1, <3>2 DEF Start, ClientState, TypeOK
    <3>q. QED
      BY <1>1, <3>1, <3>3
      DEF Start, Promise!Move, Promise!Ask, Promise!Unsized
  <2>2. CASE e # d
    BY <1>1, <1>t, <1>k, <2>2 DEF Start, TypeOK
  <2>q. QED  BY <2>1, <2>2
<1>2. ASSUME NEW d \in Transfers, Read(d)
      PROVE  Promise!Move(e)
  BY <1>2, <1>k DEF Read
<1>3. ASSUME NEW d \in Transfers, Pull(d)
      PROVE  Promise!Move(e)
  BY <1>3, <1>k, <1>s, FailMoves DEF Pull, Open
<1>4. ASSUME NEW d \in Transfers,
             ClientGoes(d) \/ BadFrame(d) \/ OverallTimer(d)
      PROVE  Promise!Move(e)
  BY <1>4, <1>s, FailMoves DEF ClientGoes, BadFrame, OverallTimer, Framed, Open
<1>5. ASSUME NEW d \in Transfers, StepTimer(d)
      PROVE  Promise!Move(e)
  <2>1. slot[d] = "open"
    BY <1>5, <1>t DEF StepTimer, Coherent
  <2>q. QED  BY <1>5, <1>s, <2>1, FailMoves DEF StepTimer, Open
<1>6. ASSUME NEW d \in Transfers, HeadStatus(d)
      PROVE  Promise!Move(e)
  <2>1. CASE head[d]
    BY <1>6, <1>s, <2>1, FailMoves DEF HeadStatus, Framed, Open
  <2>2. CASE ~head[d] /\ e = d
    <3>1. ClientState[e] = "waiting"
      BY <1>6, <1>t, <2>2 DEF HeadStatus, Framed, ClientState, Coherent
    <3>2. ClientState'[e] = "refused"
      BY <1>6, <1>t, <2>2 DEF HeadStatus, Framed, Drop, ClientState, Coherent,
                              TypeOK
    <3>q. QED
      BY <1>6, <2>2, <3>1, <3>2
      DEF HeadStatus, Promise!Move, Promise!Refuse, Promise!Unsized
  <2>3. CASE ~head[d] /\ e # d
    BY <1>6, <1>t, <1>k, <2>3 DEF HeadStatus, Drop, TypeOK
  <2>q. QED  BY <2>1, <2>2, <2>3
<1>7. ASSUME NEW d \in Transfers, NEW n \in 0 .. MaxBytes + 1, Head(d, n)
      PROVE  Promise!Move(e)
  <2>1. CASE head[d] \/ n > MaxBytes
    BY <1>7, <1>s, <2>1, FailMoves DEF Head, Framed, Open
  <2>2. CASE ~(head[d] \/ n > MaxBytes) /\ e = d
    <3>1. n \in 0 .. MaxBytes /\ got[e] = 0
      BY <1>t, <2>2, BoundsAssumption DEF Coherent
    <3>2. ClientState[e] = "waiting"
      BY <1>7, <1>t, <2>2 DEF Head, Framed, ClientState, Coherent
    <3>3. ClientState'[e] = "streaming" /\ length'[e] = n /\ got'[e] = got[e]
      BY <1>7, <1>t, <2>2 DEF Head, Framed, ClientState, TypeOK
    <3>q. QED  BY <3>1, <3>2, <3>3 DEF Promise!Move, Promise!Begin
  <2>3. CASE ~(head[d] \/ n > MaxBytes) /\ e # d
    BY <1>7, <1>t, <1>k, <2>3 DEF Head, TypeOK
  <2>q. QED  BY <2>1, <2>2, <2>3
<1>8. ASSUME NEW d \in Transfers, NEW n \in 0 .. MaxChunk + 1,
             NEW done \in BOOLEAN, Chunk(d, n, done)
      PROVE  Promise!Move(e)
  <2>1. CASE ~Expected(d, n, done)
    BY <1>8, <1>s, <2>1, FailMoves DEF Chunk, Framed, Open
  <2>2. CASE Expected(d, n, done) /\ e = d
    <3>1. n \in Nat /\ got[d] \in Nat /\ length[d] \in Nat
      BY <1>t, BoundsAssumption DEF TypeOK
    <3>2. /\ reading[d] /\ body[d] = "open" /\ slot[d] = "open"
          /\ got[d] = received[d]
      BY <1>8, <1>t, <2>2 DEF Expected, Coherent, Chunk, Framed
    <3>3. got'[d] = got[d] + n /\ length'[d] = length[d]
      BY <1>8, <1>t, <2>2, <3>1, <3>2 DEF Chunk, Enqueue, TypeOK
    <3>4. ClientState[d] = "streaming"
      BY <3>2 DEF ClientState
    <3>5. done => ClientState'[d] = "complete" /\ got'[d] = length[d]
      BY <1>8, <1>t, <2>2, <3>1, <3>2, <3>3
      DEF Chunk, Expected, Drop, ClientState, TypeOK
    <3>6. ~done => ClientState'[d] = "streaming"
      BY <1>8, <2>2, <3>2 DEF Chunk, ClientState
    <3>7. got'[d] \in got[d] .. length[d]
      BY <2>2, <3>1, <3>2, <3>3 DEF Expected
    <3>q. QED
      BY <2>2, <3>3, <3>4, <3>5, <3>6, <3>7 DEF Promise!Move, Promise!Deliver
  <2>3. CASE Expected(d, n, done) /\ e # d
    BY <1>8, <1>t, <1>k, <2>3 DEF Chunk, Enqueue, Drop, TypeOK
  <2>q. QED  BY <2>1, <2>2, <2>3
<1>9. CASE LinkBreaks \/ UNCHANGED vars
  BY <1>9, <1>k DEF LinkBreaks
<1>10. CASE FailAll
  BY <1>10, <1>s, FailMoves DEF FailAll
<1>q. QED
  BY <1>1, <1>2, <1>3, <1>4, <1>5, <1>6, <1>7, <1>8, <1>9, <1>10 DEF Next

\* The relay implements the promise of RelayedDownload, for any number of
\* transfers and any limits.
THEOREM Refinement == Spec => KeepsPromise
<1>1. Init => Promise!Init
  BY DEF Init, ClientState, Promise!Init
<1>2. Inv /\ Inv' /\ [Next]_vars => [Promise!Next]_(Promise!vars)
  <2> SUFFICES ASSUME Inv, Inv', [Next]_vars
               PROVE  Promise!Next
    OBVIOUS
  <2>1. ClientState' \in [Transfers -> Promise!States]
    BY DEF ClientState, Promise!States
  <2>2. /\ length' \in [Transfers -> 0 .. MaxBytes]
        /\ got' \in [Transfers -> 0 .. MaxBytes]
    BY DEF Inv, TypeOK
  <2>q. QED  BY <2>1, <2>2, StepMoves DEF Promise!Next
<1>q. QED
  BY <1>1, <1>2, Invariant, PTL DEF Spec, KeepsPromise, Promise!Spec
=============================================================================
