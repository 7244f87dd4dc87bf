--------------------------- MODULE ToolCalls_proofs ---------------------------
(* Proofs about ToolCalls for a batch of any size, any number of workers and *)
(* attempts, and all three handshake modes.                                  *)
EXTENDS ToolCalls, FiniteSetTheorems, TLAPS

(***************************************************************************)
(* The inductive invariant follows the one request that may run the tool   *)
(* of a call.  Clean names the states of the client in which it may send   *)
(* another: they are reached only when nothing has run, but for the one run *)
(* that was taken for none (Before), and nothing is under way.  Honest says *)
(* what the answers that lead there stand for.                              *)
(***************************************************************************)
Under(c) ==
  {q \in travelling \cup forwarded : q.call = c /\ q.step \in ToolSteps}

Once(c) ==
  /\ runs[c] \in {Before(c), Before(c) + 1}
  /\ runs[c] = Before(c) + 1 => Under(c) = {}
  /\ \A q, r \in Under(c) : q = r
  /\ Under(c) \cap travelling \cap forwarded = {}

Clean(c) ==
  (\/ step[c] \in {"waiting", "initialize", "initialized"}
   \/ wire[c] = "backoff"
   \/ outcome[c] = "refused") => Untouched(c)

Tidy(c) ==
  /\ step[c] = "waiting" <=> c > next
  /\ step[c] \in {"waiting", "done"} => wire[c] = "idle"
  /\ wire[c] = "backoff" => attempt[c] < MaxAttempts
  /\ outcome[c] # "none" => step[c] = "done"
  /\ outcome[c] = "result" => runs[c] > Before(c)
  /\ step[c] \in {"waiting", "try"} => c \notin misled

Honest(a) ==
  /\ wire[a[1].call] = "sent"
  /\ a[1] = Current(a[1].call)
  /\ a[2] \in {"refused", "complaint"} => Untouched(a[1].call)
  /\ a[2] = "lookalike" \/ (a[2] = "result" /\ a[1].step \in ToolSteps)
       => runs[a[1].call] > Before(a[1].call)

BatchInv ==
  /\ BatchTypeOK
  /\ \A c \in Calls : Once(c) /\ Clean(c) /\ Tidy(c)
  /\ \A a \in answers : Honest(a)

\* The calls are the numbers from 1 to some n.
LEMMA CallNumbers ==
  /\ Calls \subseteq Nat \ {0}
  /\ Cardinality(Calls) \in Nat \ {0}
  /\ MaxAttempts \in Nat \ {0}
<1>1. Cardinality(Calls) \in Nat
  BY BatchAssumption, FS_CardinalityType
<1>2. Calls = 1 .. Cardinality(Calls) /\ Calls # {}
  BY BatchAssumption
<1>q. QED  BY <1>1, <1>2, BatchAssumption

\* What holds of every call follows for Untouched.
LEMMA UntouchedIs ==
  ASSUME NEW c \in Calls
  PROVE  Untouched(c) <=> runs[c] = Before(c) /\ Under(c) = {}
BY DEF Untouched, Under

\* A step of the client on behalf of c, which takes the answers to c and sends
\* at most requests of c, leaves the other calls as they are.
LEMMA OthersKeep ==
  ASSUME BatchInv, BatchTypeOK', NEW c \in Calls,
         \A q \in travelling' \ travelling : q.call = c,
         travelling \subseteq travelling',
         forwarded' = forwarded, runs' = runs,
         \A d \in Calls \ {c} : /\ step'[d] = step[d]
                                /\ wire'[d] = wire[d]
                                /\ attempt'[d] = attempt[d]
                                /\ outcome'[d] = outcome[d]
                                /\ d > next' <=> d > next
                                /\ d \in misled' <=> d \in misled,
         answers' \subseteq answers,
         \A a \in answers' : a[1].call # c
  PROVE  /\ \A d \in Calls \ {c} : (Once(d) /\ Clean(d) /\ Tidy(d))'
         /\ \A a \in answers' : Honest(a)'
<1>1. ASSUME NEW d \in Calls \ {c}
      PROVE  /\ Under(d)' = Under(d)
             /\ Under(d)' \cap travelling' = Under(d) \cap travelling
             /\ Before(d)' = Before(d)
             /\ Untouched(d) => Untouched(d)'
  BY <1>1 DEF Under, Untouched, Before
<1>2. ASSUME NEW d \in Calls \ {c}
      PROVE  (Once(d) /\ Clean(d) /\ Tidy(d))'
  <2>1. Once(d) /\ Clean(d) /\ Tidy(d)
    BY DEF BatchInv
  <2>2. Once(d)'
    BY <1>1, <2>1 DEF Once
  <2>3. Clean(d)'
    BY <1>1, <2>1 DEF Clean
  <2>4. Tidy(d)'
    BY <1>1, <2>1 DEF Tidy
  <2>q. QED  BY <2>2, <2>3, <2>4
<1>3. ASSUME NEW a \in answers'
      PROVE  Honest(a)'
  <2>1. Honest(a) /\ a[1].call \in Calls \ {c}
    BY DEF BatchInv, BatchTypeOK, Requests
  <2>2. /\ Untouched(a[1].call) => Untouched(a[1].call)'
        /\ Before(a[1].call)' = Before(a[1].call)
    BY <1>1, <2>1
  <2>q. QED  BY <2>1, <2>2 DEF Honest, Current
<1>q. QED  BY <1>2, <1>3

\* The first request of an rpc, sent while nothing of the call is under way;
\* a run of its tool that is taken for none is counted as such from then on.
LEMMA AskKeeps ==
  ASSUME BatchInv, NEW c \in Calls, NEW rpc \in Rpcs,
         Ask(c, rpc), outcome' = outcome, outcome[c] = "none",
         forwarded' = forwarded, runs' = runs, ~(c > next'),
         Under(c) = {}, runs[c] = Before(c)', rpc = "try" => c \notin misled'
  PROVE  (Once(c) /\ Clean(c) /\ Tidy(c))'
<1>1. Once(c) /\ Clean(c) /\ Tidy(c) /\ BatchTypeOK
  BY DEF BatchInv
<1>2. Under(c) = {} /\ runs[c] = Before(c)' /\ Before(c)' \in {0, 1}
  BY DEF Before
<1>3. /\ step'[c] = rpc /\ wire'[c] = "sent" /\ attempt'[c] = 1
      /\ travelling' = travelling \cup {[call |-> c, step |-> rpc, attempt |-> 1]}
  BY <1>1 DEF Ask, BatchTypeOK
<1>4. Under(c)' \subseteq {[call |-> c, step |-> rpc, attempt |-> 1]} /\ Under(c)' \cap forwarded = {}
  BY <1>2, <1>3 DEF Under
<1>5. Once(c)'
  BY <1>2, <1>4 DEF Once
<1>6. rpc \notin ToolSteps => Untouched(c)'
  BY <1>2, <1>3 DEF Untouched, Under
<1>7. Clean(c)'
  BY <1>3, <1>6 DEF Clean, ToolSteps, Rpcs
<1>8. Tidy(c)'
  BY <1>3 DEF Tidy, Rpcs, ToolSteps
<1>q. QED  BY <1>5, <1>7, <1>8

\* The end of a call keeps what is known of it.
LEMMA SettleKeeps ==
  ASSUME BatchInv, NEW c \in Calls, NEW kind \in Kinds, Settle(c, kind),
         step[c] # "waiting", next' = next, forwarded' = forwarded, runs' = runs,
         misled' = misled,
         kind = "refused" => Untouched(c),
         kind = "result" => runs[c] > Before(c)
  PROVE  (Once(c) /\ Clean(c) /\ Tidy(c))'
<1>1. Once(c) /\ Clean(c) /\ Tidy(c) /\ BatchTypeOK
  BY DEF BatchInv
<1>2. step'[c] = "done" /\ wire'[c] = "idle" /\ outcome'[c] = kind /\ travelling' = travelling
  BY <1>1 DEF Settle, BatchTypeOK
<1>3. /\ Under(c)' = Under(c) /\ Before(c)' = Before(c)
      /\ Untouched(c) => Untouched(c)'
  BY <1>2 DEF Under, Untouched, Before
<1>4. Once(c)'
  BY <1>1, <1>2, <1>3 DEF Once
<1>5. Clean(c)'
  BY <1>2, <1>3 DEF Clean
<1>6. Tidy(c)'
  BY <1>1, <1>2, <1>3 DEF Tidy, Kinds, Failures, Complaints
<1>q. QED  BY <1>4, <1>5, <1>6

\* How an rpc that fails goes on: the last request of a call, another rpc of
\* it, or its end.
LEMMA RpcFailsKeeps ==
  ASSUME BatchInv, NEW c \in Calls, NEW kind \in Failures, RpcFails(c, kind),
         step[c] \in Rpcs, next' = next, forwarded' = forwarded, runs' = runs,
         kind \in {"refused", "complaint"} => Untouched(c),
         kind = "lookalike" => runs[c] > Before(c)
  PROVE  (Once(c) /\ Clean(c) /\ Tidy(c))'
<1>1. Clean(c) /\ Tidy(c) /\ c \in Nat /\ next \in Nat
  BY CallNumbers DEF BatchInv, BatchTypeOK
<1>2. outcome[c] = "none" /\ ~(c > next') /\ step[c] # "waiting"
  BY <1>1 DEF Tidy, Rpcs, ToolSteps
<1>3. CASE step[c] = "try" /\ kind \in Complaints /\ ~handshaken
  <2>1. /\ Ask(c, "initialize") /\ outcome' = outcome
        /\ misled' = IF kind = "lookalike" THEN misled \cup {c} ELSE misled
    BY <1>3 DEF RpcFails
  <2>2. c \notin misled /\ Before(c) = 0 /\ Once(c)
    BY <1>1, <1>3 DEF Tidy, Before, BatchInv
  <2>3. Under(c) = {} /\ runs[c] = Before(c)'
    <3>1. CASE kind = "complaint"
      <4>1. Untouched(c)
        BY <3>1
      <4>q. QED  BY <2>1, <2>2, <3>1, <4>1, UntouchedIs DEF Before
    <3>2. CASE kind = "lookalike"
      <4>1. runs[c] = 1 /\ Under(c) = {}
        BY <2>2, <3>2 DEF Once
      <4>q. QED  BY <2>1, <3>2, <4>1 DEF Before
    <3>q. QED  BY <1>3, <3>1, <3>2 DEF Complaints
  <2>q. QED  BY <1>2, <1>3, <2>1, <2>3, AskKeeps DEF Rpcs
<1>4. CASE step[c] = "initialized"
  <2>1. Ask(c, "final") /\ outcome' = outcome /\ misled' = misled
    BY <1>4 DEF RpcFails
  <2>2. Under(c) = {} /\ runs[c] = Before(c)'
    BY <1>1, <1>4, <2>1, UntouchedIs DEF Clean, Before
  <2>q. QED  BY <1>2, <2>1, <2>2, AskKeeps DEF Rpcs, ToolSteps
<1>5. CASE Settle(c, kind) /\ misled' = misled
  BY <1>2, <1>5, SettleKeeps DEF Kinds, Failures, Complaints
<1>q. QED  BY <1>3, <1>4, <1>5 DEF RpcFails

\* The frame of an rpc's end: only c moves, and sends at most a request of c.
LEMMA RpcFailsFrame ==
  ASSUME BatchTypeOK, NEW c \in Calls, NEW kind \in Failures, RpcFails(c, kind)
  PROVE  /\ \A q \in travelling' \ travelling : q.call = c
         /\ travelling \subseteq travelling'
         /\ \A d \in Calls \ {c} : /\ step'[d] = step[d]
                                   /\ wire'[d] = wire[d]
                                   /\ attempt'[d] = attempt[d]
                                   /\ outcome'[d] = outcome[d]
                                   /\ d \in misled' <=> d \in misled
         /\ step' \in [Calls -> Rpcs \cup {"waiting", "done"}]
         /\ wire' \in [Calls -> {"idle", "sent", "backoff"}]
         /\ attempt' \in [Calls -> 0 .. MaxAttempts]
         /\ outcome' \in [Calls -> Kinds \cup {"none"}]
         /\ misled' \in SUBSET Calls
         /\ travelling' \in SUBSET Requests
<1>1. misled' \in SUBSET Calls /\ \A d \in Calls \ {c} : d \in misled' <=> d \in misled
  BY DEF RpcFails, BatchTypeOK
<1>2. CASE \E rpc \in Rpcs : Ask(c, rpc) /\ outcome' = outcome
  BY <1>1, <1>2, CallNumbers DEF Ask, BatchTypeOK, Requests
<1>3. CASE Settle(c, kind)
  BY <1>1, <1>3 DEF Settle, BatchTypeOK, Kinds
<1>q. QED  BY <1>2, <1>3 DEF RpcFails, Rpcs, ToolSteps

LEMMA BatchInitInv == BatchInit => BatchInv
<1> SUFFICES ASSUME BatchInit PROVE BatchInv
  OBVIOUS
<1>1. BatchTypeOK
  <2>1. 0 \in 0 .. MaxAttempts /\ 0 \in Nat
    BY CallNumbers
  <2>q. QED  BY <2>1 DEF BatchInit, BatchTypeOK
<1>2. \A c \in Calls : c > next
  BY CallNumbers DEF BatchInit
<1>q. QED  BY <1>1, <1>2 DEF BatchInv, BatchInit, Once, Clean, Tidy, Under, Untouched, Before

LEMMA TakeKeeps ==
  ASSUME BatchInv, NEW c \in Calls, Take(c)
  PROVE  BatchInv'
<1>1. /\ c > next /\ next' = c /\ next \in Nat
      /\ \A d \in Calls \ {c} : d > next' <=> d > next
  BY CallNumbers DEF Take, BatchInv, BatchTypeOK
<1>2. FirstRpc \in Rpcs
  BY DEF FirstRpc, Rpcs, ToolSteps, BatchInv, BatchTypeOK
<1>3. /\ step[c] = "waiting" /\ wire[c] = "idle" /\ outcome[c] = "none"
      /\ c \notin misled /\ Under(c) = {} /\ runs[c] = Before(c)
  <2>1. Clean(c) /\ Tidy(c)
    BY DEF BatchInv
  <2>q. QED  BY <1>1, <2>1, UntouchedIs DEF Clean, Tidy
<1>4. BatchTypeOK'
  BY <1>2, CallNumbers DEF BatchInv, BatchTypeOK, Take, Ask, Requests, flags
<1>5. \A a \in answers : a[1].call # c
  BY <1>3 DEF BatchInv, Honest
<1>6. (Once(c) /\ Clean(c) /\ Tidy(c))'
  BY <1>1, <1>2, <1>3, AskKeeps DEF Take, Before
<1>7. /\ \A q \in travelling' \ travelling : q.call = c
      /\ travelling \subseteq travelling'
      /\ \A d \in Calls \ {c} : /\ step'[d] = step[d]
                                /\ wire'[d] = wire[d]
                                /\ attempt'[d] = attempt[d]
                                /\ outcome'[d] = outcome[d]
  BY DEF Take, Ask, BatchInv, BatchTypeOK
<1>8. /\ \A d \in Calls \ {c} : (Once(d) /\ Clean(d) /\ Tidy(d))'
      /\ \A a \in answers' : Honest(a)'
  BY <1>1, <1>4, <1>5, <1>7, OthersKeep DEF Take
<1>q. QED  BY <1>4, <1>6, <1>8 DEF BatchInv

LEMMA FailedKeeps ==
  ASSUME BatchInv, NEW c \in Calls, Failed(c) \/ FetchRejects(c)
  PROVE  BatchInv'
<1>1. PICK kind \in Failures :
        /\ RpcFails(c, kind)
        /\ kind = "failed" \/ <<Current(c), kind>> \in answers
  BY DEF Failed, FetchRejects, Receives, Failures
<1>2. /\ answers' = {a \in answers : a[1].call # c}
      /\ UNCHANGED <<flags, next, handshaken, forwarded, session, runs>>
      /\ wire[c] # "idle"
  BY DEF Failed, FetchRejects, Receives
<1>3. step[c] \in Rpcs
  <2>1. Tidy(c) /\ step[c] \in Rpcs \cup {"waiting", "done"}
    BY DEF BatchInv, BatchTypeOK
  <2>q. QED  BY <1>2, <2>1 DEF Tidy
<1>4. /\ kind \in {"refused", "complaint"} => Untouched(c)
      /\ kind = "lookalike" => runs[c] > Before(c)
  BY <1>1 DEF BatchInv, Honest, Current
<1>5. (Once(c) /\ Clean(c) /\ Tidy(c))'
  BY <1>1, <1>2, <1>3, <1>4, RpcFailsKeeps
<1>6. BatchTypeOK'
  BY <1>1, <1>2, RpcFailsFrame DEF BatchInv, BatchTypeOK, flags
<1>7. /\ \A d \in Calls \ {c} : (Once(d) /\ Clean(d) /\ Tidy(d))'
      /\ \A a \in answers' : Honest(a)'
  BY <1>1, <1>2, <1>6, RpcFailsFrame, OthersKeep DEF BatchInv
<1>q. QED  BY <1>5, <1>6, <1>7 DEF BatchInv

LEMMA AnsweredKeeps ==
  ASSUME BatchInv, NEW c \in Calls, Answered(c)
  PROVE  BatchInv'
<1>1. /\ <<Current(c), "result">> \in answers /\ wire[c] = "sent"
      /\ answers' = {a \in answers : a[1].call # c}
      /\ UNCHANGED <<flags, next, forwarded, session, runs>>
      /\ RpcReturns(c)
  BY DEF Answered, Receives
<1>2. /\ Clean(c) /\ Tidy(c) /\ c \in Nat /\ next \in Nat
      /\ step[c] \in Rpcs \cup {"waiting", "done"}
  BY CallNumbers DEF BatchInv, BatchTypeOK
<1>3. /\ outcome[c] = "none" /\ ~(c > next') /\ step[c] # "waiting"
      /\ step[c] \in Rpcs
  BY <1>1, <1>2 DEF Tidy
<1>4. step[c] \in ToolSteps => runs[c] > Before(c)
  BY <1>1 DEF BatchInv, Honest, Current
<1>5. (Once(c) /\ Clean(c) /\ Tidy(c))'
  <2> misled' = misled
    BY <1>1 DEF RpcReturns
  <2>0. CASE step[c] \in {"initialize", "initialized"}
    <3>1. Under(c) = {} /\ runs[c] = Before(c)'
      BY <1>2, <2>0, UntouchedIs DEF Clean, Before
    <3>q. QED  BY <1>1, <1>3, <2>0, <3>1, AskKeeps DEF RpcReturns, Rpcs, ToolSteps
  <2>3. CASE step[c] \in ToolSteps
    <3>1. Settle(c, "result")
      BY <1>1, <2>3 DEF RpcReturns, ToolSteps
    <3>q. QED  BY <1>1, <1>3, <1>4, <2>3, <3>1, SettleKeeps DEF Kinds
  <2>q. QED  BY <1>3, <2>0, <2>3 DEF Rpcs
<1>6. BatchTypeOK'
  BY <1>1, CallNumbers DEF BatchInv, BatchTypeOK, flags, RpcReturns, Ask, Settle,
     Requests, Rpcs, ToolSteps, Kinds
<1>7. /\ \A q \in travelling' \ travelling : q.call = c
      /\ travelling \subseteq travelling'
      /\ \A d \in Calls \ {c} : /\ step'[d] = step[d]
                                /\ wire'[d] = wire[d]
                                /\ attempt'[d] = attempt[d]
                                /\ outcome'[d] = outcome[d]
                                /\ d \in misled' <=> d \in misled
  BY <1>1 DEF RpcReturns, Ask, Settle, BatchInv, BatchTypeOK
<1>8. /\ \A d \in Calls \ {c} : (Once(d) /\ Clean(d) /\ Tidy(d))'
      /\ \A a \in answers' : Honest(a)'
  BY <1>1, <1>6, <1>7, OthersKeep
<1>q. QED  BY <1>5, <1>6, <1>8 DEF BatchInv

LEMMA BackOffKeeps ==
  ASSUME BatchInv, NEW c \in Calls, BackOff(c)
  PROVE  BatchInv'
<1>1. /\ <<Current(c), "refused">> \in answers /\ wire[c] = "sent"
      /\ answers' = {a \in answers : a[1].call # c}
      /\ UNCHANGED <<flags, next, forwarded, session, runs>>
      /\ attempt[c] < MaxAttempts
      /\ wire' = [wire EXCEPT ![c] = "backoff"]
      /\ UNCHANGED <<handshaken, step, attempt, outcome, misled, travelling>>
  BY DEF BackOff, Receives, Retried
<1>2. Untouched(c)
  BY <1>1 DEF BatchInv, Honest, Current
<1>3. BatchTypeOK'
  BY <1>1 DEF BatchInv, BatchTypeOK, flags
<1>4. Once(c) /\ Tidy(c) /\ Under(c)' = Under(c) /\ Before(c)' = Before(c)
  BY <1>1 DEF BatchInv, Under, Before
<1>5. (Once(c) /\ Clean(c) /\ Tidy(c))'
  BY <1>1, <1>2, <1>4 DEF Once, Clean, Tidy, Untouched, BatchInv, BatchTypeOK
<1>6. /\ \A d \in Calls \ {c} : (Once(d) /\ Clean(d) /\ Tidy(d))'
      /\ \A a \in answers' : Honest(a)'
  <2>1. \A d \in Calls \ {c} : wire'[d] = wire[d]
    BY <1>1 DEF BatchInv, BatchTypeOK
  <2>q. QED  BY <1>1, <1>3, <2>1, OthersKeep
<1>q. QED  BY <1>3, <1>5, <1>6 DEF BatchInv

LEMMA AgainKeeps ==
  ASSUME BatchInv, NEW c \in Calls, Again(c)
  PROVE  BatchInv'
<1> DEFINE new == [Current(c) EXCEPT !.attempt = @ + 1]
<1>1. /\ wire[c] = "backoff" /\ Tidy(c) /\ attempt[c] < MaxAttempts /\ Untouched(c)
      /\ step[c] \in Rpcs /\ attempt[c] \in 0 .. MaxAttempts
  BY DEF Again, BatchInv, Tidy, Clean, BatchTypeOK
<1>2. new = [call |-> c, step |-> step[c], attempt |-> attempt[c] + 1]
  BY DEF Current
<1>3. new \in Requests
  BY <1>1, <1>2, CallNumbers DEF Requests
<1>4. /\ wire' = [wire EXCEPT ![c] = "sent"]
      /\ attempt' = [attempt EXCEPT ![c] = @ + 1]
      /\ travelling' = travelling \cup {new}
      /\ UNCHANGED <<flags, next, handshaken, step, outcome, misled, forwarded,
                     answers, session, runs>>
  BY DEF Again
<1> HIDE DEF new
<1>5. BatchTypeOK'
  BY <1>1, <1>3, <1>4, CallNumbers DEF BatchInv, BatchTypeOK, flags
<1>6. \A a \in answers : a[1].call # c
  BY <1>1 DEF BatchInv, Honest
<1>7. (Once(c) /\ Clean(c) /\ Tidy(c))'
  <2>1. /\ Under(c) = {} /\ runs[c] = Before(c) /\ Clean(c)
        /\ Before(c)' = Before(c)
    BY <1>1, <1>4, UntouchedIs DEF BatchInv, Before
  <2>2. Under(c)' \subseteq {new} /\ Under(c)' \cap forwarded = {}
    BY <1>2, <1>4, <2>1 DEF Under
  <2>3. Once(c)'
    BY <1>4, <2>1, <2>2 DEF Once, Before
  <2>4. wire'[c] = "sent"
    BY <1>4 DEF BatchInv, BatchTypeOK
  <2>5. step[c] \notin ToolSteps => Untouched(c)'
    BY <1>2, <1>4, <2>1 DEF Untouched, Under
  <2>6. outcome[c] = "none"
    BY <1>1 DEF Tidy
  <2>7. Clean(c)'
    BY <1>4, <2>4, <2>5, <2>6 DEF Clean, ToolSteps
  <2>8. Tidy(c)'
    BY <1>1, <1>4, <2>1, <2>4, <2>6 DEF Tidy
  <2>q. QED  BY <2>3, <2>7, <2>8
<1>8. /\ \A d \in Calls \ {c} : (Once(d) /\ Clean(d) /\ Tidy(d))'
      /\ \A a \in answers' : Honest(a)'
  <2>1. \A d \in Calls \ {c} : wire'[d] = wire[d] /\ attempt'[d] = attempt[d]
    BY <1>4 DEF BatchInv, BatchTypeOK
  <2>2. \A q \in travelling' \ travelling : q.call = c
    BY <1>2, <1>4
  <2>q. QED  BY <1>4, <1>5, <1>6, <2>1, <2>2, OthersKeep
<1>q. QED  BY <1>5, <1>7, <1>8 DEF BatchInv

(***************************************************************************)
(* The gateway and the device only ever take requests away; a run of the   *)
(* tool takes the one request that could run it.                           *)
(***************************************************************************)
LEMMA WorldKeeps ==
  ASSUME BatchInv, BatchTypeOK', UNCHANGED clientVars,
         travelling' \cup forwarded' \subseteq travelling \cup forwarded,
         \A d \in Calls : Under(d)' \cap travelling' \cap forwarded' = {},
         \A d \in Calls : \/ runs'[d] = runs[d]
                          \/ /\ runs'[d] = runs[d] + 1
                             /\ Under(d) # {} /\ Under(d)' = {},
         \A a \in answers' \ answers : Honest(a)'
  PROVE  BatchInv'
<1>1. ASSUME NEW d \in Calls
      PROVE  /\ Under(d)' \subseteq Under(d)
             /\ Untouched(d) => Untouched(d)'
             /\ Before(d)' = Before(d) /\ Before(d) \in {0, 1}
             /\ runs[d] > Before(d) => runs'[d] > Before(d)'
  <2>1. Under(d)' \subseteq Under(d)
    BY DEF Under
  <2>2. runs[d] \in Nat /\ runs'[d] \in Nat
    BY DEF BatchInv, BatchTypeOK
  <2>3. Before(d)' = Before(d) /\ Before(d) \in {0, 1}
    BY DEF Before, clientVars
  <2>4. Untouched(d)' <=> runs'[d] = Before(d)' /\ Under(d)' = {}
    BY DEF Untouched, Under
  <2>q. QED  BY <2>1, <2>2, <2>3, <2>4, UntouchedIs
<1>2. ASSUME NEW d \in Calls
      PROVE  (Once(d) /\ Clean(d) /\ Tidy(d))'
  <2>1. Once(d) /\ Clean(d) /\ Tidy(d)
    BY DEF BatchInv
  <2>2. Once(d)'
    BY <1>1, <2>1 DEF Once
  <2>3. Clean(d)'
    BY <1>1, <2>1 DEF Clean, clientVars
  <2>4. Tidy(d)'
    BY <1>1, <2>1 DEF Tidy, clientVars
  <2>q. QED  BY <2>2, <2>3, <2>4
<1>3. ASSUME NEW a \in answers
      PROVE  Honest(a)'
  <2>1. Honest(a) /\ a[1].call \in Calls
    BY DEF BatchInv, BatchTypeOK, Requests
  <2>q. QED  BY <1>1, <2>1 DEF Honest, Current, clientVars
<1>q. QED  BY <1>2, <1>3 DEF BatchInv

\* What the answer to a request adds.
LEMMA ToldIs ==
  ASSUME BatchTypeOK, UNCHANGED clientVars, NEW q \in Requests, NEW kind \in Kinds,
         answers' = Told(q, kind),
         q = Current(q.call) /\ kind \in {"refused", "complaint"}
           => Untouched(q.call)',
         kind = "lookalike" \/ (kind = "result" /\ q.step \in ToolSteps)
           => runs'[q.call] > Before(q.call)'
  PROVE  /\ answers' \in SUBSET (Requests \X Kinds)
         /\ \A a \in answers' \ answers : Honest(a)'
<1>1. answers' \in SUBSET (Requests \X Kinds)
  BY DEF Told, BatchTypeOK
<1>2. ASSUME NEW a \in answers' \ answers
      PROVE  Honest(a)'
  <2>1. a = <<q, kind>> /\ wire[q.call] = "sent" /\ q = Current(q.call)
    BY DEF Told
  <2>2. a[1] = q /\ a[2] = kind
    BY <2>1
  <2>q. QED  BY <2>1, <2>2 DEF Honest, Current, clientVars
<1>q. QED  BY <1>1, <1>2

\* A request that can run the tool of its call is the only one, and the tool
\* has not run, but for a run that was taken for none.
LEMMA OnlyOne ==
  ASSUME BatchInv, NEW q \in travelling \cup forwarded
  PROVE  /\ q \in Requests /\ q.call \in Calls
         /\ q.step \in ToolSteps => /\ runs[q.call] = Before(q.call)
                                    /\ Under(q.call) = {q}
                                    /\ ~(q \in travelling /\ q \in forwarded)
<1>1. q \in Requests /\ q.call \in Calls
  BY DEF BatchInv, BatchTypeOK, Requests
<1>2. Once(q.call) /\ (q.step \in ToolSteps => q \in Under(q.call))
  BY <1>1 DEF BatchInv, Under
<1>q. QED  BY <1>1, <1>2 DEF Once

LEMMA UnderIsOnce ==
  ASSUME BatchInv, NEW d \in Calls
  PROVE  Under(d) \cap travelling \cap forwarded = {}
BY DEF BatchInv, Once


\* Taking that request away leaves its call untouched.
LEMMA TakenUntouched ==
  ASSUME BatchInv, NEW q \in travelling \cup forwarded, runs' = runs,
         misled' = misled, q.step \in ToolSteps \/ Untouched(q.call),
         travelling' \cup forwarded' \subseteq (travelling \cup forwarded) \ {q}
  PROVE  Untouched(q.call)'
<1>1. runs[q.call] = Before(q.call) /\ Under(q.call) \subseteq {q}
  BY OnlyOne, UntouchedIs
<1>q. QED  BY <1>1 DEF Untouched, Under, Before

LEMMA RefusesKeeps ==
  ASSUME BatchInv, NEW q \in Requests, GatewayRefuses(q)
  PROVE  BatchInv'
<1>1. PICK kind \in {"refused", "failed"} : answers' = Told(q, kind)
  BY DEF GatewayRefuses
<1>2. /\ q \in travelling /\ travelling' = travelling \ {q}
      /\ UNCHANGED <<flags, clientVars, forwarded, session, runs>>
  BY DEF GatewayRefuses
<1>3. q.call \in Calls
  BY <1>2, OnlyOne
<1>4. q = Current(q.call) /\ kind \in {"refused", "complaint"} => Untouched(q.call)'
  <2> SUFFICES ASSUME q = Current(q.call) PROVE Untouched(q.call)'
    OBVIOUS
  <2>1. CASE q.step \in ToolSteps
    <3>1. q \notin forwarded
      BY <1>2, <2>1, OnlyOne
    <3>q. QED  BY <1>2, <2>1, <3>1, TakenUntouched DEF clientVars
  <2>2. CASE q.step \notin ToolSteps
    <3>1. q.step \in {"initialize", "initialized"} /\ step[q.call] = q.step
      BY <2>2 DEF Requests, Rpcs, Current
    <3>2. Untouched(q.call)
      BY <1>3, <3>1 DEF BatchInv, Clean
    <3>q. QED  BY <1>2, <3>2 DEF Untouched, Before, clientVars
  <2>q. QED  BY <2>1, <2>2
<1>5. /\ answers' \in SUBSET (Requests \X Kinds)
      /\ \A a \in answers' \ answers : Honest(a)'
  BY <1>1, <1>2, <1>4, ToldIs DEF BatchInv, Kinds, Failures
<1>6. BatchTypeOK'
  BY <1>2, <1>5 DEF BatchInv, BatchTypeOK, flags, clientVars
<1>7. \A d \in Calls : Under(d)' \cap travelling' \cap forwarded' = {}
  BY <1>2, UnderIsOnce DEF Under
<1>q. QED  BY <1>2, <1>5, <1>6, <1>7, WorldKeeps

LEMMA ForwardsKeeps ==
  ASSUME BatchInv, NEW q \in Requests, GatewayForwards(q)
  PROVE  BatchInv'
<1>1. /\ q \in travelling /\ travelling' = travelling \ {q}
      /\ forwarded' = forwarded \cup {q}
      /\ UNCHANGED <<flags, clientVars, answers, session, runs>>
  BY DEF GatewayForwards
<1>2. BatchTypeOK'
  BY <1>1 DEF BatchInv, BatchTypeOK, flags, clientVars
<1>3. \A d \in Calls : Under(d)' \cap travelling' \cap forwarded' = {}
  BY <1>1, UnderIsOnce DEF Under
<1>q. QED  BY <1>1, <1>2, <1>3, WorldKeeps

LEMMA GivesUpKeeps ==
  ASSUME BatchInv, NEW q \in Requests, GatewayGivesUp(q)
  PROVE  BatchInv'
<1>1. /\ answers' = Told(q, "failed")
      /\ UNCHANGED <<flags, clientVars, travelling, forwarded, session, runs>>
  BY DEF GatewayGivesUp
<1>2. /\ answers' \in SUBSET (Requests \X Kinds)
      /\ \A a \in answers' \ answers : Honest(a)'
  BY <1>1, ToldIs DEF BatchInv, Kinds, Failures
<1>3. BatchTypeOK'
  BY <1>1, <1>2 DEF BatchInv, BatchTypeOK, flags, clientVars
<1>4. \A d \in Calls : Under(d)' \cap travelling' \cap forwarded' = {}
  BY <1>1, UnderIsOnce DEF Under
<1>q. QED  BY <1>1, <1>2, <1>3, <1>4, WorldKeeps

\* The device handles a request: an initialize or its notification, or a call
\* it answers with the complaint or by running the tool.
LEMMA DeviceKeeps ==
  ASSUME BatchInv, NEW q \in Requests,
         DeviceInitializes(q) \/ DeviceComplains(q) \/ DeviceRuns(q)
  PROVE  BatchInv'
<1>1. /\ q \in forwarded /\ forwarded' = forwarded \ {q}
      /\ UNCHANGED <<flags, clientVars, travelling>>
  BY DEF DeviceInitializes, DeviceComplains, DeviceRuns, DeviceTakes
<1>2. /\ q.call \in Calls /\ runs[q.call] \in Nat
      /\ \A d \in Calls : Under(d)' \cap travelling' \cap forwarded' = {}
  BY <1>1, OnlyOne, UnderIsOnce DEF Under, BatchInv, BatchTypeOK
<1>3. PICK kind \in Kinds : /\ answers' = Told(q, kind)
                            /\ kind = "complaint" => DeviceComplains(q)
                            /\ kind = "refused" => FALSE
                            /\ \/ kind = "lookalike"
                               \/ kind = "result" /\ q.step \in ToolSteps
                               => DeviceRuns(q)
  BY DEF DeviceInitializes, DeviceComplains, DeviceRuns, Kinds, Failures, Complaints,
         ToolSteps
<1>4. DeviceComplains(q) => Untouched(q.call)'
  <2> SUFFICES ASSUME DeviceComplains(q) PROVE Untouched(q.call)'
    OBVIOUS
  <2>1. q.step \in ToolSteps /\ runs' = runs
    BY DEF DeviceComplains
  <2>2. q \notin travelling
    BY <1>1, <2>1, OnlyOne
  <2>q. QED  BY <1>1, <2>1, <2>2, TakenUntouched DEF clientVars
<1>5. DeviceRuns(q) => /\ runs' = [runs EXCEPT ![q.call] = @ + 1]
                       /\ Under(q.call) # {} /\ Under(q.call)' = {}
                       /\ runs'[q.call] > Before(q.call)'
  <2> SUFFICES ASSUME DeviceRuns(q)
               PROVE  /\ runs' = [runs EXCEPT ![q.call] = @ + 1]
                      /\ Under(q.call) # {} /\ Under(q.call)' = {}
                      /\ runs'[q.call] > Before(q.call)'
    OBVIOUS
  <2>1. q.step \in ToolSteps /\ runs' = [runs EXCEPT ![q.call] = @ + 1]
    BY DEF DeviceRuns
  <2>2. Under(q.call) = {q} /\ q \notin travelling
    BY <1>1, <2>1, OnlyOne
  <2>3. Under(q.call)' = {}
    BY <1>1, <2>2 DEF Under
  <2>4. runs'[q.call] = runs[q.call] + 1 /\ runs[q.call] = Before(q.call)'
    BY <1>1, <1>2, <2>1, OnlyOne DEF BatchInv, BatchTypeOK, Before, clientVars
  <2>q. QED  BY <1>2, <2>1, <2>2, <2>3, <2>4
<1>6. /\ answers' \in SUBSET (Requests \X Kinds)
      /\ \A a \in answers' \ answers : Honest(a)'
  BY <1>1, <1>3, <1>4, <1>5, ToldIs DEF BatchInv
<1>7. runs' = runs \/ DeviceRuns(q)
  BY DEF DeviceInitializes, DeviceComplains
<1>8. \A d \in Calls : \/ runs'[d] = runs[d]
                       \/ /\ runs'[d] = runs[d] + 1
                          /\ Under(d) # {} /\ Under(d)' = {}
  BY <1>5, <1>7 DEF BatchInv, BatchTypeOK
<1>9. BatchTypeOK'
  <2>1. runs' \in [Calls -> Nat]
    BY <1>2, <1>5, <1>7 DEF BatchInv, BatchTypeOK
  <2>2. session' \in BOOLEAN
    BY DEF DeviceInitializes, DeviceComplains, DeviceRuns, BatchInv, BatchTypeOK
  <2>q. QED  BY <1>1, <1>6, <2>1, <2>2 DEF BatchInv, BatchTypeOK, flags, clientVars
<1>q. QED  BY <1>1, <1>2, <1>6, <1>8, <1>9, WorldKeeps

LEMMA RestartKeeps ==
  ASSUME BatchInv, DeviceRestarts
  PROVE  BatchInv'
<1>1. /\ forwarded' = {} /\ session' \in BOOLEAN
      /\ UNCHANGED <<flags, clientVars, travelling, runs>>
  BY DEF DeviceRestarts, BatchInv, BatchTypeOK
<1>2. ASSUME NEW a \in answers' \ answers
      PROVE  a \in Requests \X Kinds /\ Honest(a)'
  <2>1. PICK q \in forwarded : /\ a = <<q, "failed">> /\ wire[q.call] = "sent"
                               /\ q = Current(q.call)
    BY DEF DeviceRestarts
  <2>2. a[1] = q /\ a[2] = "failed"
    BY <2>1
  <2>q. QED
    BY <1>1, <2>1, <2>2 DEF Honest, Current, clientVars, BatchInv, BatchTypeOK, Kinds, Failures
<1>3. BatchTypeOK'
  BY <1>1, <1>2 DEF BatchInv, BatchTypeOK, flags, clientVars
<1>4. \A d \in Calls : Under(d)' \cap travelling' \cap forwarded' = {}
  BY <1>1
<1>q. QED  BY <1>1, <1>2, <1>3, <1>4, WorldKeeps

LEMMA BatchInvStep == BatchInv /\ [BatchNext]_bvars => BatchInv'
<1> SUFFICES ASSUME BatchInv, [BatchNext]_bvars
             PROVE  BatchInv'
  OBVIOUS
<1>1. ASSUME NEW c \in Calls, ClientStep(c)
      PROVE  BatchInv'
  BY <1>1, TakeKeeps, AnsweredKeeps, BackOffKeeps, FailedKeeps, AgainKeeps DEF ClientStep
<1>2. ASSUME NEW q \in Requests, World(q)
      PROVE  BatchInv'
  BY <1>2, RefusesKeeps, ForwardsKeeps, GivesUpKeeps, DeviceKeeps DEF World
<1>3. CASE UNCHANGED bvars
  BY <1>3 DEF bvars, flags, clientVars, worldVars, BatchInv, BatchTypeOK, Once, Clean,
     Tidy, Honest, Under, Untouched, Before, Current
<1>q. QED  BY <1>1, <1>2, <1>3, RestartKeeps DEF BatchNext

\* However its requests are refused, lost, answered late or abandoned, no call
\* of a batch runs its tool twice, or only because the first run ended with an
\* error that reads like the complaint (the retry policy of client.ts).
THEOREM CallsRunOnce == BatchSpec => []AtMostOnce
<1>1. BatchInv => AtMostOnce
  BY DEF BatchInv, Once, AtMostOnce, Before
<1>q. QED  BY <1>1, BatchInitInv, BatchInvStep, PTL DEF BatchSpec

\* A call that is reported as refused has not run and never will, and one that
\* returns a result has run, not counting a run that ended with an error that
\* reads like the complaint (httpError and parseBody of client.ts).
THEOREM OutcomesTrue == BatchSpec => []ToldTrue
<1>1. BatchInv => ToldTrue
  BY DEF ToldTrue, BatchInv, Clean, Tidy, RefusedNeverRuns, ResultMeansRun
<1>q. QED  BY <1>1, BatchInitInv, BatchInvStep, PTL DEF BatchSpec

\* The state of client, gateway and device keeps its types; no rpc is
\* attempted more than MAX_ATTEMPTS times.
THEOREM BatchTypeCorrect == BatchSpec => []BatchTypeOK
<1>1. BatchInv => BatchTypeOK
  BY DEF BatchInv
<1>q. QED  BY <1>1, BatchInitInv, BatchInvStep, PTL DEF BatchSpec
=============================================================================
