------------------------------ MODULE ToolCalls ------------------------------
(***************************************************************************)
(* A batch of tool calls of the CLI: the pool of workers (cli/src/pool.ts), *)
(* the calls of a batch on one shared GatewayClient (cli/src/client.ts),    *)
(* each an HTTP request that the gateway refuses, relays or gives up on.    *)
(* What the client cannot see is modelled around it: where a request is,    *)
(* and whether the tool ran.                                                *)
(*                                                                         *)
(* No clock: the signal of a request may fire at any time, and the deadline *)
(* may always be too near for another attempt.                              *)
(***************************************************************************)
EXTENDS Integers, FiniteSets

CONSTANTS
  Calls,       \* the calls of the batch, 1 .. n in the order of the plan
  MaxAttempts  \* MAX_ATTEMPTS

ASSUME BatchAssumption ==
  /\ IsFiniteSet(Calls) /\ Calls # {} /\ Calls = 1 .. Cardinality(Calls)
  /\ MaxAttempts \in Nat \ {0}

VARIABLES
  mode,       \* the option --handshake
  workers,    \* workers of the pool; without --parallel, one
  next,       \* the pool's counter: calls 1 .. next have been taken
  handshaken, \* GatewayClient.handshaken, shared by the calls
  step,       \* what a call is doing
  wire,       \* its current rpc: waiting for an answer, or for its backoff
  attempt,    \* attempt in rpc
  outcome,    \* what the call returned or threw
  misled,     \* history: calls repeated after an error of their tool that
              \* reads like the complaint
  travelling, \* requests on their way to the gateway
  forwarded,  \* requests sent over the tunnel and not handled by the device
  answers,    \* answers on their way back, each with its request
  session,    \* the device does not ask for an initialize
  runs        \* how often the tool of a call was run

clientVars == <<next, handshaken, step, wire, attempt, outcome, misled>>
worldVars  == <<travelling, forwarded, answers, session, runs>>
flags    == <<mode, workers>>
bvars == <<flags, clientVars, worldVars>>

(***************************************************************************)
(* "try" is the direct call of mode auto, "final" the last call of the      *)
(* tool: nothing follows it.  A "complaint" is the device's answer to a call *)
(* before an initialize; a "lookalike" is the error of a tool that ran and   *)
(* that isInitializationComplaint, which goes by code and wording, cannot    *)
(* tell from one.                                                           *)
(***************************************************************************)
ToolSteps == {"try", "final"}
Rpcs      == ToolSteps \cup {"initialize", "initialized"}
Requests  == [call : Calls, step : Rpcs, attempt : 1 .. MaxAttempts]
Complaints == {"complaint", "lookalike"}
Failures  == {"refused", "failed", "error"} \cup Complaints
Kinds     == Failures \cup {"result"}

BatchTypeOK ==
  /\ mode \in {"auto", "always", "never"}
  /\ workers \in 1 .. Cardinality(Calls)
  /\ next \in Calls \cup {0}
  /\ handshaken \in BOOLEAN
  /\ step \in [Calls -> Rpcs \cup {"waiting", "done"}]
  /\ wire \in [Calls -> {"idle", "sent", "backoff"}]
  /\ attempt \in [Calls -> 0 .. MaxAttempts]
  /\ outcome \in [Calls -> Kinds \cup {"none"}]
  /\ misled \in SUBSET Calls
  /\ travelling \in SUBSET Requests
  /\ forwarded \in SUBSET Requests
  /\ answers \in SUBSET (Requests \X Kinds)
  /\ session \in BOOLEAN
  /\ runs \in [Calls -> Nat]

BatchInit ==
  /\ mode \in {"auto", "always", "never"}
  /\ workers \in 1 .. Cardinality(Calls)
  /\ next = 0
  /\ handshaken = FALSE
  /\ step = [c \in Calls |-> "waiting"]
  /\ wire = [c \in Calls |-> "idle"]
  /\ attempt = [c \in Calls |-> 0]
  /\ outcome = [c \in Calls |-> "none"]
  /\ misled = {}
  /\ travelling = {}
  /\ forwarded = {}
  /\ answers = {}
  /\ session \in BOOLEAN
  /\ runs = [c \in Calls |-> 0]

-----------------------------------------------------------------------------
(* The client. *)

Current(c) == [call |-> c, step |-> step[c], attempt |-> attempt[c]]

\* Mutant: a call that throws ends its worker.
BusyForGood ==
  {c \in Calls : step[c] # "waiting" /\ outcome[c] # "result"}

\* Workers that run a call; one that has finished takes the next.
Busy == {c \in Calls : step[c] \notin {"waiting", "done"}}

\* The first fetch of an rpc.
Ask(c, rpc) ==
  /\ step' = [step EXCEPT ![c] = rpc]
  /\ wire' = [wire EXCEPT ![c] = "sent"]
  /\ attempt' = [attempt EXCEPT ![c] = 1]
  /\ travelling' = travelling \cup {[call |-> c, step |-> rpc, attempt |-> 1]}

\* callTool returned or threw: run turns either into an outcome.
Settle(c, kind) ==
  /\ step' = [step EXCEPT ![c] = "done"]
  /\ wire' = [wire EXCEPT ![c] = "idle"]
  /\ outcome' = [outcome EXCEPT ![c] = kind]
  /\ UNCHANGED <<attempt, travelling>>

\* withHandshake, up to its first await.
FirstRpc ==
  IF mode = "auto" THEN "try"
  ELSE IF mode = "always" /\ ~handshaken THEN "initialize"
  ELSE "final"

Take(c) ==
  /\ c = next + 1
  /\ Cardinality(Busy) < workers
  /\ next' = c
  /\ Ask(c, FirstRpc)
  /\ UNCHANGED <<flags, handshaken, outcome, misled, forwarded, answers,
                 session, runs>>

\* The rpc of a call ends with a failure.  Only a direct call that met what
\* reads like a complaint is followed by a handshake, and handshake() ignores
\* what becomes of its notification.
RpcFails(c, kind) ==
  \/ /\ step[c] = "try" /\ kind \in Complaints /\ ~handshaken
     /\ Ask(c, "initialize")
     /\ misled' = IF kind = "lookalike" THEN misled \cup {c} ELSE misled
     /\ UNCHANGED outcome
  \/ /\ step[c] = "initialized"
     /\ Ask(c, "final")
     /\ UNCHANGED <<outcome, misled>>
  \/ /\ step[c] # "initialized"
     /\ ~(step[c] = "try" /\ kind \in Complaints /\ ~handshaken)
     /\ Settle(c, kind)
     /\ UNCHANGED misled

RpcReturns(c) ==
  /\ \/ step[c] = "initialize" /\ Ask(c, "initialized") /\ UNCHANGED outcome
     \/ step[c] = "initialized" /\ Ask(c, "final") /\ UNCHANGED outcome
     \/ step[c] \in ToolSteps /\ Settle(c, "result")
  /\ handshaken' = (handshaken \/ step[c] = "initialize")
  /\ UNCHANGED misled

Receives(c, kind) ==
  /\ wire[c] = "sent"
  /\ <<Current(c), kind>> \in answers
  /\ answers' = {a \in answers : a[1].call # c}
  /\ UNCHANGED <<flags, next, forwarded, session, runs>>

Answered(c) ==
  /\ Receives(c, "result")
  /\ RpcReturns(c)

\* Mutant: a request the gateway gave up on is repeated.
RetriedLost == {"refused", "failed"}

\* isSafeToRetry: the answers that are followed by another attempt.
Retried == {"refused"}

\* Another attempt, unless there are no more or no time is left for the
\* backoff.
BackOff(c) ==
  \E kind \in Retried :
    /\ Receives(c, kind)
    /\ attempt[c] < MaxAttempts
    /\ wire' = [wire EXCEPT ![c] = "backoff"]
    /\ UNCHANGED <<handshaken, step, attempt, outcome, misled, travelling>>

Failed(c) ==
  \E kind \in Failures :
    /\ Receives(c, kind)
    /\ RpcFails(c, kind)
    /\ UNCHANGED handshaken

Again(c) ==
  /\ wire[c] = "backoff"
  /\ wire' = [wire EXCEPT ![c] = "sent"]
  /\ attempt' = [attempt EXCEPT ![c] = @ + 1]
  /\ travelling' = travelling \cup {[Current(c) EXCEPT !.attempt = @ + 1]}
  /\ UNCHANGED <<flags, next, handshaken, step, outcome, misled, forwarded,
                 answers, session, runs>>

\* Mutant: a dropped connection is tried again while there are attempts left.
FetchRejectsRetried(c) ==
  /\ wire[c] \in {"sent", "backoff"}
  /\ answers' = {a \in answers : a[1].call # c}
  /\ IF wire[c] = "sent" /\ attempt[c] < MaxAttempts
     THEN /\ wire' = [wire EXCEPT ![c] = "backoff"]
          /\ UNCHANGED <<step, attempt, outcome, misled, travelling>>
     ELSE RpcFails(c, "failed")
  /\ UNCHANGED <<flags, next, handshaken, forwarded, session, runs>>

\* fetch rejects: the signal fired or the connection was dropped.  After a
\* backoff that outlasted the signal it does so without sending anything.
FetchRejects(c) ==
  /\ wire[c] \in {"sent", "backoff"}
  /\ answers' = {a \in answers : a[1].call # c}
  /\ RpcFails(c, "failed")
  /\ UNCHANGED <<flags, next, handshaken, forwarded, session, runs>>

-----------------------------------------------------------------------------
(* Gateway and device, as the answers of the client's code tell them apart. *)

\* The answer q still waits for, if any, is kind: an abandoned request, or
\* one the gateway has answered, gets none.
Told(q, kind) ==
  IF /\ wire[q.call] = "sent" /\ q = Current(q.call)
     /\ \A a \in answers : a[1] # q
  THEN answers \cup {<<q, kind>>}
  ELSE answers

\* 429, 502 and 503 "device busy" (refused) or any other status that is given
\* before the request is forwarded.
GatewayRefuses(q) ==
  /\ q \in travelling
  /\ travelling' = travelling \ {q}
  /\ \E kind \in {"refused", "failed"} : answers' = Told(q, kind)
  /\ UNCHANGED <<flags, clientVars, forwarded, session, runs>>

GatewayForwards(q) ==
  /\ q \in travelling
  /\ travelling' = travelling \ {q}
  /\ forwarded' = forwarded \cup {q}
  /\ UNCHANGED <<flags, clientVars, answers, session, runs>>

\* 504 or 503 "device offline" for a request the device has, or an answer
\* that is lost on the way.
GatewayGivesUp(q) ==
  /\ q \in forwarded
  /\ answers' = Told(q, "failed")
  /\ UNCHANGED <<flags, clientVars, travelling, forwarded, session, runs>>

DeviceTakes(q) ==
  /\ q \in forwarded
  /\ forwarded' = forwarded \ {q}
  /\ UNCHANGED <<flags, clientVars, travelling>>

DeviceInitializes(q) ==
  /\ DeviceTakes(q)
  /\ q.step \in {"initialize", "initialized"}
  /\ \/ session' = TRUE /\ answers' = Told(q, "result")
     \/ session' = session /\ answers' = Told(q, "error")
  /\ UNCHANGED runs

DeviceComplains(q) ==
  /\ DeviceTakes(q)
  /\ q.step \in ToolSteps
  /\ ~session
  /\ answers' = Told(q, "complaint")
  /\ UNCHANGED <<session, runs>>

\* The tool runs, with a result or with an error of its own.
DeviceRuns(q) ==
  /\ DeviceTakes(q)
  /\ q.step \in ToolSteps
  /\ session
  /\ runs' = [runs EXCEPT ![q.call] = @ + 1]
  /\ \E kind \in {"result", "error", "lookalike"} : answers' = Told(q, kind)
  /\ UNCHANGED session

\* The device comes back without what it had been sent; one that asks for an
\* initialize asks again.
DeviceRestarts ==
  /\ forwarded' = {}
  /\ session' \in {session, FALSE}
  /\ answers' = answers \cup
       {<<q, "failed">> : q \in {r \in forwarded : /\ wire[r.call] = "sent"
                                                   /\ r = Current(r.call)
                                                   /\ \A a \in answers : a[1] # r}}
  /\ UNCHANGED <<flags, clientVars, travelling, runs>>

ClientStep(c) ==
  Take(c) \/ Answered(c) \/ BackOff(c) \/ Failed(c) \/ Again(c) \/ FetchRejects(c)

World(q) ==
  \/ GatewayRefuses(q) \/ GatewayForwards(q) \/ GatewayGivesUp(q)
  \/ DeviceInitializes(q) \/ DeviceComplains(q) \/ DeviceRuns(q)

BatchNext ==
  \/ \E c \in Calls : ClientStep(c)
  \/ \E q \in Requests : World(q)
  \/ DeviceRestarts

BatchSpec == BatchInit /\ [][BatchNext]_bvars

\* A worker that is free takes the next call at once, a fetch ends when its
\* signal fires at the latest, and so does a backoff.
FairBatchSpec == BatchSpec /\ \A c \in Calls : WF_bvars(Take(c)) /\ WF_bvars(FetchRejects(c))

-----------------------------------------------------------------------------
(* Properties. *)

\* Runs of the tool of c that the client took for none.
Before(c) == IF c \in misled THEN 1 ELSE 0

\* "Retrying those would duplicate side effects": however requests are
\* refused, lost, answered late or abandoned and however many calls share the
\* client, the tool of a call runs at most once.  The one exception is a tool
\* whose own error reads like the complaint: its call is repeated, once.
AtMostOnce ==
  \A c \in Calls : runs[c] <= 1 + Before(c)

\* The tool of c has not run, but for a run that was taken for none, and no
\* request that could run it is under way.
Untouched(c) ==
  /\ runs[c] = Before(c)
  /\ \A q \in travelling \cup forwarded : q.call = c => q.step \notin ToolSteps

\* A call that is reported as refused (rate limited, busy, send failed) can be
\* repeated by the user: its tool has not run and never will.  With the same
\* exception: it ran once if its own error was taken for the complaint and
\* the call that followed was refused.
RefusedNeverRuns ==
  \A c \in Calls : outcome[c] = "refused" => Untouched(c)

\* What a call returns is the result of its own tool, never the answer of a
\* handshake, and the tool did run, after the mistake if there was one.
ResultMeansRun ==
  \A c \in Calls : outcome[c] = "result" => runs[c] > Before(c) /\ step[c] = "done"

\* What the user is told of a call is true: both of the above.
ToldTrue == RefusedNeverRuns /\ ResultMeansRun

\* Every call of the batch gets an outcome: neither a failure nor a silent
\* gateway stops the pool.
AllSettled ==
  <>(\A c \in Calls : outcome[c] # "none")

\* "Run fn directly, retrying once after an initialize handshake if needed": in
\* mode auto no call ends with the complaint before it was repeated.  A call
\* that meets the complaint after another call's handshake ends with it.
ComplaintRetried ==
  [][\A c \in Calls :
       mode = "auto" /\ outcome[c] = "none" /\ outcome'[c] = "complaint"
         => step[c] = "final"]_bvars

=============================================================================
