--------------------------- MODULE RelayedDownload ---------------------------
(***************************************************************************)
(* What the gateway promises about a download relayed from a device, seen  *)
(* by the client alone.  A request is answered once.  When the answer is a *)
(* 200 it announces a length, and the body then ends in one of two ways:   *)
(* complete, with exactly that many bytes, or broken, which the client can *)
(* tell from the end.                                                      *)
(***************************************************************************)
EXTENDS Naturals

CONSTANTS
  Transfers,    \* download requests
  MaxBytes      \* the longest body that may be announced

VARIABLES
  state,  \* what the client has of its request
  size,   \* the announced length
  sent    \* bytes of the body handed over

vars == <<state, size, sent>>

States == {"idle", "waiting", "refused", "streaming", "complete", "broken"}

TypeOK ==
  /\ state \in [Transfers -> States]
  /\ size \in [Transfers -> 0 .. MaxBytes]
  /\ sent \in [Transfers -> 0 .. MaxBytes]

Init ==
  /\ state = [d \in Transfers |-> "idle"]
  /\ size = [d \in Transfers |-> 0]
  /\ sent = [d \in Transfers |-> 0]

Unsized(d) == size'[d] = size[d] /\ sent'[d] = sent[d]

Ask(d) ==
  /\ state[d] = "idle"
  /\ state'[d] \in {"waiting", "refused"}
  /\ Unsized(d)

Refuse(d) ==
  /\ state[d] = "waiting"
  /\ state'[d] = "refused"
  /\ Unsized(d)

Begin(d) ==
  /\ state[d] = "waiting"
  /\ state'[d] = "streaming"
  /\ size'[d] \in 0 .. MaxBytes
  /\ sent'[d] = 0

Deliver(d) ==
  /\ state[d] = "streaming"
  /\ size'[d] = size[d]
  /\ sent'[d] \in sent[d] .. size[d]
  /\ \/ state'[d] = "streaming"
     \/ state'[d] = "complete" /\ sent'[d] = size[d]

Break(d) ==
  /\ state[d] = "streaming"
  /\ state'[d] = "broken"
  /\ Unsized(d)

Keep(d) == state'[d] = state[d] /\ Unsized(d)

Move(d) == Ask(d) \/ Refuse(d) \/ Begin(d) \/ Deliver(d) \/ Break(d) \/ Keep(d)

\* The loss of a tunnel ends any number of downloads in one step.
Next ==
  /\ state' \in [Transfers -> States]
  /\ size' \in [Transfers -> 0 .. MaxBytes]
  /\ sent' \in [Transfers -> 0 .. MaxBytes]
  /\ \A d \in Transfers : Move(d)

Spec == Init /\ [][Next]_vars
=============================================================================
