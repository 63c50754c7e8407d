---------------------------- MODULE RequestReply ----------------------------
(***************************************************************************)
(* What a caller of dccs/iotcc.py may rely on: a request is made once,     *)
(* under one transaction id, and its queue receives at most one answer,    *)
(* which carries that id.  (Not that the answer is to this request: that   *)
(* takes ids that differ, see IdsDifferUnlessRaced in IoTCC.)              *)
(***************************************************************************)
EXTENDS Naturals, Sequences

CONSTANT Ids

VARIABLES
  ident,   \* the transaction ids of the requests made so far
  reply    \* what the queue of each has received

vars == <<ident, reply>>

Init == ident = <<>> /\ reply = <<>>

Ask(i) ==
  /\ ident' = Append(ident, i)
  /\ reply' = Append(reply, <<>>)

Deliver(c) ==
  /\ reply[c] = <<>>
  /\ Len(reply'[c]) = 1
  /\ reply'[c][1].id = ident[c]
  /\ reply' = [reply EXCEPT ![c] = reply'[c]]
  /\ UNCHANGED ident

Next ==
  \/ \E i \in Ids : Ask(i)
  \/ \E c \in DOMAIN reply : Deliver(c)

Spec == Init /\ [][Next]_vars
=============================================================================
