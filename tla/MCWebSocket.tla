---------------------------- MODULE MCWebSocket ----------------------------
(* One sender with four faults, enough to make it give up by the network   *)
(* alone; two senders with one fault, which then get into each      *)
(* other's way; and every configuration of the certificate, whose file may *)
(* be removed.                                                             *)
EXTENDS WebSocket

CONSTANTS s1, s2

Plain(n, f) == [verify |-> FALSE, ca |-> "none", trusted |-> FALSE,
                faults |-> f, senders |-> n]

MCPlans ==
    {Plain({s1}, 4), Plain({s1, s2}, 1)}
    \cup [verify : {TRUE}, ca : {"none", "missing", "wrong", "dir", "file"},
          trusted : BOOLEAN, faults : {2}, senders : {{s1, s2}}]
=============================================================================
