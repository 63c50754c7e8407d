-------------------------------- MODULE Mqtt --------------------------------
(***************************************************************************)
(* The MQTT transport (lib/transports/mqtt.py) as MqttDccComms and         *)
(* MqttDeviceComms use it: user threads connect, publish, subscribe and    *)
(* disconnect, while the network thread of the Paho client calls           *)
(* on_connect and on_disconnect, and connects again after a loss.  The two *)
(* sides talk through two result codes, sub_dict and Paho's own state.     *)
(***************************************************************************)
EXTENDS Naturals, Sequences, FiniteSets, Functions

CONSTANTS
  Users,        \* user threads; "main" makes the connection
  Messages,     \* payloads
  QueueSize,    \* bound: max_queued_messages_set
  Plans,        \* scenarios: [conf, progs, losses, refuses]
  None,         \* None
  MaxSent       \* bound: transmissions of a message that are told apart

ASSUME MqttAssumption ==
  /\ "main" \in Users
  /\ \A p \in Plans : DOMAIN p.progs = Users
  /\ {QueueSize, MaxSent} \subseteq Nat

Max == 255    \* sys.maxsize: no result yet, and no code of MQTT

VARIABLES
  plan, pc, prog,          \* scenario; [Users -> ...]: where each is, and its calls to come
  connect_rc, disconnect_rc,
  sub_dict,                \* topics -> callback
  conn, loop, leaving,     \* Paho: the connection, its thread, "disconnecting"
  iter,                    \* on_connect's loop over sub_dict
  callbacks, session,      \* Paho's callbacks by topic, the broker's subscriptions
  outbox, sent,            \* Paho's queue (QoS > 0), transmissions by message
  losses,                  \* history: connections lost
  accepted, returned,      \* history: connected once; publishes that returned, [msg, qos]
  crossed                  \* history: topics of which another thread's call, or a change
                           \* of sub_dict under the loop, may have deprived the broker

user == <<plan, pc, prog>>
codes == <<connect_rc, disconnect_rc>>
paho == <<conn, loop, leaving, callbacks, session, outbox, sent>>
history == <<losses, accepted, returned, crossed>>
vars == <<user, codes, sub_dict, paho, iter, history>>

(* The loop: where it is, the topics it is through with, the size that the *)
(* dictionary had, the topics that were put in since, the one in hand with *)
(* its callback.                                                           *)
Loop(size) == [pc |-> "next", seen |-> {}, size |-> size, added |-> {}, topic |-> None, callback |-> None]
NoIter == [pc |-> "off", seen |-> {}, size |-> 0, added |-> {}, topic |-> None, callback |-> None]
Call(u) == Head(prog[u])
Goto(u, label) == pc' = [pc EXCEPT ![u] = label]
Done(u) == Goto(u, "run") /\ prog' = [prog EXCEPT ![u] = Tail(@)]
Empty == [t \in {} |-> 0]

(* MqttMessagingAttributes: the topics of an edge system are made up from  *)
(* its name.  MqttDccComms.send and receive, as calls of the transport:    *)
(* the attributes of the call come before those of the connection, whose   *)
(* own callback is not used.                                               *)
MessagingAttributes(edge_system_name, a) ==
  IF edge_system_name = None THEN a
  ELSE [a EXCEPT !.pub_topic = <<edge_system_name, "request">>, !.sub_topic = <<edge_system_name, "response">>]

send(msg_attr, own, m) ==
  LET a == IF msg_attr = None THEN own ELSE msg_attr
  IN  [op |-> "publish", topic |-> a.pub_topic, msg |-> m, qos |-> a.pub_qos]

receive(msg_attr, own) ==
  LET a == IF msg_attr = None THEN own ELSE msg_attr
      chosen == msg_attr # None /\ a.sub_callback # None
  IN  [op |-> "subscribe", topic |-> a.sub_topic,
       callback |-> IF chosen THEN a.sub_callback ELSE "receive_message"]

Init ==
  /\ plan \in Plans
  /\ pc = [u \in Users |-> IF u = "main" THEN "setup" ELSE "wait"]
  /\ prog = plan.progs
  /\ connect_rc = Max /\ disconnect_rc = Max
  /\ sub_dict = Empty
  /\ conn = "none" /\ loop = "off" /\ leaving = FALSE
  /\ iter = NoIter
  /\ callbacks = Empty /\ session = {}
  /\ outbox = {} /\ sent = [m \in Messages |-> 0]
  /\ losses = 0 /\ accepted = FALSE /\ returned = {} /\ crossed = {}
-----------------------------------------------------------------------------
(* connect_soc.                                                            *)

(* What the TLS part refuses: a wrong path, a certificate without its key  *)
(* or a key without its certificate, a cipher (it reads tls_conf.ciphers,  *)
(* which is not there).  A path is "none", "wrong" or "file".              *)
TlsSetUp(c) ==
  /\ c.identity
  /\ "wrong" \notin {c.root_ca_cert, c.cert_file, c.key_file, c.crl_path}
  /\ (c.cert_file = "file") = (c.key_file = "file")
  /\ ~c.cipher

Credentials(c) == c.identity /\ c.username /\ c.password

SetUp ==
  /\ pc["main"] = "setup"
  /\ LET c == plan.conf
         ok == (c.tls => TlsSetUp(c)) /\ (c.enable_authentication => Credentials(c))
     IN  Goto("main", IF ok THEN "connect" ELSE "failed")
  /\ UNCHANGED <<plan, prog, codes, sub_dict, paho, iter, history>>

(* Paho's connect raises when there is no TCP connection.                  *)
Connect ==
  /\ pc["main"] = "connect"
  /\ \/ conn' = "connecting" /\ loop' = "on" /\ Goto("main", "poll")
     \/ Goto("main", "failed") /\ UNCHANGED <<conn, loop>>
  /\ UNCHANGED <<plan, prog, codes, sub_dict, leaving, callbacks, session, outbox, sent, iter, history>>

(* The wait ends with a result or with the time-out; both are then read    *)
(* once more, and the network thread may have changed them.                *)
Poll ==
  /\ pc["main"] = "poll"
  /\ Goto("main", "result")
  /\ UNCHANGED <<plan, prog, codes, sub_dict, paho, iter, history>>

(* loop_stop joins the network thread.                                     *)
LoopStop == iter = NoIter /\ loop' = "off"

TimedOut ==
  /\ pc["main"] = "result"
  /\ IF connect_rc = Max
     THEN LoopStop /\ Goto("main", "failed")
     ELSE Goto("main", "accepted") /\ UNCHANGED loop
  /\ UNCHANGED <<plan, prog, codes, sub_dict, conn, leaving, callbacks, session, outbox, sent, iter, history>>

Accepted_any ==
  /\ pc["main"] = "accepted"
  /\ pc' = [u \in Users |-> "run"]
  /\ UNCHANGED <<plan, prog, codes, sub_dict, paho, iter, history>>

Accepted ==
  /\ pc["main"] = "accepted"
  /\ IF connect_rc = 0
     THEN pc' = [u \in Users |-> "run"] /\ UNCHANGED loop
     ELSE LoopStop /\ Goto("main", "failed")
  /\ UNCHANGED <<plan, prog, codes, sub_dict, conn, leaving, callbacks, session, outbox, sent, iter, history>>
-----------------------------------------------------------------------------
(* publish, subscribe, unsubscribe, disconnect.                            *)

Calls(u, op) == pc[u] = "run" /\ prog[u] # <<>> /\ Call(u).op = op

(* Paho keeps a message with QoS > 0 also when there is no connection, and *)
(* still returns an error, for which publish raises; it keeps none when    *)
(* the queue is full.                                                      *)
publish_qos0(u) ==
  /\ Calls(u, "publish")
  /\ LET m == Call(u).msg
         rc == IF conn \in {"connecting", "up"} THEN 0 ELSE 4
     IN  /\ sent' = IF conn = "up" THEN [sent EXCEPT ![m] = 1] ELSE sent
         /\ returned' = IF rc = 0 THEN returned \cup {[msg |-> m, qos |-> Call(u).qos]} ELSE returned
  /\ Done(u)
  /\ UNCHANGED <<plan, codes, sub_dict, conn, loop, leaving, callbacks, session, outbox, iter, losses, accepted, crossed>>

publish(u) ==
  /\ Calls(u, "publish")
  /\ LET m == Call(u).msg
         kept == Call(u).qos > 0 /\ Cardinality(outbox) < QueueSize
         full == Call(u).qos > 0 /\ ~kept
         rc == IF conn \in {"connecting", "up"} /\ ~full THEN 0 ELSE 4
     IN  /\ outbox' = IF kept THEN outbox \cup {m} ELSE outbox
         /\ sent' = IF Call(u).qos = 0 /\ conn = "up" THEN [sent EXCEPT ![m] = 1] ELSE sent
         /\ returned' = IF rc = 0 THEN returned \cup {[msg |-> m, qos |-> Call(u).qos]} ELSE returned
  /\ Done(u)
  /\ UNCHANGED <<plan, codes, sub_dict, conn, loop, leaving, callbacks, session, iter, losses, accepted, crossed>>

(* setdefault keeps the callback of an earlier subscription.               *)
setdefault(t, callback) ==
  /\ sub_dict' = IF t \in DOMAIN sub_dict THEN sub_dict
                 ELSE [x \in DOMAIN sub_dict \cup {t} |-> IF x \in DOMAIN sub_dict THEN sub_dict[x] ELSE callback]
  /\ crossed' = IF \E v \in Users : pc[v] = "unsubscribing" /\ Call(v).topic = t
                THEN crossed \cup {t} ELSE crossed

(* What the loop of on_connect has to reckon with.                         *)
Added(t) == IF iter = NoIter \/ t \in DOMAIN sub_dict THEN iter ELSE [iter EXCEPT !.added = @ \cup {t}]

subscribe(u) ==
  /\ Calls(u, "subscribe")
  /\ setdefault(Call(u).topic, Call(u).callback)
  /\ iter' = Added(Call(u).topic)
  /\ Goto(u, "subscribing")
  /\ UNCHANGED <<plan, prog, codes, paho, losses, accepted, returned>>

PahoSubscribe(t, callback) ==
  /\ session' = IF conn = "up" THEN session \cup {t} ELSE session
  /\ callbacks' = [x \in DOMAIN callbacks \cup {t} |-> IF x = t THEN callback ELSE callbacks[x]]

Subscribing(u) ==
  /\ pc[u] = "subscribing"
  /\ PahoSubscribe(Call(u).topic, Call(u).callback)
  /\ Done(u)
  /\ UNCHANGED <<plan, codes, sub_dict, conn, loop, leaving, outbox, sent, iter, history>>

unsubscribe(u) ==
  /\ Calls(u, "unsubscribe")
  /\ sub_dict' = Restrict(sub_dict, DOMAIN sub_dict \ {Call(u).topic})
  /\ Goto(u, "unsubscribing")
  /\ UNCHANGED <<plan, prog, codes, paho, iter, history>>

Unsubscribing(u) ==
  /\ pc[u] = "unsubscribing"
  /\ session' = IF conn = "up" THEN session \ {Call(u).topic} ELSE session
  /\ callbacks' = Restrict(callbacks, DOMAIN callbacks \ {Call(u).topic})
  /\ Done(u)
  /\ UNCHANGED <<plan, codes, sub_dict, conn, loop, leaving, outbox, sent, iter, history>>

disconnect(u) ==
  /\ Calls(u, "disconnect")
  /\ leaving' = TRUE
  /\ Goto(u, "disconnecting")
  /\ UNCHANGED <<plan, prog, codes, sub_dict, conn, loop, callbacks, session, outbox, sent, iter, history>>

(* A code that an earlier loss left ends the wait at once.                 *)
Disconnecting_any(u) ==
  /\ pc[u] = "disconnecting"
  /\ disconnect_rc # Max
  /\ LoopStop
  /\ Goto(u, "closed")
  /\ UNCHANGED <<plan, prog, codes, sub_dict, conn, leaving, callbacks, session, outbox, sent, iter, history>>

Disconnecting(u) ==
  /\ pc[u] = "disconnecting"
  /\ IF disconnect_rc = 0
     THEN LoopStop /\ Goto(u, "closed")
     ELSE Goto(u, "failed") /\ UNCHANGED loop
  /\ UNCHANGED <<plan, prog, codes, sub_dict, conn, leaving, callbacks, session, outbox, sent, iter, history>>
-----------------------------------------------------------------------------
(* The network thread.                                                     *)

Network == loop = "on" /\ iter = NoIter

(* The broker answers, and on_connect is called, which begins its loop     *)
(* over sub_dict: all topics are to be subscribed anew.                    *)
on_connect_bare ==
  /\ Network
  /\ conn = "connecting"
  /\ connect_rc' = 0
  /\ conn' = "up"
  /\ accepted' = TRUE
  /\ disconnect_rc' = Max
  /\ session' = IF plan.conf.clean_session THEN {} ELSE session
  /\ UNCHANGED <<user, sub_dict, loop, leaving, callbacks, outbox, sent, iter, losses, returned, crossed>>

on_connect ==
  /\ Network
  /\ conn = "connecting"
  /\ \E rc \in IF plan.refuses THEN {0, 5} ELSE {0} :
       /\ connect_rc' = rc
       /\ conn' = IF rc = 0 THEN "up" ELSE "refused"
       /\ accepted' = (accepted \/ rc = 0)
  /\ disconnect_rc' = Max
  /\ session' = IF plan.conf.clean_session THEN {} ELSE session
  /\ iter' = Loop(Cardinality(DOMAIN sub_dict))
  /\ crossed' = {t \in crossed : \E u \in Users : pc[u] = "unsubscribing" /\ Call(u).topic = t}
  /\ UNCHANGED <<user, sub_dict, loop, leaving, callbacks, outbox, sent, losses, returned>>

(* An exception in on_connect ends the network thread.                     *)
Dies == loop' = "dead" /\ iter' = NoIter

(* next(): it raises when the size of the dictionary has changed.  With    *)
(* topics put in, the table may have been laid out anew, and the loop may  *)
(* end without having met all topics (one it meets twice is subscribed     *)
(* twice, which is left out).                                              *)
NextTopic ==
  /\ iter.pc = "next"
  /\ \/ /\ Cardinality(DOMAIN sub_dict) # iter.size
        /\ Dies
        /\ UNCHANGED crossed
     \/ /\ Cardinality(DOMAIN sub_dict) = iter.size
        /\ \E t \in DOMAIN sub_dict \ iter.seen : iter' = [iter EXCEPT !.pc = "get", !.topic = t]
        /\ UNCHANGED <<loop, crossed>>
     \/ /\ Cardinality(DOMAIN sub_dict) = iter.size
        /\ DOMAIN sub_dict \subseteq iter.seen \/ iter.added # {}
        /\ iter' = NoIter
        /\ crossed' = crossed \cup (DOMAIN sub_dict \ iter.seen)
        /\ UNCHANGED loop
  /\ UNCHANGED <<user, codes, sub_dict, conn, leaving, callbacks, session, outbox, sent, losses, accepted, returned>>

(* get() gives None for a topic that was taken out meanwhile.              *)
GetTopic ==
  /\ iter.pc = "get"
  /\ IF iter.topic \in DOMAIN sub_dict
     THEN iter' = [iter EXCEPT !.pc = "set", !.callback = sub_dict[iter.topic]] /\ UNCHANGED loop
     ELSE Dies
  /\ UNCHANGED <<user, codes, sub_dict, conn, leaving, callbacks, session, outbox, sent, history>>

(* subscribe, called by on_connect: it puts a topic that was taken out     *)
(* since back in.                                                          *)
SetTopic ==
  /\ iter.pc = "set"
  /\ setdefault(iter.topic, iter.callback)
  /\ iter' = [Added(iter.topic) EXCEPT !.pc = "renew"]
  /\ UNCHANGED <<user, codes, paho, losses, accepted, returned>>

Renew ==
  /\ iter.pc = "renew"
  /\ PahoSubscribe(iter.topic, iter.callback)
  /\ iter' = [iter EXCEPT !.pc = "next", !.seen = @ \cup {iter.topic}]
  /\ UNCHANGED <<user, codes, sub_dict, conn, loop, leaving, outbox, sent, history>>

on_disconnect(rc) ==
  /\ connect_rc' = Max
  /\ disconnect_rc' = rc

(* A lost connection, and a refused one, which the broker closes.          *)
Lose ==
  /\ Network
  /\ \/ conn \in {"connecting", "up"} /\ losses < plan.losses /\ losses' = losses + 1
     \/ conn = "refused" /\ UNCHANGED losses
  /\ conn' = "down"
  /\ on_disconnect(1)
  /\ UNCHANGED <<user, sub_dict, loop, leaving, callbacks, session, outbox, sent, iter, accepted, returned, crossed>>

Leave ==
  /\ Network
  /\ leaving
  /\ conn \in {"connecting", "up", "refused"}
  /\ conn' = "none"
  /\ on_disconnect(0)
  /\ loop' = "off"
  /\ UNCHANGED <<user, sub_dict, leaving, callbacks, session, outbox, sent, iter, history>>

Reconnect ==
  /\ Network
  /\ conn = "down"
  /\ IF leaving THEN loop' = "off" /\ UNCHANGED conn ELSE conn' = "connecting" /\ UNCHANGED loop
  /\ UNCHANGED <<user, codes, sub_dict, leaving, callbacks, session, outbox, sent, iter, history>>

(* QoS 1: a message goes out as often as it takes to be acknowledged.      *)
Transmit(m) ==
  /\ Network
  /\ conn = "up"
  /\ m \in outbox
  /\ \/ sent' = [sent EXCEPT ![m] = IF @ < MaxSent THEN @ + 1 ELSE @] /\ UNCHANGED outbox
     \/ sent[m] > 0 /\ outbox' = outbox \ {m} /\ UNCHANGED sent
  /\ UNCHANGED <<user, codes, sub_dict, conn, loop, leaving, callbacks, session, iter, history>>
-----------------------------------------------------------------------------
Connecting == SetUp \/ Connect \/ Poll \/ TimedOut \/ Accepted
UserStep(u) ==
  \/ publish(u) \/ subscribe(u) \/ Subscribing(u) \/ unsubscribe(u) \/ Unsubscribing(u)
  \/ disconnect(u) \/ Disconnecting(u)
Callback == on_connect \/ NextTopic \/ GetTopic \/ SetTopic \/ Renew \/ Leave \/ Reconnect

Next ==
  \/ Connecting
  \/ \E u \in Users : UserStep(u)
  \/ Callback \/ Lose
  \/ \E m \in Messages : Transmit(m)

Spec == Init /\ [][Next]_vars

(* Threads run on; the broker answers and acknowledges.                    *)
FairSpec ==
  /\ Spec
  /\ WF_vars(Connecting) /\ WF_vars(Callback)
  /\ \A u \in Users : WF_vars(UserStep(u))
  /\ \A m \in Messages : WF_vars(Transmit(m) /\ sent' # sent) /\ WF_vars(Transmit(m) /\ outbox' # outbox)
-----------------------------------------------------------------------------
(* connect_soc returns only when the broker has accepted a connection,     *)
(* whatever the network thread does to the codes between its two looks.    *)
ConnectedWasAccepted == pc["main"] \in {"run", "closed"} => accepted

(* After a disconnect that returned there is no connection, and no thread  *)
(* that would make one.                                                    *)
ClosedStaysClosed == \A u \in Users : pc[u] = "closed" => loop # "on" /\ conn \notin {"connecting", "up"}

(* When the connection is up and on_connect is through, the broker has a   *)
(* subscription for every topic of sub_dict: no loss of the connection     *)
(* loses a topic for longer than the network thread, if it survives, takes *)
(* to renew it.  The exceptions, until the next connection: a topic that a *)
(* thread is just subscribing or unsubscribing; one that a thread, or      *)
(* on_connect itself, put back into sub_dict when another thread had taken *)
(* it out and not yet told the broker; one that the loop did not meet      *)
(* because topics were put in and taken out under it.                      *)
InCall(t) == \E u \in Users : pc[u] \in {"subscribing", "unsubscribing"} /\ Call(u).topic = t

Resubscribed ==
  Network /\ conn = "up" =>
    \A t \in DOMAIN sub_dict : t \in session \/ InCall(t) \/ t \in crossed

(* A message with QoS 1 or 2 whose publish returned is sent in the end,    *)
(* over losses and reconnections, unless the network thread ends (it is    *)
(* stopped, or an exception in on_connect kills it).  One with QoS 0 may   *)
(* be lost although publish returned: Paho, which is connecting, says      *)
(* success and keeps nothing.                                              *)
Returned(m) == \E r \in returned : r.msg = m /\ r.qos > 0
ReturnedIsSent == \A m \in Messages : Returned(m) ~> sent[m] > 0 \/ loop # "on"

=============================================================================
