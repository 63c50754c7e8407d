----------------------------- MODULE MqttProofs -----------------------------
(***************************************************************************)
(* The invariants of the MQTT transport, for any number of user threads,   *)
(* topics, messages and losses, whatever the threads call.                 *)
(***************************************************************************)
EXTENDS Mqtt, TLAPS

USE ZenonT(30)

Early == {"setup", "connect"}
Trying == {"setup", "connect", "poll", "result", "accepted"}
Running == {"run", "subscribing", "unsubscribing", "disconnecting", "closed"}
Quiet == loop # "on" /\ conn = "none" /\ iter = NoIter

TypeInv ==
  /\ pc \in [Users -> Trying \cup Running \cup {"wait", "failed"}]
  /\ DOMAIN prog = Users
  /\ sent \in [Messages -> Nat]
  /\ DOMAIN iter = DOMAIN NoIter

(* Only main leaves connect_soc running, and only after the broker said    *)
(* yes; the other threads wait for it.                                     *)
ConnectInv ==
  /\ connect_rc = 0 => accepted
  /\ \A u \in Users : pc[u] \in Running => accepted
  /\ pc["main"] \in Trying => \A u \in Users \ {"main"} : pc[u] = "wait"
  /\ pc["main"] \in Early => disconnect_rc = Max /\ Quiet

(* Code 0 is set by the last step of the network thread.                   *)
CloseInv ==
  /\ disconnect_rc = 0 => Quiet /\ pc["main"] \notin Early
  /\ \A u \in Users : pc[u] = "closed" => Quiet

(* Resubscribed, while on_connect is still at it.                          *)
SubscribeInv ==
  /\ loop = "on" /\ conn = "up" =>
       \A t \in DOMAIN sub_dict :
         t \in session \/ InCall(t) \/ t \in crossed \/ (iter # NoIter /\ t \notin iter.seen)
  /\ \A u \in Users : pc[u] = "unsubscribing" =>
       Call(u).topic \notin DOMAIN sub_dict \/ Call(u).topic \in crossed
  /\ iter.pc \in {"get", "set", "renew"} => iter.topic \notin iter.seen

(* A message with QoS 1 or 2 whose publish returned is in Paho's queue     *)
(* until it went out.                                                      *)
ReturnedIsKept == \A r \in returned : r.qos > 0 => r.msg \in outbox \/ sent[r.msg] > 0

IInv == TypeInv /\ ConnectInv /\ CloseInv /\ SubscribeInv /\ ReturnedIsKept

(* The record of the loop after a step of it: where the loop is, what it    *)
(* has seen, the topic in hand.                                             *)
LoopAt(r, label, seen, topic) ==
  r.pc = label /\ r.seen = seen /\ r.topic = topic /\ DOMAIN r = DOMAIN NoIter

(* What each step of the loop does to its record.                           *)
LEMMA LoopSteps ==
  ASSUME DOMAIN iter = DOMAIN NoIter, NEW x
  PROVE  /\ LoopAt([iter EXCEPT !.pc = "get", !.topic = x], "get", iter.seen, x)
         /\ LoopAt([iter EXCEPT !.pc = "set", !.callback = x], "set", iter.seen, iter.topic)
         /\ LoopAt(Added(x), iter.pc, iter.seen, iter.topic)
         /\ LoopAt([Added(x) EXCEPT !.pc = "renew"], "renew", iter.seen, iter.topic)
         /\ LoopAt([iter EXCEPT !.pc = "next", !.seen = @ \cup {x}], "next", iter.seen \cup {x}, iter.topic)
         /\ LoopAt(Loop(x), "next", {}, None)
         /\ LoopAt(NoIter, "off", {}, None)
BY SMTT(30) DEF LoopAt, Loop, NoIter, Added

(* Every step keeps the types: a program counter is one of the labels.      *)
LEMMA TypeStep == TypeInv /\ [Next]_vars => TypeInv'
<1> SUFFICES ASSUME TypeInv, [Next]_vars PROVE TypeInv'
  OBVIOUS
<1> USE MqttAssumption DEF TypeInv, Trying, Running
<1>1. CASE SetUp
  BY <1>1 DEF SetUp, Goto, codes, paho, history
<1>2. CASE Connect
  BY <1>2 DEF Connect, Goto, codes, history
<1>3. CASE Poll
  BY <1>3 DEF Poll, Goto, codes, paho, history
<1>4. CASE TimedOut
  BY <1>4 DEF TimedOut, LoopStop, Goto, codes, history
<1>5. CASE Accepted
  BY <1>5 DEF Accepted, LoopStop, Goto, codes, history
<1>6. CASE on_connect
  BY <1>6, LoopSteps DEF LoopAt, on_connect, Network, user
<1>7a. CASE NextTopic
  BY <1>7a, LoopSteps DEF LoopAt, NextTopic, Dies, user, codes
<1>7b. CASE GetTopic
  BY <1>7b, LoopSteps DEF LoopAt, GetTopic, Dies, user, codes, history
<1>7c. CASE SetTopic
  BY <1>7c, LoopSteps DEF LoopAt, SetTopic, setdefault, Added, user, codes, paho
<1>7d. CASE Renew
  BY <1>7d, LoopSteps DEF LoopAt, Renew, PahoSubscribe, user, codes, history
<1>8. CASE Lose
  BY <1>8 DEF Lose, on_disconnect, Network, user
<1>9. CASE Leave
  BY <1>9 DEF Leave, on_disconnect, Network, user, history
<1>10. CASE Reconnect
  BY <1>10 DEF Reconnect, Network, user, codes, history
<1>11. ASSUME NEW u \in Users, publish(u) PROVE TypeInv'
  BY <1>11 DEF publish, Calls, Done, Goto, codes
<1>12. ASSUME NEW u \in Users, subscribe(u) PROVE TypeInv'
  BY <1>12, LoopSteps DEF LoopAt, subscribe, setdefault, Calls, Goto, codes, paho
<1>13. ASSUME NEW u \in Users, Subscribing(u) PROVE TypeInv'
  BY <1>13 DEF Subscribing, PahoSubscribe, Done, Goto, codes, history
<1>14. ASSUME NEW u \in Users, unsubscribe(u) PROVE TypeInv'
  BY <1>14 DEF unsubscribe, Calls, Goto, codes, paho, history
<1>15. ASSUME NEW u \in Users, Unsubscribing(u) PROVE TypeInv'
  BY <1>15 DEF Unsubscribing, Done, Goto, codes, history
<1>16. ASSUME NEW u \in Users, disconnect(u) PROVE TypeInv'
  BY <1>16 DEF disconnect, Calls, Goto, codes, history
<1>17. ASSUME NEW u \in Users, Disconnecting(u) PROVE TypeInv'
  BY <1>17 DEF Disconnecting, LoopStop, Goto, codes, history
<1>18. ASSUME NEW m \in Messages, Transmit(m) PROVE TypeInv'
  BY SMTT(30), <1>18 DEF Transmit, Network, user, codes, history
<1>19. CASE UNCHANGED vars
  BY <1>19 DEF vars, user, codes, paho, history
<1>q. QED
  BY <1>1, <1>2, <1>3, <1>4, <1>5, <1>6, <1>7a, <1>7b, <1>7c, <1>7d, <1>8, <1>9, <1>10, <1>11, <1>12, <1>13, <1>14, <1>15, <1>16, <1>17, <1>18, <1>19 DEF Next, Connecting, UserStep, Callback

(* Every step keeps what connect_soc promises.                             *)
LEMMA ConnectStep == TypeInv /\ ConnectInv /\ [Next]_vars => ConnectInv'
<1> SUFFICES ASSUME TypeInv, ConnectInv, [Next]_vars PROVE ConnectInv'
  OBVIOUS
<1> USE MqttAssumption DEF TypeInv, ConnectInv, Quiet, Early, Max, Trying, Running
<1>0. iter.pc # "off" => iter # NoIter
  BY SMTT(30) DEF NoIter
<1>1. CASE SetUp
  BY <1>1 DEF SetUp, Goto, codes, paho, history
<1>2. CASE Connect
  BY SMTT(30), <1>2 DEF Connect, Goto, codes, history
<1>3. CASE Poll
  BY <1>3 DEF Poll, Goto, codes, paho, history
<1>4. CASE TimedOut
  BY SMTT(30), <1>4 DEF TimedOut, LoopStop, Goto, codes, history
<1>5. CASE Accepted
  BY SMTT(30), <1>5 DEF Accepted, LoopStop, Goto, codes, history
<1>6. CASE on_connect
  BY <1>6 DEF on_connect, Network, user
<1>7a. CASE NextTopic
  BY <1>0, <1>7a DEF NextTopic, Dies, user, codes
<1>7b. CASE GetTopic
  BY <1>0, <1>7b DEF GetTopic, Dies, user, codes, history
<1>7c. CASE SetTopic
  BY <1>0, <1>7c DEF SetTopic, setdefault, user, codes, paho
<1>7d. CASE Renew
  BY <1>0, <1>7d DEF Renew, PahoSubscribe, user, codes, history
<1>8. CASE Lose
  BY SMTT(30), <1>8 DEF Lose, on_disconnect, Network, user
<1>9. CASE Leave
  BY SMTT(30), <1>9 DEF Leave, on_disconnect, Network, user, history
<1>10. CASE Reconnect
  BY <1>10 DEF Reconnect, Network, user, codes, history
<1>11. ASSUME NEW u \in Users, publish(u) PROVE ConnectInv'
  BY <1>11 DEF publish, Calls, Done, Goto, codes
<1>12. ASSUME NEW u \in Users, subscribe(u) PROVE ConnectInv'
  BY <1>12 DEF subscribe, setdefault, Added, Calls, Goto, codes, paho
<1>13. ASSUME NEW u \in Users, Subscribing(u) PROVE ConnectInv'
  BY <1>13 DEF Subscribing, PahoSubscribe, Done, Goto, codes, history
<1>14. ASSUME NEW u \in Users, unsubscribe(u) PROVE ConnectInv'
  BY <1>14 DEF unsubscribe, Calls, Goto, codes, paho, history
<1>15. ASSUME NEW u \in Users, Unsubscribing(u) PROVE ConnectInv'
  BY <1>15 DEF Unsubscribing, Done, Goto, codes, history
<1>16. ASSUME NEW u \in Users, disconnect(u) PROVE ConnectInv'
  BY <1>16 DEF disconnect, Calls, Goto, codes, history
<1>17. ASSUME NEW u \in Users, Disconnecting(u) PROVE ConnectInv'
  BY SMTT(30), <1>17 DEF Disconnecting, LoopStop, Goto, codes, history
<1>18. ASSUME NEW m \in Messages, Transmit(m) PROVE ConnectInv'
  BY <1>18 DEF Transmit, Network, user, codes, history
<1>19. CASE UNCHANGED vars
  BY <1>19 DEF vars, user, codes, paho, history
<1>q. QED
  BY <1>1, <1>2, <1>3, <1>4, <1>5, <1>6, <1>7a, <1>7b, <1>7c, <1>7d, <1>8, <1>9, <1>10, <1>11, <1>12, <1>13, <1>14, <1>15, <1>16, <1>17, <1>18, <1>19 DEF Next, Connecting, UserStep, Callback

(* Every step keeps a closed transport closed.                              *)
LEMMA CloseStep == TypeInv /\ ConnectInv /\ CloseInv /\ [Next]_vars => CloseInv'
<1> SUFFICES ASSUME TypeInv, ConnectInv, CloseInv, [Next]_vars PROVE CloseInv'
  OBVIOUS
<1> USE MqttAssumption DEF TypeInv, ConnectInv, CloseInv, Quiet, Early, Max, Trying, Running
<1>0. iter.pc # "off" => iter # NoIter
  BY SMTT(30) DEF NoIter
<1>1. CASE SetUp
  BY <1>1 DEF SetUp, Goto, codes, paho, history
<1>2. CASE Connect
  BY SMTT(30), <1>2 DEF Connect, Goto, codes, history
<1>3. CASE Poll
  BY <1>3 DEF Poll, Goto, codes, paho, history
<1>4. CASE TimedOut
  BY SMTT(30), <1>4 DEF TimedOut, LoopStop, Goto, codes, history
<1>5. CASE Accepted
  BY <1>5 DEF Accepted, LoopStop, Goto, codes, history
<1>6. CASE on_connect
  BY SMTT(30), <1>6 DEF on_connect, Network, user
<1>7a. CASE NextTopic
  BY <1>0, <1>7a DEF NextTopic, Dies, user, codes
<1>7b. CASE GetTopic
  BY <1>0, <1>7b DEF GetTopic, Dies, user, codes, history
<1>7c. CASE SetTopic
  BY <1>0, <1>7c DEF SetTopic, setdefault, user, codes, paho
<1>7d. CASE Renew
  BY <1>0, <1>7d DEF Renew, PahoSubscribe, user, codes, history
<1>8. CASE Lose
  BY SMTT(30), <1>8 DEF Lose, on_disconnect, Network, user
<1>9. CASE Leave
  BY <1>9 DEF Leave, on_disconnect, Network, user, history
<1>10. CASE Reconnect
  BY <1>10 DEF Reconnect, Network, user, codes, history
<1>11. ASSUME NEW u \in Users, publish(u) PROVE CloseInv'
  BY <1>11 DEF publish, Calls, Done, Goto, codes
<1>12. ASSUME NEW u \in Users, subscribe(u) PROVE CloseInv'
  BY <1>12 DEF subscribe, setdefault, Added, Calls, Goto, codes, paho
<1>13. ASSUME NEW u \in Users, Subscribing(u) PROVE CloseInv'
  BY <1>13 DEF Subscribing, PahoSubscribe, Done, Goto, codes, history
<1>14. ASSUME NEW u \in Users, unsubscribe(u) PROVE CloseInv'
  BY <1>14 DEF unsubscribe, Calls, Goto, codes, paho, history
<1>15. ASSUME NEW u \in Users, Unsubscribing(u) PROVE CloseInv'
  BY <1>15 DEF Unsubscribing, Done, Goto, codes, history
<1>16. ASSUME NEW u \in Users, disconnect(u) PROVE CloseInv'
  BY <1>16 DEF disconnect, Calls, Goto, codes, history
<1>17. ASSUME NEW u \in Users, Disconnecting(u) PROVE CloseInv'
  BY <1>17 DEF Disconnecting, LoopStop, Goto, codes, history
<1>18. ASSUME NEW m \in Messages, Transmit(m) PROVE CloseInv'
  BY <1>18 DEF Transmit, Network, user, codes, history
<1>19. CASE UNCHANGED vars
  BY <1>19 DEF vars, user, codes, paho, history
<1>q. QED
  BY <1>1, <1>2, <1>3, <1>4, <1>5, <1>6, <1>7a, <1>7b, <1>7c, <1>7d, <1>8, <1>9, <1>10, <1>11, <1>12, <1>13, <1>14, <1>15, <1>16, <1>17, <1>18, <1>19 DEF Next, Connecting, UserStep, Callback

(* Every step keeps the topics of sub_dict with the broker.                 *)
LEMMA SubscribeStep == TypeInv /\ ConnectInv /\ SubscribeInv /\ [Next]_vars => SubscribeInv'
<1> SUFFICES ASSUME TypeInv, ConnectInv, SubscribeInv, [Next]_vars PROVE SubscribeInv'
  OBVIOUS
<1> USE MqttAssumption DEF TypeInv, SubscribeInv, InCall, Call, Restrict, Trying, Running
<1>1. CASE SetUp
  BY <1>1 DEF SetUp, Goto, codes, paho, history
<1>2. CASE Connect
  BY <1>2 DEF Connect, Goto, codes, history
<1>3. CASE Poll
  BY <1>3 DEF Poll, Goto, codes, paho, history
<1>4. CASE TimedOut
  BY <1>4 DEF TimedOut, LoopStop, Goto, codes, history
<1>5. CASE Accepted
  BY <1>5 DEF ConnectInv, Accepted, LoopStop, Goto, codes, history
<1>0. iter.pc # "off" => iter # NoIter
  BY LoopSteps DEF LoopAt
<1>6. CASE on_connect
  <2>1. UNCHANGED <<pc, prog, sub_dict>> /\ iter'.seen = {} /\ iter'.pc = "next" /\ iter' # NoIter
    BY <1>6, LoopSteps DEF on_connect, LoopAt, user
  <2>2. \A u \in Users : pc[u] = "unsubscribing" /\ Call(u).topic \in crossed => Call(u).topic \in crossed'
    BY <1>6 DEF on_connect
  <2>q. QED
    BY <2>1, <2>2
<1>7a. CASE NextTopic
  <2>1. UNCHANGED <<pc, prog, conn, sub_dict, session>> /\ crossed \subseteq crossed' /\ iter.pc # "off"
    BY <1>7a DEF NextTopic, user
  <2>2. CASE Dies
    <3>1. iter'.pc = "off" /\ loop' = "dead"
      BY <2>2, LoopSteps DEF Dies, LoopAt
    <3>q. QED
      BY <2>1, <3>1
  <2>3. ASSUME NEW x, x \notin iter.seen, iter' = [iter EXCEPT !.pc = "get", !.topic = x], loop' = loop
        PROVE  SubscribeInv'
    <3>1. iter'.seen = iter.seen /\ iter'.topic = x /\ iter' # NoIter
      BY <2>3, LoopSteps DEF LoopAt
    <3>q. QED
      BY <2>1, <2>3, <3>1
  <2>4. CASE iter' = NoIter /\ crossed' = crossed \cup (DOMAIN sub_dict \ iter.seen) /\ loop' = loop
    <3>1. iter'.pc = "off"
      BY <2>4, LoopSteps DEF LoopAt
    <3>q. QED
      BY <2>1, <2>4, <3>1
  <2>q. QED
    BY <1>7a, <2>2, <2>3, <2>4 DEF NextTopic
<1>7b. CASE GetTopic
  <2>1. UNCHANGED <<pc, prog, conn, sub_dict, session, crossed>> /\ iter.pc = "get"
    BY <1>7b DEF GetTopic, user, history
  <2>2. CASE Dies
    <3>1. iter'.pc = "off" /\ loop' = "dead"
      BY <2>2, LoopSteps DEF Dies, LoopAt
    <3>q. QED
      BY <2>1, <3>1
  <2>3. ASSUME NEW x, iter' = [iter EXCEPT !.pc = "set", !.callback = x], loop' = loop PROVE SubscribeInv'
    <3>1. iter'.seen = iter.seen /\ iter'.topic = iter.topic /\ iter' # NoIter
      BY <2>3, LoopSteps DEF LoopAt
    <3>q. QED
      BY <2>1, <2>3, <3>1
  <2>q. QED
    BY <1>7b, <2>2, <2>3 DEF GetTopic
<1>7c. CASE SetTopic
  <2>1. UNCHANGED <<pc, prog, conn, loop, session>> /\ iter.pc = "set" /\ setdefault(iter.topic, iter.callback)
    BY <1>7c DEF SetTopic, user, paho
  <2>2. iter'.seen = iter.seen /\ iter'.topic = iter.topic /\ iter' # NoIter
    BY <1>7c, LoopSteps DEF SetTopic, LoopAt
  <2>3. crossed \subseteq crossed' /\ \A t \in DOMAIN sub_dict' : t \in DOMAIN sub_dict \/ t = iter.topic
    BY <2>1 DEF setdefault
  <2>4. \A u \in Users : pc[u] = "unsubscribing" /\ Call(u).topic = iter.topic => Call(u).topic \in crossed'
    BY <2>1 DEF setdefault
  <2>q. QED
    BY <2>1, <2>2, <2>3, <2>4
<1>7d. CASE Renew
  <2>1. UNCHANGED <<pc, prog, conn, loop, sub_dict, crossed>> /\ PahoSubscribe(iter.topic, iter.callback)
    BY <1>7d DEF Renew, user, history
  <2>2. iter'.seen = iter.seen \cup {iter.topic} /\ iter'.pc = "next" /\ iter' # NoIter
    BY <1>7d, LoopSteps DEF Renew, LoopAt
  <2>q. QED
    BY <2>1, <2>2 DEF PahoSubscribe
<1>8. CASE Lose
  BY <1>8 DEF Lose, on_disconnect, Network, user
<1>9. CASE Leave
  BY <1>9 DEF Leave, on_disconnect, Network, user, history
<1>10. CASE Reconnect
  BY <1>10 DEF Reconnect, Network, user, codes, history
<1>11. ASSUME NEW u \in Users, publish(u) PROVE SubscribeInv'
  BY <1>11 DEF publish, Calls, Done, Goto, codes
<1>12. ASSUME NEW u \in Users, subscribe(u) PROVE SubscribeInv'
  <2>1. iter'.seen = iter.seen /\ iter'.topic = iter.topic /\ iter'.pc = iter.pc
    BY <1>12, LoopSteps DEF subscribe, LoopAt
  <2>2. iter # NoIter => iter' # NoIter
    BY SMTT(30), <1>12 DEF subscribe, Added, NoIter
  <2>q. QED
    BY <1>12, <2>1, <2>2 DEF subscribe, setdefault, Calls, Goto, codes, paho
<1>13. ASSUME NEW u \in Users, Subscribing(u) PROVE SubscribeInv'
  BY <1>13 DEF Subscribing, PahoSubscribe, Done, Goto, codes, history
<1>14. ASSUME NEW u \in Users, unsubscribe(u) PROVE SubscribeInv'
  BY <1>14 DEF unsubscribe, Calls, Goto, codes, paho, history
<1>15. ASSUME NEW u \in Users, Unsubscribing(u) PROVE SubscribeInv'
  BY SMTT(30), <1>15 DEF Unsubscribing, Done, Goto, codes, history
<1>16. ASSUME NEW u \in Users, disconnect(u) PROVE SubscribeInv'
  BY <1>16 DEF disconnect, Calls, Goto, codes, history
<1>17. ASSUME NEW u \in Users, Disconnecting(u) PROVE SubscribeInv'
  BY <1>17 DEF Disconnecting, LoopStop, Goto, codes, history
<1>18. ASSUME NEW m \in Messages, Transmit(m) PROVE SubscribeInv'
  BY <1>18 DEF Transmit, Network, user, codes, history
<1>19. CASE UNCHANGED vars
  BY <1>19 DEF vars, user, codes, paho, history
<1>q. QED
  BY <1>1, <1>2, <1>3, <1>4, <1>5, <1>6, <1>7a, <1>7b, <1>7c, <1>7d, <1>8, <1>9, <1>10, <1>11, <1>12, <1>13, <1>14, <1>15, <1>16, <1>17, <1>18, <1>19 DEF Next, Connecting, UserStep, Callback

(* Every step keeps a returned message queued or sent.                      *)
LEMMA KeptStep == TypeInv /\ ReturnedIsKept /\ [Next]_vars => ReturnedIsKept'
<1> SUFFICES ASSUME TypeInv, ReturnedIsKept, [Next]_vars PROVE ReturnedIsKept'
  OBVIOUS
<1> USE MqttAssumption DEF TypeInv, ReturnedIsKept
<1>1. CASE SetUp
  BY <1>1 DEF SetUp, Goto, codes, paho, history
<1>2. CASE Connect
  BY <1>2 DEF Connect, Goto, codes, history
<1>3. CASE Poll
  BY <1>3 DEF Poll, Goto, codes, paho, history
<1>4. CASE TimedOut
  BY <1>4 DEF TimedOut, LoopStop, Goto, codes, history
<1>5. CASE Accepted
  BY <1>5 DEF Accepted, LoopStop, Goto, codes, history
<1>6. CASE on_connect
  BY <1>6 DEF on_connect, Network, user
<1>7a. CASE NextTopic
  BY <1>7a DEF NextTopic, Dies, user, codes
<1>7b. CASE GetTopic
  BY <1>7b DEF GetTopic, Dies, user, codes, history
<1>7c. CASE SetTopic
  BY <1>7c DEF SetTopic, setdefault, Added, user, codes, paho
<1>7d. CASE Renew
  BY <1>7d DEF Renew, PahoSubscribe, user, codes, history
<1>8. CASE Lose
  BY <1>8 DEF Lose, on_disconnect, Network, user
<1>9. CASE Leave
  BY <1>9 DEF Leave, on_disconnect, Network, user, history
<1>10. CASE Reconnect
  BY <1>10 DEF Reconnect, Network, user, codes, history
<1>11. ASSUME NEW u \in Users, publish(u) PROVE ReturnedIsKept'
  BY SMTT(30), <1>11 DEF publish, Calls, Done, Goto, codes
<1>12. ASSUME NEW u \in Users, subscribe(u) PROVE ReturnedIsKept'
  BY <1>12 DEF subscribe, setdefault, Calls, Goto, codes, paho
<1>13. ASSUME NEW u \in Users, Subscribing(u) PROVE ReturnedIsKept'
  BY <1>13 DEF Subscribing, PahoSubscribe, Done, Goto, codes, history
<1>14. ASSUME NEW u \in Users, unsubscribe(u) PROVE ReturnedIsKept'
  BY <1>14 DEF unsubscribe, Calls, Goto, codes, paho, history
<1>15. ASSUME NEW u \in Users, Unsubscribing(u) PROVE ReturnedIsKept'
  BY <1>15 DEF Unsubscribing, Done, Goto, codes, history
<1>16. ASSUME NEW u \in Users, disconnect(u) PROVE ReturnedIsKept'
  BY <1>16 DEF disconnect, Calls, Goto, codes, history
<1>17. ASSUME NEW u \in Users, Disconnecting(u) PROVE ReturnedIsKept'
  BY <1>17 DEF Disconnecting, LoopStop, Goto, codes, history
<1>18. ASSUME NEW m \in Messages, Transmit(m) PROVE ReturnedIsKept'
  <2>1. CASE outbox' = outbox /\ sent' = [sent EXCEPT ![m] = IF @ < MaxSent THEN @ + 1 ELSE @]
    <3>1. \A n \in Messages : sent[n] > 0 => sent'[n] > 0
      BY SMTT(30), <2>1
    <3>q. QED
      BY SMTT(30), <1>18, <2>1, <3>1 DEF Transmit, history
  <2>2. CASE sent[m] > 0 /\ outbox' = outbox \ {m} /\ sent' = sent
    BY <1>18, <2>2 DEF Transmit, history
  <2>q. QED
    BY <1>18, <2>1, <2>2 DEF Transmit
<1>19. CASE UNCHANGED vars
  BY <1>19 DEF vars, user, codes, paho, history
<1>q. QED
  BY <1>1, <1>2, <1>3, <1>4, <1>5, <1>6, <1>7a, <1>7b, <1>7c, <1>7d, <1>8, <1>9, <1>10, <1>11, <1>12, <1>13, <1>14, <1>15, <1>16, <1>17, <1>18, <1>19 DEF Next, Connecting, UserStep, Callback

(* The initial state satisfies the invariant.                               *)
LEMMA InitInv == Init => IInv
BY SMTT(30), MqttAssumption DEF Init, IInv, TypeInv, ConnectInv, CloseInv, SubscribeInv, ReturnedIsKept,
  Quiet, Early, Trying, Running, Empty, Max, NoIter

(* The invariant is inductive, so every reachable state satisfies it.       *)
THEOREM Invariance == Spec => []IInv
<1>1. IInv /\ [Next]_vars => IInv'
  BY TypeStep, ConnectStep, CloseStep, SubscribeStep, KeptStep DEF IInv
<1>q. QED
  BY InitInv, <1>1, PTL DEF Spec

(* connect_soc lets no thread go on before the broker has accepted a        *)
(* connection, however the network thread and the time-out race.            *)
THEOREM ConnectIsAccepted == Spec => []ConnectedWasAccepted
<1>1. IInv => ConnectedWasAccepted
  BY MqttAssumption DEF IInv, ConnectInv, ConnectedWasAccepted, Running
<1>q. QED
  BY <1>1, Invariance, PTL

(* After a disconnect that returned, by any thread, no connection is up or  *)
(* being made, and the network thread is gone.                              *)
THEOREM ClosedForGood == Spec => []ClosedStaysClosed
<1>1. IInv => ClosedStaysClosed
  BY DEF IInv, CloseInv, Quiet, ClosedStaysClosed
<1>q. QED
  BY <1>1, Invariance, PTL

(* A network thread that survives on_connect leaves the broker with every   *)
(* topic of sub_dict, whatever the threads subscribe and unsubscribe        *)
(* between its steps, with the exceptions that Resubscribed names.          *)
THEOREM TopicsRenewed == Spec => []Resubscribed
<1>1. IInv => Resubscribed
  BY SMTT(30) DEF IInv, SubscribeInv, Resubscribed, Network, NoIter
<1>q. QED
  BY <1>1, Invariance, PTL

(* A message with QoS 1 or 2 whose publish returned is never dropped: it is *)
(* in the queue of the client until it has gone out.  The safety half of    *)
(* ReturnedIsSent.                                                          *)
THEOREM NothingDropped == Spec => []ReturnedIsKept
<1>1. IInv => ReturnedIsKept
  BY DEF IInv
<1>q. QED
  BY <1>1, Invariance, PTL
=============================================================================
