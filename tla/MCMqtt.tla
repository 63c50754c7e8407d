------------------------------- MODULE MCMqtt -------------------------------
(* Programs of one or two user threads.                                    *)
EXTENDS Mqtt, TLC

TwoUsers == {"main", "other"}

Own == MessagingAttributes("gateway", [pub_topic |-> <<>>, sub_topic |-> <<>>, pub_qos |-> 1, sub_callback |-> None])
Attr(t, c, q) == [pub_topic |-> <<t>>, sub_topic |-> <<t>>, pub_qos |-> q, sub_callback |-> c]

Sub(t, c) == receive(Attr(t, c, 1), Own)
SubOwn == receive(None, Own)
Unsub(t) == [op |-> "unsubscribe", topic |-> <<t>>]
Pub(m, q) == send(IF q = 1 THEN None ELSE Attr("t", None, q), Own, m)
Disc == [op |-> "disconnect"]

Conf == [tls |-> FALSE, identity |-> TRUE, root_ca_cert |-> "file", cert_file |-> "none", key_file |-> "none",
         crl_path |-> "none", cipher |-> FALSE, enable_authentication |-> TRUE, username |-> TRUE,
         password |-> TRUE, clean_session |-> TRUE]
Paths == {"none", "wrong", "file"}
Confs ==
  {[Conf EXCEPT !.tls = TRUE, !.cert_file = c, !.key_file = k, !.cipher = ci] : c, k \in Paths, ci \in BOOLEAN}
  \cup {[Conf EXCEPT !.tls = t, !.root_ca_cert = r, !.crl_path = l] : t \in BOOLEAN, r, l \in Paths}
  \cup {[Conf EXCEPT !.identity = i, !.username = n, !.password = p] : i, n, p \in BOOLEAN}

Plan(conf, a, b, n, r) == [conf |-> conf, progs |-> ("main" :> a @@ "other" :> b), losses |-> n, refuses |-> r]

MqttPlans ==
  {Plan(c, <<>>, <<>>, 0, FALSE) : c \in Confs}
  \cup {Plan([Conf EXCEPT !.clean_session = s],
             <<Sub("t", "first"), Sub("t", "second"), Disc>>, <<SubOwn>>, 2, TRUE) : s \in BOOLEAN}
  \cup {Plan(Conf, <<Sub("t", "first"), Unsub("t"), Sub("t", "second")>>, <<Sub("u", None), Unsub("u")>>, 2, FALSE),
        Plan(Conf, <<Sub("t", None), Unsub("t")>>, <<Sub("t", "second")>>, 1, FALSE),
        Plan(Conf, <<Pub("m1", 1), Pub("m2", 1)>>, <<Pub("m3", 1), Pub("m3", 0)>>, 1, FALSE),
        Plan(Conf, <<Pub("m1", 1), Disc>>, <<Pub("m2", 2), Disc>>, 2, TRUE)}
=============================================================================
