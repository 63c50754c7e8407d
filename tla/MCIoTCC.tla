------------------------------ MODULE MCIoTCC ------------------------------
(* Two threads (loading packages, discovering devices) that share one      *)
(* connection to the control center; see MCIoTCC.cfg.                      *)
EXTENDS IoTCC

TwoThreads == {"package", "discovery"}
TwoEntities == {"gateway", "device"}

EdgeSystem == {"gateway"}

Plan(p, d, sys) ==
  [calls |-> [t \in TwoThreads |-> IF t = "package" THEN p ELSE d],
   conf |-> [system_properties |-> sys, enable_reboot_getprop |-> TRUE]]

register_gateway == <<"register", "gateway">>
register_device == <<"register", "device">>

Shared ==
  {Plan(<<register_gateway>>, <<register_device>>, {}),
   Plan(<<<<"set_properties", "gateway">>>>, <<<<"create_relationship", "gateway">>>>, {}),
   Plan(<<register_gateway, register_gateway>>, <<>>, {"sys"}),
   Plan(<<<<"unregister", "gateway">>, register_gateway>>, <<>>, {}),
   Plan(<<>>, <<register_device, register_gateway>>, {}),
   Plan(<<>>, <<register_device, <<"create_relationship", "device">>>>, {"sys"})}
=============================================================================
