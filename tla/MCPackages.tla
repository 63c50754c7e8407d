---------------------------- MODULE MCPackages -----------------------------
(* Instances of Packages: the package directory as shipped, the user       *)
(* packages in place of it, and the example programs.                      *)
EXTENDS Packages

Shipped ==
    EdgeSystem :> edge_system @@ "graphite" :> graphite @@ "aws_iot" :> aws_iot @@
    "iotcc_mqtt" :> iotcc_mqtt @@ "iotcc" :> iotcc @@
    BikeSimulator :> bike_simulator @@ ThermistorSimulator :> thermistor_simulator @@
    "graphite_stats" :> graphite_edge_system_stats @@
    "graphite_stats_filter" :> graphite_edge_system_stats_with_filter @@
    "iotcc_stats" :> iotcc_edge_system_stats @@
    "iotcc_stats_filter" :> iotcc_edge_system_stats_with_filter @@
    "iotcc_ram" :> iotcc_ram @@
    "graphite_thermistor" :> graphite_thermistor_simulated @@
    "iotcc_thermistor" :> iotcc_thermistor_simulated @@
    "graphite_bike" :> graphite_bike_simulated @@ "iotcc_bike" :> iotcc_bike_simulated @@
    "home_auto" :> simulated_home_auto_gen_topic @@
    "home_topics" :> simulated_home_topic_per_metric @@ Kura :> kura_integrate_iotcc

User ==
    "general_edge_system" :> general_edge_system @@ "credentials" :> credentials @@
    "iotcc_mqtt" :> user_iotcc_mqtt @@ "iotcc_mqtt_device" :> iotcc_mqtt_device @@
    "iotcc_mqtt_stats" :> iotcc_mqtt_edge_system_stats @@ Kura :> kura_integrate_iotcc

Programs ==
    "websocket" :> dell5k_edge_system_iotcc_websocket @@
    "mqtt" :> dell5k_edge_system_iotcc_mqtt @@
    "filter" :> dell5k_edge_system_with_filter_iotcc @@
    "dk300" :> dk300_edge_system_iotcc_graphite @@ "kitchen" :> iotcc_simulated_mqtt @@
    "thermistor" :> main_iotcc_thermistor @@ "bike" :> main_iotcc_bike @@
    "graphite_thermistor" :> main_graphite_thermistor @@
    "graphite_bike" :> main_graphite_bike @@
    "simulated" :> simulated_edge_system_graphite @@
    "dell5k" :> dell5k_edge_system_graphite @@
    "event" :> simulated_graphite_event_based @@ "temp" :> simulated_graphite_temp @@
    "multi" :> multi_metric_simulated_edge_system_graphite @@
    "home_auto" :> main_home_auto_gen_topic @@ "home_topics" :> main_home_topic_per_metric

Load(p) == [op |-> "load", pkg |-> p]
Unload(p) == [op |-> "unload", pkg |-> p]

(* Every three commands about a few packages that share a data center       *)
AnyThree(ps) ==
    LET Commands == {Load(p) : p \in ps} \cup {Unload(p) : p \in ps}
    IN  [1 .. 3 -> Commands]

ShippedCommands ==
    AnyThree({"iotcc_ram", "iotcc"}) \cup
    { <<Load("graphite_stats"), Load("graphite_bike"), Unload(EdgeSystem)>>,
      <<Load("graphite_stats_filter"), Load("graphite_thermistor"), Unload("graphite")>>,
      <<Load("iotcc_bike"), Unload("iotcc_bike"), Unload(EdgeSystem)>>,
      <<Load("iotcc_thermistor"), Unload(ThermistorSimulator), Unload("iotcc")>>,
      <<Load("iotcc_stats"), Load("iotcc_stats_filter"), Unload("iotcc")>>,
      <<Load("home_auto"), Load("home_topics"), Unload("aws_iot")>>,
      <<Load("iotcc_mqtt"), Load("iotcc_mqtt"), Unload("iotcc_mqtt")>>,
      <<Load(Kura), Unload("iotcc_mqtt")>> }

UserCommands ==
    AnyThree({"iotcc_mqtt_device", "iotcc_mqtt"}) \cup
    { <<Load("iotcc_mqtt_stats"), Unload("general_edge_system")>> }

MCDirs ==
    [shipped |-> Shipped, user |-> User, programs |-> Programs,
     incomplete |-> Restrict(Shipped, DOMAIN Shipped \ {"iotcc"})]

MCPlans ==
    [dir : {"shipped"}, commands : ShippedCommands, unregister : BOOLEAN]
    \cup [dir : {"user"}, commands : UserCommands, unregister : {FALSE}]
    \cup [dir : {"incomplete"}, commands : {<<Load("iotcc_ram")>>}, unregister : {FALSE}]
    \cup [dir : {"programs"}, commands : {<<Load(p)>> : p \in DOMAIN Programs},
          unregister : {FALSE}]
=============================================================================
