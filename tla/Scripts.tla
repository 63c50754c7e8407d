------------------------------- MODULE Scripts -------------------------------
(***************************************************************************)
(* What the packages under src/packages and the programs under             *)
(* src/examples do: run() and clean_up() of a package, and the main part   *)
(* of a program, as sequences of steps.  Module Packages executes them.    *)
(*                                                                         *)
(* A step that calls the data center or a broker may raise; a step that    *)
(* only builds objects may not and is left out unless it changes what the  *)
(* model keeps: registering a metric, and everything Graphite and AWS IoT  *)
(* do to register or relate, is an object or an attribute (dccs/graphite.py *)
(* 56-86, dccs/aws_iot.py 62-102).  What a sampling function returns is    *)
(* left out.                                                               *)
(***************************************************************************)
EXTENDS Naturals, Sequences, SequencesExt

CONSTANTS
    RetryAttempts,      \* retry_attempts, 5 in the code
    NumDevices          \* num_devices of iotcc_mqtt_device.py, 5 in the code

ASSUME RetriesAssumption == RetryAttempts \in Nat \ {0}
ASSUME DevicesAssumption == NumDevices \in Nat \ {0}

(***************************************************************************)
(* Steps.  fails: the exceptions the call may raise; retries: how often    *)
(* it is tried again; giveUp: whether the script goes on when the retries  *)
(* are used up; catch and skip: the exceptions an enclosing try statement  *)
(* catches, and how far it is to the end of that statement.                *)
(***************************************************************************)
Step(op, what, fails) ==
    [op |-> op, what |-> what, fails |-> fails, retries |-> 0,
     giveUp |-> FALSE, catch |-> {}, skip |-> 0]

AnyError == {"Exception", "RegistrationFailure"}

Get(r) == Step("get", r, {})
Provide(r) == Step("provide", r, {})
Connect == Step("connect", "", {"Exception"})
Subscribe == Step("call", "", {"Exception"})
Register(e) == Step("register", e, AnyError)
Relate(e) == Step("use", e, {"Exception"})
SetProperties(e) == Step("use", e, {"Exception"})
PublishUnit == Step("call", "", {"Exception"})
ReadFile == Step("call", "", {"Exception"})     \* a file that does not parse
ReadKey == Step("call", "", {"Exception"})      \* a key that is missing
Remember(e) == Step("remember", e, {})
Start(m) == Step("start", m, {})
ListMetric(m) == Step("append", m, {})

ReadConfig == <<Get("package_conf"), ReadFile>>
\* start_collecting() and self.metrics.append()
Collect(m) == <<Start(m), ListMetric(m)>>
CollectAll(ms) == FlattenSeq([i \in DOMAIN ms |-> Collect(ms[i])])
StartAll(ms) == [i \in DOMAIN ms |-> Start(ms[i])]

\* while attempts <= retry_attempts: try ... except: raise if exhausted
Retried(s) == [s EXCEPT !.retries = RetryAttempts]
\* the loop that ends without an exception when its attempts are used up
Tolerant(s, n) == [s EXCEPT !.retries = n, !.giveUp = TRUE]
\* try: steps  except caught: (log only)
Try(caught, steps) ==
    [i \in DOMAIN steps |->
        [steps[i] EXCEPT !.catch = caught, !.skip = Len(steps) - i + 1]]

StopMetrics == Step("stop", "", {})
Unregister(e) == Step("unregister", e, {"Exception"})
UnregisterDevices == Step("unregisterDevices", "", {"Exception"})
Close == Step("close", "", {})
Disconnect == Step("close", "", {"Exception"})
\* the same under  if config['ShouldUnregisterOnUnload'] == "True"
IfConfigured(s) == [s EXCEPT !.op = "unregisterIfConfigured"]

(***************************************************************************)
(* A package: its dependencies, run(), what run() does before it passes an *)
(* exception on, and clean_up().  A program has only a main part.          *)
(***************************************************************************)
Package(deps, run, clean) ==
    [deps |-> deps, run |-> run, rescue |-> <<>>, clean |-> clean, program |-> FALSE]
Program(main) ==
    [deps |-> <<>>, run |-> main, rescue |-> <<>>, clean |-> <<>>, program |-> TRUE]

EdgeSystem == "edge_systems/dell5k/edge_system"
BikeSimulator == "examples/bike_simulator"
ThermistorSimulator == "examples/thermistor_simulator"

(***************************************************************************)
(* src/packages: edge systems and data center components                   *)
(***************************************************************************)
edge_system == Package(<<>>, ReadConfig \o <<Provide("edge_system")>>, <<>>)

general_edge_system == Package(<<>>, <<Provide("edge_system")>>, <<>>)

graphite ==
    Package(<<EdgeSystem>>,
            <<Get("edge_system")>> \o ReadConfig \o
            <<Connect, Provide("graphite"), Provide("graphite_edge_system")>>,
            <<Close>>)

aws_iot ==
    Package(<<EdgeSystem>>,
            <<Get("edge_system")>> \o ReadConfig \o
            <<Connect, Provide("aws_iot"), Provide("aws_iot_edge_system")>>,
            <<Disconnect>>)

\* set_properties follows the try statement and uses what it may not have set
iotcc_mqtt ==
    Package(<<EdgeSystem>>,
            ReadConfig \o <<Get("edge_system"), Connect>> \o
            Try({"RegistrationFailure"},
                <<Register("edge"), Provide("iotcc_mqtt"), Provide("iotcc_mqtt_edge_system")>>) \o
            <<SetProperties("edge")>>,
            <<ReadFile, IfConfigured(Unregister("edge")), Disconnect>>)

user_iotcc_mqtt ==
    [Package(<<"general_edge_system", "credentials">>,
             <<Get("edge_system"), Get("broker_credentials"),
               Retried(Connect), Retried(Register("edge")),
               Provide("iotcc_mqtt"), Provide("iotcc_mqtt_edge_system"),
               Tolerant(SetProperties("edge"), RetryAttempts - 1)>>,
             <<Unregister("edge"), Disconnect>>)
     EXCEPT !.rescue = <<Disconnect>>]

\* Not in the repository: the packages the examples and user packages name
iotcc ==
    Package(<<EdgeSystem>>,
            <<Get("edge_system"), Connect, Register("edge"),
              Provide("iotcc"), Provide("iotcc_edge_system")>>,
            <<Disconnect>>)
credentials == Package(<<>>, <<Provide("broker_credentials")>>, <<>>)

(***************************************************************************)
(* src/packages/examples: simulators and metrics                           *)
(***************************************************************************)
bike_simulator == Package(<<EdgeSystem>>, ReadConfig \o <<Provide("bike_simulator")>>, <<>>)

thermistor_simulator ==
    Package(<<EdgeSystem>>, ReadConfig \o <<Provide("thermistor_simulator")>>, <<>>)

Stats == <<"CPU Utilization", "CPU Process", "Disk", "Network">>

graphite_edge_system_stats ==
    Package(<<"graphite">>,
            <<Get("graphite_edge_system"), Get("graphite")>> \o ReadConfig \o CollectAll(Stats),
            <<StopMetrics>>)

graphite_edge_system_stats_with_filter ==
    Package(<<"graphite">>,
            <<Get("graphite_edge_system"), Get("graphite")>> \o ReadConfig \o CollectAll(Stats),
            <<StopMetrics>>)

iotcc_edge_system_stats ==
    Package(<<"iotcc">>,
            <<Get("iotcc_edge_system"), Get("iotcc")>> \o ReadConfig \o CollectAll(Stats),
            <<StopMetrics>>)

iotcc_edge_system_stats_with_filter ==
    Package(<<"iotcc">>,
            <<Get("iotcc_edge_system"), Get("iotcc")>> \o ReadConfig \o CollectAll(Stats),
            <<StopMetrics>>)

\* Changed: the metrics are stopped last.
iotcc_ram_stopped_last ==
    Package(<<"iotcc">>,
            <<Get("iotcc"), Get("iotcc_edge_system")>> \o ReadConfig \o
            <<Register("ram"), SetProperties("ram"), Relate("ram")>> \o Collect("Memory Free") \o
            <<Provide("reg_ram_device")>>,
            <<IfConfigured(Unregister("ram")), StopMetrics>>)

iotcc_ram ==
    Package(<<"iotcc">>,
            <<Get("iotcc"), Get("iotcc_edge_system")>> \o ReadConfig \o
            <<Register("ram"), SetProperties("ram"), Relate("ram")>> \o Collect("Memory Free") \o
            <<Provide("reg_ram_device")>>,
            <<StopMetrics, IfConfigured(Unregister("ram"))>>)

graphite_thermistor_simulated ==
    Package(<<"graphite", ThermistorSimulator>>,
            <<Get("graphite"), Get("thermistor_simulator")>> \o Collect("temperature"),
            <<StopMetrics>>)

iotcc_thermistor_simulated ==
    Package(<<"iotcc", ThermistorSimulator>>,
            <<Get("package_conf"), Get("iotcc"), Get("iotcc_edge_system"),
              Get("thermistor_simulator"), Register("thermistor"), Relate("thermistor"),
              PublishUnit>> \o
            Collect("temperature") \o <<Provide("iotcc_thermistor_simulated")>>,
            <<ReadFile, StopMetrics, IfConfigured(Unregister("thermistor"))>>)

graphite_bike_simulated ==
    Package(<<"graphite", BikeSimulator>>,
            <<Get("graphite"), Get("bike_simulator")>> \o CollectAll(<<"speed", "power">>),
            <<StopMetrics>>)

iotcc_bike_simulated ==
    Package(<<"iotcc", BikeSimulator>>,
            <<Get("package_conf"), Get("iotcc"), Get("iotcc_edge_system"), Get("bike_simulator"),
              Register("bike"), Relate("bike"), PublishUnit>> \o Collect("speed") \o
            <<PublishUnit>> \o Collect("power") \o <<Provide("iotcc_bike_simulated")>>,
            <<ReadFile, StopMetrics, IfConfigured(Unregister("bike"))>>)

Home == <<"CPU Utilization", "Temperature", "Humidity", "Light">>

simulated_home_auto_gen_topic ==
    Package(<<"aws_iot">>,
            <<Get("aws_iot"), Get("aws_iot_edge_system")>> \o CollectAll(Home),
            <<StopMetrics>>)

\* each metric's topic is read from the configuration before it is started
simulated_home_topic_per_metric ==
    Package(<<"aws_iot">>,
            <<Get("aws_iot"), Get("aws_iot_edge_system")>> \o ReadConfig \o
            FlattenSeq([i \in DOMAIN Home |->
                          <<ReadKey>> \o Collect(Home[i])]),
            <<StopMetrics>>)

(***************************************************************************)
(* src/packages/user_packages and the Kura example                         *)
(***************************************************************************)
UserStats == Append(Stats, "Memory Free")

\* whatever goes wrong with a metric is logged, and run() returns
iotcc_mqtt_edge_system_stats ==
    Package(<<"iotcc_mqtt">>,
            <<Get("iotcc_mqtt_edge_system"), Get("iotcc_mqtt")>> \o
            Try(AnyError, CollectAll(UserStats)),
            <<StopMetrics>>)

ChildDev == <<"ChildDev0", "ChildDev1", "ChildDev2", "ChildDev3", "ChildDev4">>

\* set_properties is not tried again: the log statement of its handler gives
\* format() one argument for two fields, and raises an IndexError
iotcc_mqtt_device ==
    Package(<<"iotcc_mqtt">>,
            <<Get("iotcc_mqtt"), Get("iotcc_mqtt_edge_system")>> \o
            FlattenSeq([i \in 1 .. NumDevices |->
                <<Retried(Register(ChildDev[i])), Remember(ChildDev[i]),
                  Retried(Relate(ChildDev[i])), Provide(ChildDev[i]),
                  SetProperties(ChildDev[i])>> \o Try(AnyError, Collect(ChildDev[i]))]),
            <<StopMetrics, UnregisterDevices>>)

\* sub_callback takes four parameters and Paho passes three (KuraMessage of
\* Packages): no device and no metric is ever added to the lists
kura_integrate_iotcc ==
    Package(<<"iotcc_mqtt">>,
            <<Get("iotcc_mqtt"), Get("iotcc_mqtt_edge_system"), Connect, Subscribe>>,
            <<StopMetrics, UnregisterDevices, Disconnect>>)

(***************************************************************************)
(* src/examples: programs                                                  *)
(***************************************************************************)
\* try: ... except RegistrationFailure: print
Guarded(steps) == Try({"RegistrationFailure"}, steps)
Enrol == <<Register("edge"), SetProperties("edge")>>
WithRam == <<Register("ram"), Relate("ram"), Start("Memory Free")>>
WithDevice(d) == <<Register(d), Relate(d), SetProperties(d)>>

dell5k_edge_system_iotcc_websocket ==
    Program(<<Connect>> \o Guarded(Enrol \o StartAll(Stats) \o WithRam))

dell5k_edge_system_iotcc_mqtt ==
    Program(<<Connect>> \o Guarded(Enrol \o StartAll(Stats) \o WithRam))

dell5k_edge_system_with_filter_iotcc ==
    Program(<<Connect>> \o Guarded(Enrol \o StartAll(Stats) \o WithRam))

\* two data center components
dk300_edge_system_iotcc_graphite ==
    Program(<<Connect>> \o
            Guarded(Enrol \o StartAll(Stats) \o WithRam \o <<Start("Swap Memory Free")>>) \o
            <<Connect, Start("simulated")>>)

\* a connection to the devices' broker, and one to IoTCC
iotcc_simulated_mqtt ==
    Program(<<Connect, Subscribe, Subscribe, Connect>> \o
            Guarded(Enrol \o WithDevice("kitchen") \o <<PublishUnit, Start("kitchen")>> \o
                    WithDevice("living") \o <<PublishUnit, Start("living")>>))

main_iotcc_thermistor ==
    Program(<<Connect>> \o
            Guarded(Enrol \o WithDevice("thermistor") \o <<PublishUnit, Start("temperature")>>))

main_iotcc_bike ==
    Program(<<Connect>> \o
            Guarded(Enrol \o WithDevice("bike") \o
                    <<PublishUnit, Start("speed"), PublishUnit, Start("power")>>))

main_graphite_thermistor == Program(<<Connect, Start("temperature")>>)
main_graphite_bike == Program(<<Connect, Start("speed"), Start("power")>>)
simulated_edge_system_graphite == Program(<<Connect, Start("simulated")>>)
dell5k_edge_system_graphite == Program(<<Connect, Start("CPU Utilization")>>)
simulated_graphite_event_based == Program(<<Connect, Start("content")>>)
simulated_graphite_temp ==
    Program(<<Connect>> \o StartAll(<<"degC", "degF", "kelvin">>))
multi_metric_simulated_edge_system_graphite ==
    Program(<<Connect>> \o StartAll(<<"simple", "own timestamp", "bulk">>))
main_home_auto_gen_topic == Program(<<Connect>> \o StartAll(Home))
main_home_topic_per_metric ==
    Program(<<Connect, Start(Home[1])>> \o
            FlattenSeq([i \in 1 .. 3 |-> <<ReadKey, Start(Home[i + 1])>>]))
==============================================================================
