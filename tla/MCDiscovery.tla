---------------------------- MODULE MCDiscovery ----------------------------
(* Scenarios of device discovery.                                          *)
EXTENDS Discovery

DeviceTypes == {"Press64", "Apple56", "Ba$t"}
TwoDccs == {"iotcc", "aws"}

Conf == [endpoints |-> {[kind |-> "pipe", value |-> "disc_pipe"], [kind |-> "mqtt", value |-> "broker"],
                        [kind |-> "socket", value |-> "None"], [kind |-> "coap", value |-> "ip"]},
         keys |-> [Press64 |-> "serial", Apple56 |-> "SN"] @@ ("Ba$t" :> "SN"),
         dccs |-> [Press64 |-> <<"iotcc", "aws">>, Apple56 |-> None] @@ ("Ba$t" :> <<"aws">>)]
Keyless == [Conf EXCEPT !.keys["Press64"] = None]

Dev == [type |-> "Press64", value |-> "v1"]
Other == [type |-> "Apple56", value |-> "v1"]
Bad == [type |-> "Ba$t", value |-> "v1"]
BadValue == [type |-> "Press64", value |-> "v$"]
UnsafeNames == {"Ba$t", "v$"}
List == [cmd |-> "list", nl |-> TRUE]
Quit == [cmd |-> "terminate", nl |-> TRUE]
CommandScripts == {List, Quit}

Quiet == [conf |-> Conf, scripts |-> {}, interrupt |-> FALSE, sims |-> FALSE, beacon |-> <<Other>>, devices |-> {},
          mqtt |-> "running", edge |-> TRUE, churn |-> FALSE, unload |-> FALSE, messages |-> 2]
Piped(lines) == [to |-> "pipe", lines |-> lines]
Published(payload) == [to |-> "mqtt", lines |-> <<payload>>]

DiscoveryPlans ==
  { (* two messages about one device; one while DCC packages come and go *)
    [Quiet EXCEPT !.devices = {Published(<<Dev>>)}],
    [Quiet EXCEPT !.devices = {Piped(<<<<Dev>>, END>>)}, !.churn = TRUE, !.messages = 1],
    (* batches that do not parse, only in part, or only with one another *)
    [Quiet EXCEPT !.devices = {Piped(<<<<Other, Dev>>, END, Junk, END, <<Dev>>, END>>),
                               Piped(<<END, <<Dev>>, END>>),
                               Piped(<<<<Dev>>, <<Dev>>, END>>),
                               Piped(<<Opening(<<Dev>>), END>>), Piped(<<Closing, END>>),
                               Piped(<<<<Bad, Dev>>, END, <<Other>>, END>>),
                               Piped(<<<<BadValue, Dev>>, END>>), Published(Junk)}],
    (* operators, with and without the unloading of dev_disc *)
    [Quiet EXCEPT !.scripts = {List}, !.devices = {Piped(<<<<Dev>>, END>>)}, !.messages = 1],
    [Quiet EXCEPT !.scripts = {Quit}, !.unload = TRUE],
    [Quiet EXCEPT !.scripts = {List, Quit}, !.interrupt = TRUE],
    (* dev_disc is unloaded while its MQTT listener connects, or does not *)
    [Quiet EXCEPT !.mqtt = "new", !.unload = TRUE, !.edge = FALSE],
    [Quiet EXCEPT !.mqtt = "new", !.unload = TRUE,
                  !.devices = {Piped(<<<<Other>>, END>>), Published(<<Other>>)}],
    (* simulators *)
    [Quiet EXCEPT !.sims = TRUE, !.conf.endpoints = {[kind |-> "mqtt", value |-> "broker"]}, !.unload = TRUE],
    [Quiet EXCEPT !.sims = TRUE, !.conf.endpoints = {[kind |-> "pipe", value |-> "disc_pipe"]}, !.unload = TRUE],
    [Quiet EXCEPT !.conf = Keyless] }
=============================================================================
