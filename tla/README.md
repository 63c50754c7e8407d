# A TLA+ model of liota

liota is a Python 2 library for IoT gateways. A gateway process collects
*metrics* from devices, aggregates them and publishes them to *data center
components* (DCCs); *packages* with the user's code are loaded into the running
process by commands, and devices can be discovered and registered on the way.
This directory holds TLA+ models of that code, the TLC runs that check them, and
proofs of their main properties. `PROJECT.json` lists, for each definition, the
source lines it stands for.

## 1. The system

| part | source | state | operations |
|---|---|---|---|
| metric handler | `core/metric_handler.py`, `entities/metrics/registered_metric.py` | the priority queue `event_ds`, `collect_queue`, `send_queue`; per metric `flag_alive`, `_next_run_time`, `values`, `current_aggregation_size`; per collector `working_obj` | `start_collecting`, `stop_collecting`, the loops of the EventCheckerThread, of the CollectionThreads and of the SendThread, `terminate` |
| package manager | `core/package_manager.py` | `_packages_loaded` (records with dependencies and dependents), the resource registry, the start-up list on disk, the package files | load, unload, reload, update, delete, their batch forms, load_auto, terminate |
| command messengers | `core/package_manager.py`, `core/device_discovery.py`, `core/discovery_simulator.py`, `packages/liotad/liotapkg.sh` | a named pipe, a queue of commands | write a command, read the pipe, split, enqueue, stop |
| packages and programs | `src/packages`, `src/examples` | per package its connection, registered entities and metrics | `run()`, `clean_up()`, the main part of a program |
| IoTCC | `dccs/iotcc.py` | `_req_dict`, the transaction counter, `reg_entity_id`, per request a queue; `iotcc.json` and one file per entity | register, unregister, create_relationship, set/get_properties, publish_unit, the dispatcher |
| device discovery | `core/device_discovery.py`, `disc_listeners/*` | listeners, `_devices_discoverd`, `discovery_lock` | a message of a device, registration with each DCC, commands, termination |
| discovery simulator | `core/discovery_simulator.py`, `dev_sims/*` | simulators with a count and a flag | beacons, commands, termination |
| MQTT | `lib/transports/mqtt.py`, `dcc_comms/mqtt_dcc_comms.py`, `device_comms/mqtt_device_comms.py` | result codes, `sub_dict` | connect, disconnect, the callbacks, subscribe, unsubscribe, publish |
| WebSocket | `lib/transports/web_socket.py`, `dcc_comms/websocket_dcc_comms.py` | the socket | send with reconnects, receive, close |
| filters | `lib/utilities/filters/*` | window end, `sample_passed` | filter |
| Graphite, AWS IoT | `dccs/graphite.py`, `dccs/aws_iot.py` | none of their own | format and publish a metric's values |

How they interact: a package's `run()` builds entities, registers them with a DCC
from the resource registry and calls `start_collecting` on its metrics; the metric
handler's SendThread calls `publish` of the DCC, which drains the metric's queue
and sends through MQTT, a WebSocket or a socket; answers of the IoTCC come back
on a receive thread and are matched to the waiting requests; a termination command
unloads all packages and calls `terminate` of the metric handler.

What makes it hard: six kinds of threads share metrics without a lock of their
own; a stop, a publish or a termination may come at any moment; sampling functions
and packages are user code that may raise; requests may be answered late, twice or
never; the start-up list survives a crash. `PROJECT.json` lists these hazards with
the lines at which they bite and the properties that cover them.

## 2. Modules

| module | what it is |
|---|---|
| `MetricHandler` | the metric handler and the part of `RegisteredMetric` and of the DCCs it drives |
| `MetricHandlerProofs` | its proofs: every step keeps the types and the one-event-per-metric invariant; the rest of the inductive invariant, the flow of samples, and the theorems |
| `PackageManager` | the PackageThread, the resource registry, the package records, the start-up list, the package directory |
| `PackageManagerCommands`, `PackageManagerProofs` | its proofs: the start-up list and what one step of a command does; the call stack, the steps of `_package_load` and `_package_unload`, the graph and the registry, and the theorems about commands |
| `Messenger` | a command pipe, the thread that reads it and whoever stops that thread |
| `Scripts` | `run()` and `clean_up()` of each package and the main part of each program, as sequences of steps |
| `Packages` | the execution of these scripts by the PackageThread, together with the SendThread |
| `IoTCC` | IotControlCenter: requests, dispatcher, local files, and the control center at the other end |
| `RequestReply` | the abstract specification of a request and its answer, which `IoTCC` implements |
| `IoTCCProofs` | the proof that it does, and of when ids differ; what a step of a thread does to its stack and to the records |
| `IoTCCRecords` | proofs about the entity files, `reg_entity_id` and what is recorded |
| `Discovery` | device discovery, composed with `Messenger` and `Simulators` |
| `Simulators` | the device simulators |
| `Mqtt`, `MqttProofs` | the MQTT transport, its users and Paho's network thread, and the proofs about them |
| `WebSocket`, `WebSocketProofs` | the WebSocket transport, its senders and its receiver, and the proofs about them |
| `Filters`, `FiltersProofs` | range filters and the window around them, and the proofs about both |
| `MC...` | constants and scenarios for TLC |

Several modules have a constant `Plans`: scenarios (what is configured, which calls are
made, how many faults may happen) of which `Init` chooses one, so that one run covers
situations that would be too large together.

### MetricHandler

One step is what a thread does between two points at which another thread can
observe or disturb it: a section under the mutex of `event_ds`, one operation on a
`Queue`, one read or write of a shared attribute. Each variable is an attribute or
a local variable of the code, except the four marked "history".

* *Time.* The code only compares next run times with each other and with the
  current time. `due[m]` is `_next_run_time - now`; `Tick` passes one unit of time
  and the checker is allowed to be late by at most `MaxLag` units.
* *The heap.* `event_ds` counts how often each item is queued and `root` is
  `queue[0]`. `heappush` replaces `queue[0]` only by a strictly smaller item;
  `heappop` may leave any least item there. `Before` is `__cmp__`: a `SystemExit`
  comes after every metric.
* *The checker.* `get_next_element_when_ready` reads `queue[0]`, sleeps on it and
  after the wait decides by the element *read before*, while `_get()` removes the
  head *of now*. `GetNextElement`, `WakeTimed` and `WakeUntimed` keep that.
* *The collectors.* One action per statement of `run()` and `collect()`;
  `current_aggregation_size += n` is a read and a write. A sampling function
  returns `None`, a value, a list, possibly an empty one, or raises if its metric is in
  `Faulty`.
* *The sender.* Draining is one step because only the sender takes values. A
  publish may fail; `send_data` drops the batch then.
* *The client* calls `start_collecting` once per metric: the code leaves what should
  happen otherwise as a TODO (`registered_metric.py:66`), and a second call would put a
  second event of the metric into the pipeline. It calls `stop_collecting` and
  `terminate` at any time. Actions start after `initialize()`.

`Fairness`: weak fairness of each thread, of time and of a begun `terminate()`.
Threads are scheduled by the operating system, the waits they are in are woken by
the step that ends them, and sampling functions and network calls are taken to
return. Nothing obliges a client to do anything.

### PackageManager

One thread serves commands, but the operator changes package files at any time and the
process may be killed at any time, so the steps are those between which a file may
change or a crash matters.

* *Commands.* One action per command of `run()`. A command puts the calls it makes into
  `todo`; `Take...` makes the next one. `restore` stands for the loop of reload and
  update over the reversed `track_list`, `save` for the write of the named package into
  the start-up list after it. `update_all` ends the thread (`thread = "dead"`), as the
  missing argument does. `list` and `stat` only read and are left out.
* *Recursion.* `_package_load` and `_package_unload` call themselves. `stack` is the
  call stack, `act[p]` the local variables of the call for package `p`; each loop over
  dependencies or dependents takes the next one in any order, as lists of modules and
  `dict.keys()` may have any. `check_stack` holds the packages of the loads in progress,
  which is what `CheckStack` says.
* *Files.* A file is its content (`Versions`), which SHA-1 is identified with; `Code` says
  what a content assigns, registers and uses, and whether it raises. Choosing and
  verifying the file is one step, importing it another: the file may change in between.
  `imp.load_source` executes a file in the namespace its module already has
  (`Namespace`). The `.pyc` it may write is left out.
* *The registry.* `register` refuses an identifier that is taken; `owned` is `_packages`.
* *The start-up list.* A line has the length of its package's name (`NameLength`) and of a
  checksum. The list is rewritten in place and then cut, so a crash in between (`Torn`)
  leaves the last bytes of the old list, as many as the removed line had (`Remainder`): whole
  lines, a line without the beginning of its name, or a piece of a checksum. The last has no
  colon: `load_auto` raises at the next start (`Readable`), and the thread ends (`Dies`).
* *Restart* covers a crash at any step and a clean start alike: memory is gone, files and
  the list stay; a delete has by then removed the package's file.

Dependencies and resources are sets (no repeated entries); a file does not vanish between
`isfile` and the read of its checksum; a `PackageClass` extends `LiotaPackage`, as the
documentation demands.

`older` and `asked` are history variables: the packages that were loaded when `p` was and
have been ever since, and the packages the last command is to put on the list, by `-r`.

`FairSpec`: weak fairness of the thread's own steps; `run()` and `clean_up()` of packages
are taken to return. Commands, uploads and crashes are never obliged to happen.


### Messenger

`PackageMessengerThread` and the two `CmdMessengerThread`s are the same code but for one
line, so they are one module: `Separator` is `"comma"` for the package manager
(`line.split(',')`) and `"space"` for the others (`line.split()`), and `Word` keeps the
newline of a line split by commas. The FIFO is modelled by what the code sees of it: an
open waits for the other side, text that is in the pipe when the last reader closes is
`lost`, a reader without writers gets the end of file. Those who stop the messenger
(`Stoppers`: the command thread, and the clean-up of a package) look whether it is alive
and then open the pipe, in two steps. `list` and `stat` only format.

### IoTCC

Threads call `register`, `unregister`, `create_relationship` and `set_properties`; a method
that calls another pushes a frame. A request takes an id in two steps (`_next_id` reads and
writes the counter without a lock), is entered in `_req_dict` and sent; the dispatcher takes
an answer, looks the id up and puts it into the queue of that request; the caller's
`Queue.get` has a time-out, which may win at any moment. The control center (external)
accepts, refuses, answers twice, late or not at all; `MaxFaults` bounds how often. `Restart`
kills the process at any step: files stay, memory goes, `iotcc.json` is blanked. Writing an
entity file is two steps, since `open` empties it; either may raise, which the code logs and
passes over, so that the caller returns all the same with the old file or an empty one in
place. The uuid that the center gives an entity is the entity itself, so a uuid that reached
the wrong one shows.

`history` records what no single state shows: whether two threads were inside `_next_id`
at once, whether two registers overlapped, whether a uuid was mixed up, which properties
were written and which files a call failed to write. Taken as one step: the
read-modify-write of `iotcc.json` in `unregister`.
`_format_data` is the metric handler's `SenderDrain`.

`RequestReply` is the promise: a request has an id and at most one answer, one that
carries its id. `Replies` is the mapping: `ident` and `reply` of a request are the id it
sent and what its queue got.

### Discovery and Simulators

`Discovery` composes `Messenger` (with `"space"`), `Simulators` and the discovery thread,
from the start of its listeners and then of its messenger on: the package may be unloaded
before either is there.
A listener starts one thread per message; `proc[m]` is where that thread is inside
`device_msg_process`. The steps are those between which another thread can change
`_devices_discoverd`, the registry or the lock. A DCC call that is made with
`discovery_lock` held ends (that is `CallsEnd` of `IoTCC`) by returning or raising, after
any part of its work. Messages are items of a device type and a value; types and values
the patterns of the code refuse are in `Unsafe`. A batch on the pipe is a sequence of
lines, of one writer or of two, with `END` in between; `Parses` says which lines make one
JSON text: a line by itself, or an opening and a closing one. DCC packages come and go
(`Churn`, external).

Socket and CoAP endpoints are refused by the code (`mqtt_only`), so those listeners and
simulators never start.

### Mqtt

`connect_soc`, `disconnect`, `publish`, `subscribe` and `unsubscribe` of the user threads
and the callbacks in Paho's network thread, which share `connect_rc`, `disconnect_rc` and
`sub_dict`. A poll with its time-out is one step that may come before any result; the
codes are read again after it, in a step of their own, as the code does. Paho (external)
is modelled by what `mqtt.py` relies on: it connects again after a loss, keeps messages
with QoS above 0 up to `QueueSize`, sends them until they are acknowledged, and dies of an
exception in a callback. `on_connect` goes through `sub_dict` in a loop of its own steps
(`NextTopic`, `GetTopic`, `SetTopic`, `Renew`), between which the users' threads subscribe
and unsubscribe: it raises when the dictionary has another size at its next turn, or the
topic is gone when its entry is looked up. When topics come and go so that the size stays,
it may miss some (`crossed`), and it may put back one that was taken out.

### WebSocket

Senders and the receiver share `self.ws`. A connection is a position in `conns`; it is
open, lost or closed. Each assignment of `self.ws`, each call on it and the test and the
call of `close` are steps; reading `self.ws` and calling its `send` is one. `causes`
counts, per sender, the events that can fail a try: losses, refusals, reconnections and
closes by others.

### Filters

`range_filter` is `RangeFilter.filter`, `_window` the override of `WindowingScheme`; a
sample may come at any time but at most `MaxGap` after the one before. A clock that goes
back is not modelled.

### Scripts and Packages

`Scripts` holds, for each package and program of the repository, what `run()` and
`clean_up()` do as a sequence of steps: get or register a resource, connect, register an
entity, use one, start a metric and append it to `self.metrics`, stop, unregister, close;
with what may raise, what is caught and what is retried. `Packages` executes them: load
with dependencies, unload of dependents first, exceptions at every step that can raise,
while the SendThread checks `flag_alive` and publishes in two steps. `Dirs` are the
directories of packages that belong together. Loading is simpler here than in
`PackageManager` (one version of each file, no start-up list), which is about the graph;
this module is about what the packages themselves leave behind. Package `iotcc`, which
most examples depend on, is not in the repository and is modelled from how they use it.

## 3. What is checked

`tlc -config X.cfg M` for each run of `PROJECT.json`. Each takes less than three minutes.

| run | states | properties | what it shows |
|---|---|---|---|
| `metric_schedule` | 424,333 | `CollectExclusive`, `WakesInTime`, `StopsWithinOneSample`, `EarlyOnlyPastDeadHead` | one collector samples a metric at a time; the checker never sleeps past the first event; a stop is followed by one sample at most; a metric is taken early only past a stopped one |
| `metric_data` | 1,390,881 | `SampleFlow` | samples are sent once, in order; only a failed publish drops any |
| `metric_live` | 308,355 | `KeepsCollecting`, `ShutsDown` | a live metric is sampled again and again as long as a collector is left, also when another metric's sampling function raises and so ends collectors; `terminate()` ends the checker and the sender |
| `package_graph` | 325,248 | `DependenciesLoaded`, `NoCircle`, `RegistryExact`, `ResourcesStay`, `ReloadSameFile`, `CommandsFinish` | graph and registry stay consistent in the middle of every recursion, whatever files are put in place meanwhile; reload goes back to the files it unloaded; every command ends |
| `package_startup` | 136,019 | `AskedIsListed`, `StartupSurvives`, `StartupReadable` | who was asked for with `-r` is listed, with two exceptions; a crash loses at most the line being removed, and leaves a list that cannot be read in one case only |
| `iotcc` | 289,713 | `IdsDifferUnlessRaced`, `RecordedWasAccepted`, `PropertiesKept`, `OwnUuidUnlessOverlap`, `AtMostOneReply`, `CallsEnd` | requests and dispatcher implement `RequestReply`; the local files say only what was accepted, and keep it; ids and uuids are mixed up only in the two ways named; every call ends |
| `discovery` | 77,431 | `RecordedIsComplete`, `NoRecordLost`, `EndsUnlessLost`, `StopperNotStuck`, `MessagesEnd` | a recorded device was registered completely; concurrent messages lose no record; messages, and messengers that were told to stop, come to an end |
| `mqtt` | 48,271 | `ConnectedWasAccepted`, `ClosedStaysClosed`, `Resubscribed`, `ReturnedIsSent` | `connect_soc` returns only after an acceptance; nothing connects again after `disconnect`; no loss of the connection loses a topic, and a message with QoS 1 or 2 whose `publish` returned is sent, as long as the network thread lives |
| `websocket` | 469,599 | `ReturnedOnce`, `GivesUpLate`, `DeafOnlyByRace` | a send that returned wrote its message once; it gives up only after four causes of failure; the receiver stays on a stale connection only when reconnections raced |
| `filters` | 67,827 | `HeardInTime`, `RareOverrides` | a metric whose values are all rejected is still heard in time, and rejected values pass once a window at most |
| `packages` | 50,493 | `NoOrphanMetrics`, `LiveHasConnection`, `OneLateSend`, `EntitiesGone` | what the shipped packages start and register is stopped and unregistered, even when calls fail, or by nobody where the script says so |
| `messenger` | 195 | `EndsUnlessLost`, violated | see below |

`AtMostOneReply` is a refinement: the detailed specification implements
`RequestReply!Spec` under the mapping `Replies`.

### Bounds

* *Metric handler*: two metrics and two collectors are the least for a race of collectors
  and for a queue whose head changes; intervals 1 and 2 make the order of events change;
  `MaxSamples` 3 with aggregation 2 fills a batch and begins the next. `MaxLag` 1 lets an
  event be overdue while another is put (0 in `metric_live`, where one metric may raise).
* *Package manager*: three packages give a diamond, a chain and a circle of two and of
  three; versions of each raise, do not compile, or change their dependencies; one package
  is there as a compiled file only, until a source appears beside it. One restart suffices,
  as a restart leaves only the files. The names have lengths for which a crash leaves each
  of the three kinds of remainder.
* *IoTCC*: `IdSpace` 3 makes the counter wrap (2^24 in the code) within the requests of
  two threads; two faults allow a lost answer followed by a late one, or a restart after
  either. Two entities, one of them the gateway, and six plans of calls.
* *Discovery*: ten scenarios that start and one whose configuration the code refuses, with
  two message threads, two DCCs and three device types; beacons and counts of the
  simulators are 2 and 3 in place of 5 and 20, on either side of which they behave alike.
* *MQTT*: two users, three messages, a queue of two, at most two losses, every combination
  of TLS files and credentials.
* *WebSocket*: one sender with four faults, which is what it takes to give up; two senders
  with one or two; the server sends one message.
* *Filters*: values on either side of the bounds, windows of -1 to 2 seconds with two clock
  ticks each, samples up to three ticks apart: longer and shorter than a window.
* *Packages*: `RetryAttempts` 2 and two devices; of late messages on one connection at most
  `MaxLate` 2 are counted, one more than the property allows; every three commands about a pair of
  packages that share a data center, and chosen ones for the others.

Runs with `CHECK_DEADLOCK FALSE` have scenarios that come to an end.

### Fairness

Weak fairness of the steps of each thread, as the operating system schedules it, and where
a thread waits for somebody else's answer: in `IoTCC` the step may always be the time-out of
`Queue.get`; in `Mqtt` the broker answers and acknowledges while the connection is up; in
`Discovery` a DCC call ends because of `CallsEnd`, and a script that opened the pipe writes
and closes it; in `WebSocket` connecting returns or raises. Nothing obliges clients,
operators, devices, servers, the network or a crash to act.

### The run that fails

`messenger` is `Messenger` as `PackageMessengerThread` has it: `run` cuts each line at
commas, which keeps the newline that `_terminate_all` writes after
`terminate_messenger_but_you_should_not_do_this_yourself`, and compares the word without one
(`package_manager.py:1313`). The line goes into the queue as an unknown command and the thread
blocks in `open` for ever: `EndsUnlessLost` is violated, although the comment above
`_terminate_all` has it "signal termination to all threads in package manager" (1238). The
messengers of device discovery cut lines at white space; with that separator the property
holds, in `discovery`.

### Other behaviour the models keep

Seen while modelling; each is in the model as the code has it, and the properties are
stated with the exception it makes.

* `metric_handler.py:134`: when the metric the checker slept on was stopped meanwhile,
  `_get` takes whatever is first by then, due or not (docstring at 103).
  `EarlyOnlyPastDeadHead` says that this is the only way to be early.
* `metric_handler.py:246`: the count of samples is reset after the event was put back, so a
  second collector may ask for another, smaller batch, or have its sample uncounted, which
  then waits for later ones (220).
* `package_manager.py:1003`, `1056`: `-r` is not passed on by an update of a package that is
  not loaded (the README of liotad lists `-r` for update), and not used for a package of a
  batch that came in as a dependency of an earlier one. `AskedIsListed` names both.
* `package_manager.py:677`, `1149`: a crash between the rewrite of the start-up list and its cut
  may leave a piece of a checksum as the last line. The next start raises a `ValueError` there,
  where only `IOError` is caught, and the PackageThread ends. `StartupReadable` says when.
* `package_manager.py:646`: a package loaded again with `-r` keeps its old checksum in the
  start-up list (629); reloading or updating may drop other packages from that list.
* `package_manager.py:961`: while reload loads again what it unloaded, a package that is
  loaded already is skipped. It may have come back as a dependency of one that did not
  depend on it before, from whatever file has priority by then, though the comment at
  935 wants the same file. `ReloadSameFile` leaves those out.
* `package_manager.py:825`: the resources of a package whose `run` raised stay registered
  (99); `802`: names of packages that failed later stay among the dependents, which
  `RecordsOrdered` has to allow for.
* `package_manager.py:569`: `update_all` ends the thread with a `TypeError`
  (`UpdateAllCommand`). Python's `imp.load_source` reuses the module's namespace, so names
  a new file no longer defines are still there (`Namespace`).
* `iotcc.py:656`: a file emptied by a crash, or by a write whose error was swallowed (625),
  is read as `None`, and storing the entity again raises. `PropertiesKept` says that nothing
  else leaves one empty. Two threads inside `_next_id` at once may get one id (748), which
  `IdsDifferUnlessRaced` leaves out. Once the edge system is unregistered, a later
  `register` raises after the center accepted it (525).
* `mqtt.py:259`: the cipher of a `TLSConf` is read under a name it does not have, so giving
  one raises. A `publish` that raised while the connection was down may still be sent by
  Paho later. Subscribing twice keeps the first callback after a reconnection. `unsubscribe`
  takes the topic out of `sub_dict` before it tells the broker (373): a `subscribe` of the
  same topic in between is undone at the broker and stays in `sub_dict`. That, and a topic
  the loop of `on_connect` missed, is what `crossed` in `Resubscribed` allows for.
  `on_connect` loops over the dictionary that other threads change (178): the `RuntimeError`
  or `TypeError` this may raise kills the network thread, and nothing is sent or renewed any
  more.
* `web_socket.py:114`: two senders that reconnect together leave the receiver on the socket
  that lost (`DeafOnlyByRace`); the receive thread, once ended, is not started again.
* `dev_disc`: unloading a discovery package leaves `DiscoveryThread` blocked on its queue;
  a second stopper of one listener fails (`KeyError`, 420) or waits; a text that does not parse
  stays in front of the next, which it spoils too, or completes (`named_pipe.py:109`); a message
  ends early when `create_relationship` raises or a package goes between `has` and `get`; a
  second report of a device resets the record the first is adding to; one device announced
  twice at the same time may be recorded twice; the simulators' `self.flag = False` ends nothing.
* `user_packages/iotcc_mqtt_device.py:153`: the handler's own `format` raises, so
  `set_properties` is not tried again, against the comment at 141.
* Shipped packages whose `run` fails after a registration leave the connection open, the
  resource, and entities they registered, registered; loading them again then raises. Metrics
  of a package whose `run` or `clean_up` raised before it stopped them are collected for ever
  and published on a connection that may be closed, again and again (`OneLateSend`). `iotcc_bike`
  and `iotcc_thermistor` read the configuration before they stop their metrics in `clean_up`.
  The callback of `kura` takes four arguments where Paho passes three.

## 4. What is proved

`tlapm` checks every theorem to its last leaf. Nothing but the named assumptions on the
constants is assumed, and TLC evaluates those in the runs.

`MetricHandlerProofs` proves, for any finite sets of metrics and collectors, any intervals,
aggregation sizes and bounds
(`ConstantsAssumption`):

* `EventInvariant`: `Spec => []EventInv`. `EventInv` is inductive. It is `TypeOK`;
  `OneEvent` (a metric's event is in the heap, in the checker's hands, in `collect_queue`
  or with one collector, and in only one of these places); `HeadIsLeast` (`queue[0]` is a
  least item); `SleepsOnHead` (a checker that no notify awaits sleeps on `queue[0]`, which
  stays queued meanwhile); `LateIsLast` (a sampling call that returned after the stop was
  the only one under way).
* `TypeCorrect`, `SamplingIsExclusive`, `NoMissedWakeup`, `StopIsPrompt` follow from it: two
  collectors inside `collect()` of one metric would both hold its event; a checker asleep
  on a least head wakes in time.
* `EarlyPopsAreExplained`: the action property `EarlyOnlyPastDeadHead`.
* `SamplesFlow`: `SampleFlow`. `FlowInv` says of each metric that there is a number `b` such
  that the samples 1 to `b` were delivered, in order, or lost by a failed publish, and the
  later ones are, in this order and without a gap, with the sender, in `values` and with the
  one collector that is adding them. That there is only one is `OneEvent`.

`CollectExclusive` and `WakesInTime` are not inductive by themselves: both need to know
where the event of a metric can be, which is why `OneEvent` covers all four places. The
proof has one step per action; frame lemmas dispose of the groups of variables an action
leaves alone.

`PackageManagerProofs` proves, for any finite set of packages, any contents of their files, any
commands and uploads and any number of restarts (`PackagesAssumption`):

* `GraphInvariant`: `Spec => []GraphInv`, which is inductive. Its core is `RecordsOrdered`:
  `older` is a strict order that contains every dependency, and every *loaded* member of
  `dependents`, stale or not, is younger than the package that lists it, because
  `add_dependent` runs only while the dependent is not loaded. `CallsInv` and
  `StopsYounger` say that the calls on the stack are for different packages and that each
  nested unload is of a younger package; `LoadingOK` and `UnloadingOK` what a call has done
  so far.
* `DependenciesStay`: when a record is removed no loaded package is left among its
  dependents, and a dependency is always entered there before its dependent is recorded.
* `UnloadNeverReenters`: a dependent still to be stopped is younger than every package on
  the stack, hence not on it.
* `DependenciesAreAcyclic`: among any loaded packages one has a smallest `older` set, by
  well-foundedness of strict inclusion on finite sets; it depends on none of the others.
* `RegistryIsExact`: inductive by itself; only `register`, an unload and a restart change the
  registry.
* `ResourcesAreKept`: `ResourcesStay`, if packages list the packages whose resources they
  get (`UsesDeclared`: the manager loads the packages that one lists before it, and knows of
  no others; the module of the runs assumes it as well). `Held` follows what a module's
  class and dependency list come from, as a new file without one of them leaves the old one
  in the namespace.

The first four are not inductive without the order: that the recursion of unloading does not
come back, with stale names about, is what needs it.

About the commands, any commands and any start-up list (`CommandsAssumption`), there is
`CommandInv`, whose steps `PackageManagerCommands` prepares. It (`CommandsInOrder`) says
which calls a command has still to make, given what it has done: in a reload the unloads
come first, `track` then lists each unloaded package once, with the extension of its file,
and whatever is loaded again was taken from there.

* `StartupIsKept` (in `PackageManagerCommands`): the action property `StartupSurvives`. It needs
  what `Without`, which is a definition by counting, leaves of a sequence (`WithoutKeeps`), and
  holds whatever the remainder of the old list is.
* `AskedAreListed`: `AskedIsListed`, from the part of `CommandInv` that says that whoever is
  loaded and asked for is on the list or is still to be saved.
* `ReloadsSameFile`: `ReloadSameFile`.

`IoTCCProofs` proves `OneReply`, that `IoTCC!Spec` implements `RequestReply!Spec`, for any
threads, calls, entities, faults, restarts and size of the id space. `RInv` is the inductive
invariant that lets every step be mapped (`StepSimulates`): registering a request
in `_req_dict` maps to `Ask`, the dispatcher's `put` of an answer to `Deliver`, all the
others to stutters. From the same invariant follows `IdsDiffer` (`IdsDifferUnlessRaced`):
`IdInv` says, as long as no two calls of `_next_id` raced, how far the counter and the id of
each request are ahead of the ids before them, so that two ids of one run of the process are
equal only `IdSpace` requests apart.

`IoTCCRecords` proves what `IotControlCenter` keeps on disk, for any threads, entities and
plans. A method that calls another pushes a frame, so the first invariant, `TInv` (in
`IoTCCProofs`), says which stacks there are (`get_properties` above `set_properties` or
`register`, about one entity) and which uuids are known where; `Effect` lists what a step of
a thread may do to its stack and to the records. On top of it:

* `FilesAreKept`: `PropertiesKept`. `LockInv` says that `file_ops_lock` is held from the read
  of an entity file to its write, also while `get_properties` waits for its answer; `KeptInv`
  says that what was stored is in the file, unless a crash or a failed write left that empty,
  and, while a thread is between the two, in what it read; `UuidInv` that a call is about the
  uuid of its entity unless two were mixed up.
* `OwnUuid`: `OwnUuidUnlessOverlap`. `OwnInv` says that without an overlap one thread at most
  is inside `register`, and that `self.reg_entity_id` is then its entity's.
* `RecordsAreAccepted`: `RecordedWasAccepted`. `MsgInv` says of every answer, in the receive
  queue, at the dispatcher or in a request's queue, that it tells what has become of the
  request it is to; `WaitInv` that a thread waits for its own request; `AccInv` that what a
  call stores, what it has read and what the files hold was accepted for the entity. That the
  ids are not shared is used where an answer in the queue of a request is taken for the answer
  to it (`SetAccepted`).

`IoTCCAssumption` says of the plans only that they are sequences of calls of the API on
entities.

`FiltersProofs` proves, under `FilterAssumption`:

* `RangeIsExact`: for all integers and all bounds `_validate` accepts, a filter passes exactly
  the values the documentation of its type lists (`Listed`). It is a theorem about the
  operators alone; `AcceptsListed` and `RejectsOthers` are its two halves.
* `Heard` and `Rare`: `HeardInTime` and `RareOverrides` for any window, any gap between samples
  and any filter. Their inductive invariant `IInv` ties the time since the last value passed
  to the next window time (`Hearing`) and counts each override against a window that has gone
  by (`Paid`), which neither property says by itself. `TypeCorrect` comes with them.

`MqttProofs` proves, for any users, topics, messages and programs and any number of losses,
`Invariance` of `IInv` and from it

* `ConnectIsAccepted` and `ClosedForGood`: `ConnectedWasAccepted` and `ClosedStaysClosed`. The
  codes 0 are set by the network thread, so the invariant says what is true when they are seen
  (`ConnectInv`, `CloseInv`).
* `TopicsRenewed`: `Resubscribed`. While `on_connect` is at it, a topic may also be among those
  it has still to meet or to renew (`SubscribeInv`).
* `NothingDropped`: a message with QoS 1 or 2 whose `publish` returned was sent or is in Paho's
  queue, the safety half of `ReturnedIsSent`.

`WebSocketProofs` proves, for any number of senders and faults, `Invariance` of `IInv` and from
it `TakenOnce` (`ReturnedOnce`) and `GivesUpOnlyLate` (`GivesUpLate`). The latter needs
`Accounted`: each failed try of a sender had a cause of its own, and while nothing is open to
send on there is one more that it has not met yet.

Only model-checked: all liveness (`DeafOnlyByRace` among it), as fairness and `ENABLED` are
out of the prover's reach; `StartupReadable`, which counts bytes by recursion over the list;
and the properties of `Discovery`, `Messenger` and `Packages`, which hold because of how a
handful of threads interleave in given scenarios, the last because of what the text of each
script says.

## 5. Not modelled

* `metric_handler.initialize()` and `package_manager` start-up before the threads run: taken as
  done. Two first callers of `initialize()` could race (`metric_handler.py:319`).
* The values of metrics, units (`si_unit`), unit checks, and the layout of messages: no
  property tells them apart. `entities`, `utilities` other than the filters and TLS, the set-up
  scripts, configuration look-up (`_get_file_storage_path` among it), checksums (`cal_sha1sum`:
  a checksum is the file's version), logging.
* Discovery over CoAP and sockets: the code refuses these endpoints, which is modelled. That
  `_executable_check` is called is; its result is ignored by the code.
* `packages/examples/edgex/edgex_device.py`, which does not compile (tab at line 96), and
  the packages `iotcc` and `credentials`, which the scripts depend on and the repository
  does not ship: these are external in `Packages`.
* The device threads the simulator packages start, which nothing ever stops.
* Of the example programs, the functions that read a metric or simulate a device; their main
  parts are programs of `Packages`.
* Clocks that go backwards; times are relative and bounded.
* The bookkeeping of the aggregation count when it is changed by two collectors inside one
  increment (`registered_metric.py:147`).
