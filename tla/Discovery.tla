----------------------------- MODULE Discovery -----------------------------
(***************************************************************************)
(* Device discovery (core/device_discovery.py, disc_listeners) with the    *)
(* messenger of its command pipe (Messenger) and the simulators that feed  *)
(* it (Simulators).  Listeners start one thread for each message; the      *)
(* thread registers the device with the DCCs that its type maps to and     *)
(* records what it did.  Meanwhile DCC packages come and go, operators     *)
(* list and terminate, and the package dev_disc may be unloaded.           *)
(***************************************************************************)
EXTENDS Messenger, Simulators, FiniteSets

CONSTANTS
  Types,        \* device types; here a type has one device, of the same name
  Dcc,          \* DCC packages
  Unsafe,       \* types and values that the patterns refuse
  None,         \* "None" in liota.conf
  Plans,        \* scenarios: what may happen in one behaviour
  MaxMessages   \* bound: message threads of a behaviour (plan.messages is at most that)

VARIABLES
  plan,         \* the scenario: what may happen, and how much
  registry,     \* pkg_registry: the DCC packages that are loaded
  listeners,    \* _listeners: keys
  listener,     \* [Endpoints -> [pc, flag_alive]]
  todo,         \* [Stoppers -> SUBSET Endpoints]: the items() that are left
  lock,         \* discovery_lock: its holder, 0 for none
  proc,         \* threads of device_msg_process
  found,        \* _devices_discoverd: [Types -> Seq(Dccs)]
  cloud,        \* what the DCCs did for a device
  saver, mine   \* history: who saved a device last, what each thread recorded

discvars == <<plan, registry, listeners, listener, todo, lock, proc, found, cloud, saver, mine>>
vars == <<pipevars, simvars, discvars>>

Fresh(items) == [pc |-> "item", items |-> items, dccs |-> <<>>]

(* _get_config_from_file, for conf = [endpoints, keys, dccs]: the last two *)
(* are functions from types to values, None among them.                    *)
_get_config_from_file(conf) ==
  LET given(m) == {t \in DOMAIN m : t \notin Unsafe /\ m[t] # None}
  IN  [endpoint_list |-> {e.kind : e \in {e \in conf.endpoints :
                             e.value # "None" /\ e.kind \in {"pipe", "socket", "mqtt", "coap"}}},
       type_key_map  |-> Restrict(conf.keys, given(conf.keys)),
       type_dcc_map  |-> Restrict(conf.dccs, given(conf.dccs))]

_config == _get_config_from_file(plan.conf)

(* A type with DCCs and without a unique key raises, and nothing starts.   *)
Accepted(conf) ==
  LET c == _get_config_from_file(conf)
  IN  DOMAIN c.type_dcc_map \subseteq DOMAIN c.type_key_map

DiscInit ==
  /\ PipeInit("none", "start")
  /\ plan \in Plans
  /\ Accepted(plan.conf)
  /\ SimInit(IF plan.sims THEN plan.conf.endpoints ELSE {})
  /\ registry = Dcc
  /\ listeners = {}
  /\ listener = [k \in Endpoints |-> [pc |-> "none", flag_alive |-> TRUE]]
  /\ todo = [p \in Stoppers |-> {}]
  /\ lock = 0
  /\ proc = <<>>
  /\ found = [d \in Types |-> <<>>]
  /\ cloud = [x \in Types \X Dcc |-> {}]
  /\ saver = [d \in Types |-> 0]
  /\ mine = <<>>
-----------------------------------------------------------------------------
(* DiscoveryThread.run starts a listener for each endpoint, in whatever    *)
(* order, but refuses socket and CoAP, and then the messenger.             *)

Waiting == {k \in Endpoints \cap _config.endpoint_list : listener[k].pc = "none"}

StartListener ==
  /\ pc["thread"] = "start"
  /\ \E k \in Waiting :
       /\ listener' = [listener EXCEPT ![k].pc = IF k = "mqtt" THEN plan.mqtt ELSE "running"]
       /\ listeners' = listeners \cup {k}
  /\ UNCHANGED pipevars
  /\ UNCHANGED <<plan, registry, todo, lock, proc, found, cloud, saver, mine>>

StartMessenger ==
  /\ pc["thread"] = "start"
  /\ Waiting = {}
  /\ reader' = "closed"
  /\ pc' = [pc EXCEPT !["thread"] = "get"]
  /\ UNCHANGED <<text, pipe, writer, queue, lost>>
  /\ UNCHANGED discvars
-----------------------------------------------------------------------------
(* Listeners.                                                              *)

(* What is written is JSON text: a message on a line of its own, junk, or  *)
(* a message in two parts, of which neither parses without the other.      *)
Mark(word) == <<[type |-> word, value |-> ""]>>
END == Mark("END")
Junk == Mark("junk")
Closing == Mark("closing")
Opening(payload) == Mark("opening") \o payload

(* json.loads of the lines joined.                                         *)
Parses(data) ==
  \/ Len(data) = 1 /\ data[1][1].type \notin {"junk", "opening", "closing"}
  \/ Len(data) = 2 /\ data[1][1].type = "opening" /\ data[2] = Closing
Payload(data) == IF Len(data) = 1 THEN data[1] ELSE Tail(data[1])

(* NamedPipeListener.run: the lines up to "END" are one message; when they *)
(* do not parse they stay, and the next message runs on from them.         *)
Messages(lines) ==
  FoldLeft(LAMBDA r, l :
             CASE l # END -> [r EXCEPT !.data = Append(@, l)]
               [] l = END /\ Parses(r.data) -> [data |-> <<>>, out |-> Append(r.out, Payload(r.data))]
               [] OTHER -> r,
           [data |-> <<>>, out |-> <<>>], lines).out

Spawn(payloads) ==
  /\ Len(proc) + Len(payloads) <= plan.messages
  /\ proc' = proc \o [i \in DOMAIN payloads |-> Fresh(payloads[i])]
  /\ mine' = mine \o [i \in DOMAIN payloads |-> {}]

(* The listener is in open when clean_up clears its flag, and takes what   *)
(* comes next before it looks at the flag.                                 *)
PipeHears(lines) ==
  /\ listener["pipe"].pc = "running"
  /\ Spawn(Messages(lines))
  /\ listener' = [listener EXCEPT !["pipe"].pc = IF listener["pipe"].flag_alive THEN @ ELSE "ended"]
  /\ UNCHANGED <<plan, registry, listeners, todo, lock, found, cloud, saver>>

(* MqttListener.callback_msg_proc: one message, one thread.                *)
MqttHears(payload) ==
  /\ listener["mqtt"].pc = "running"
  /\ Spawn(IF Parses(<<payload>>) THEN <<payload>> ELSE <<>>)
  /\ UNCHANGED <<plan, registry, listeners, listener, todo, lock, found, cloud, saver>>

(* MqttListener.run: without the edge system there is no connection; the   *)
(* attribute mqtt_conn is there once the connection is.                    *)
MqttRun ==
  /\ \/ /\ listener["mqtt"].pc = "new"
        /\ LET go == listener["mqtt"].flag_alive /\ plan.edge
           IN  listener' = [listener EXCEPT !["mqtt"].pc = IF go THEN "connecting" ELSE "ended"]
     \/ /\ listener["mqtt"].pc = "connecting"
        /\ \E next \in {"connected", "ended"} : listener' = [listener EXCEPT !["mqtt"].pc = next]
     \/ /\ listener["mqtt"].pc = "connected"
        /\ listener' = [listener EXCEPT !["mqtt"].pc = "running"]
  /\ UNCHANGED <<plan, registry, listeners, todo, lock, proc, found, cloud, saver, mine>>
-----------------------------------------------------------------------------
(* device_msg_process, run by thread m for one message: a sequence of      *)
(* items [type, value].                                                    *)

At(m, label) == proc[m].pc = label
Go(m, label) == proc' = [proc EXCEPT ![m].pc = label]
Device(m) == Head(proc[m].items).type
Pkg(m) == Head(proc[m].dccs)
NextDcc(m) == [proc[m] EXCEPT !.pc = "dcc", !.dccs = Tail(@)]

Refused(m) == {Device(m), Head(proc[m].items).value} \cap Unsafe # {}
Configured(m) == Device(m) \in DOMAIN _config.type_dcc_map \cap DOMAIN _config.type_key_map

(* An unsafe type ends the message, an unsafe value does when the type is  *)
(* configured; other types are passed over.                                *)
NextItem(m) ==
  /\ At(m, "item")
  /\ proc' = [proc EXCEPT ![m] =
                CASE @.items = <<>> -> [@ EXCEPT !.pc = "done"]
                  [] @.items # <<>> /\ Device(m) \in Unsafe -> [@ EXCEPT !.pc = "done"]
                  [] @.items # <<>> /\ Device(m) \notin Unsafe /\ ~Configured(m) -> [@ EXCEPT !.items = Tail(@)]
                  [] @.items # <<>> /\ Configured(m) /\ Refused(m) -> [@ EXCEPT !.pc = "done"]
                  [] OTHER -> [@ EXCEPT !.pc = "save"]]
  /\ UNCHANGED <<lock, found, cloud, saver, mine>>

_save_devinfo(m) ==
  /\ At(m, "save")
  /\ lock = 0
  /\ found' = [found EXCEPT ![Device(m)] = <<>>]
  /\ saver' = [saver EXCEPT ![Device(m)] = m]
  /\ mine' = [mine EXCEPT ![m] = {}]
  /\ proc' = [proc EXCEPT ![m].pc = "dcc", ![m].dccs = _config.type_dcc_map[Device(m)]]
  /\ UNCHANGED <<lock, cloud>>

(* reg_device: has, then get, which raises when the package went between.  *)
LookUp(m) ==
  /\ At(m, "dcc")
  /\ proc' = [proc EXCEPT ![m] =
                CASE @.dccs = <<>> -> [@ EXCEPT !.pc = "item", !.items = Tail(@)]
                  [] @.dccs # <<>> /\ Pkg(m) \notin registry -> NextDcc(m)
                  [] OTHER -> [@ EXCEPT !.pc = "get"]]
  /\ UNCHANGED <<lock, found, cloud, saver, mine>>

GetDcc(m) ==
  /\ At(m, "get")
  /\ Go(m, IF Pkg(m) \in registry THEN "register" ELSE "done")
  /\ UNCHANGED <<lock, found, cloud, saver, mine>>

(* register and set_properties, both with the lock held; whatever they     *)
(* raise leaves this DCC and goes on with the next one.                    *)
Acquire(m) ==
  /\ At(m, "register")
  /\ lock = 0
  /\ lock' = m
  /\ Go(m, "held")
  /\ UNCHANGED <<found, cloud, saver, mine>>

Register_continue(m) ==
  /\ At(m, "held")
  /\ \E done \in {{}, {"registered"}, {"registered", "properties"}} :
       /\ cloud' = [cloud EXCEPT ![<<Device(m), Pkg(m)>>] = @ \cup done]
       /\ IF "registered" \in done THEN Go(m, "relate") ELSE proc' = [proc EXCEPT ![m] = NextDcc(m)]
  /\ lock' = 0
  /\ UNCHANGED <<found, saver, mine>>

Register_leak(m) ==
  /\ At(m, "held")
  /\ \E done \in {{}, {"registered"}, {"registered", "properties"}} :
       /\ cloud' = [cloud EXCEPT ![<<Device(m), Pkg(m)>>] = @ \cup done]
       /\ IF "properties" \in done
          THEN lock' = 0 /\ Go(m, "relate")
          ELSE lock' = lock /\ proc' = [proc EXCEPT ![m] = NextDcc(m)]
  /\ UNCHANGED <<found, saver, mine>>

Register(m) ==
  /\ At(m, "held")
  /\ \E done \in {{}, {"registered"}, {"registered", "properties"}} :
       /\ cloud' = [cloud EXCEPT ![<<Device(m), Pkg(m)>>] = @ \cup done]
       /\ IF "properties" \in done THEN Go(m, "relate") ELSE proc' = [proc EXCEPT ![m] = NextDcc(m)]
  /\ lock' = 0
  /\ UNCHANGED <<found, saver, mine>>

(* create_relationship, outside the try: when it raises, the message ends. *)
Relate(m) ==
  /\ At(m, "relate")
  /\ \/ /\ Pkg(m) \in registry
        /\ \/ cloud' = [cloud EXCEPT ![<<Device(m), Pkg(m)>>] = @ \cup {"related"}] /\ Go(m, "update")
           \/ Go(m, "done") /\ UNCHANGED cloud
     \/ Pkg(m) \notin registry /\ Go(m, "update") /\ UNCHANGED cloud
  /\ UNCHANGED <<lock, found, saver, mine>>

update_devinfo_replace(m) ==
  /\ At(m, "update")
  /\ lock = 0
  /\ found' = [found EXCEPT ![Device(m)] = <<Pkg(m)>>]
  /\ mine' = [mine EXCEPT ![m] = @ \cup {Pkg(m)}]
  /\ proc' = [proc EXCEPT ![m] = NextDcc(m)]
  /\ UNCHANGED <<lock, cloud, saver>>

_update_devinfo(m) ==
  /\ At(m, "update")
  /\ lock = 0
  /\ found' = [found EXCEPT ![Device(m)] = Append(@, Pkg(m))]
  /\ mine' = [mine EXCEPT ![m] = @ \cup {Pkg(m)}]
  /\ proc' = [proc EXCEPT ![m] = NextDcc(m)]
  /\ UNCHANGED <<lock, cloud, saver>>

Process(m) ==
  /\ \/ NextItem(m) \/ _save_devinfo(m) \/ LookUp(m) \/ GetDcc(m)
     \/ Acquire(m) \/ Register(m) \/ Relate(m) \/ _update_devinfo(m)
  /\ UNCHANGED <<plan, registry, listeners, listener, todo>>
-----------------------------------------------------------------------------
(* The command thread.  list and stat wait for the lock.                   *)

Command ==
  /\ GetCommand
  /\ Head(queue) = "list" => lock = 0
  /\ UNCHANGED discvars

(* clean_up of the package dev_disc calls _terminate_all itself.           *)
UnloadDiscovery ==
  /\ plan.unload
  /\ pc["unload"] = "get"
  /\ Terminate("unload")
  /\ UNCHANGED <<reader, text, pipe, writer, queue, lost>>
  /\ UNCHANGED discvars

(* _terminate_all walks a copy of _listeners.  clean_up of the MQTT        *)
(* listener needs mqtt_conn, and disconnecting may fail; del raises when   *)
(* somebody else has cleaned up the same listener.                         *)
CopyListeners(p) ==
  /\ pc[p] = "clean_up"
  /\ pc' = [pc EXCEPT ![p] = "listeners"]
  /\ todo' = [todo EXCEPT ![p] = listeners]
  /\ UNCHANGED <<reader, text, pipe, writer, queue, lost>>
  /\ UNCHANGED <<plan, registry, listeners, listener, lock, proc, found, cloud, saver, mine>>

CleanUpListener(p, k) ==
  /\ pc[p] = "listeners"
  /\ k \in todo[p]
  /\ \E disconnects \in IF k = "pipe" THEN {TRUE}
                        ELSE IF listener[k].pc \in {"connected", "running", "stopped"} THEN BOOLEAN
                        ELSE {FALSE} :
       /\ listener' = [listener EXCEPT ![k].flag_alive = FALSE,
                                       ![k].pc = IF k = "mqtt" /\ disconnects THEN "stopped" ELSE @]
       /\ pc' = [pc EXCEPT ![p] = IF disconnects /\ k \in listeners THEN @ ELSE "crashed"]
       /\ listeners' = IF disconnects THEN listeners \ {k} ELSE listeners
  /\ todo' = [todo EXCEPT ![p] = @ \ {k}]
  /\ UNCHANGED <<reader, text, pipe, writer, queue, lost>>
  /\ UNCHANGED <<plan, registry, lock, proc, found, cloud, saver, mine>>

Terminated(p) ==
  /\ pc[p] = "listeners"
  /\ todo[p] = {}
  /\ pc' = [pc EXCEPT ![p] = "done"]
  /\ UNCHANGED <<reader, text, pipe, writer, queue, lost>>
  /\ UNCHANGED discvars

(* The package thread loads and unloads DCC packages.                      *)
Churn ==
  /\ plan.churn
  /\ \E d \in Dcc : registry' = IF d \in registry THEN registry \ {d} ELSE registry \cup {d}
  /\ UNCHANGED <<plan, listeners, listener, todo, lock, proc, found, cloud, saver, mine>>
-----------------------------------------------------------------------------
(* Composition: a beacon of a simulator, and what a device sends.          *)

Beacon(k) ==
  /\ SimSend(k)
  /\ LET sent == sim'[k].pc = "loop"
     IN  CASE sent /\ k = "pipe" /\ listener[k].pc = "running" -> PipeHears(<<plan.beacon, END>>)
           [] sent /\ k = "mqtt" /\ listener[k].pc = "running" -> MqttHears(plan.beacon)
           [] OTHER -> UNCHANGED discvars

(* readlines goes on until the last writer closes the pipe: what devices   *)
(* write meanwhile is read as one text.                                    *)
DeviceSends ==
  \E x \in plan.devices :
    \/ x.to = "mqtt" /\ MqttHears(x.lines[1])
    \/ x.to = "pipe" /\ PipeHears(x.lines)
    \/ \E y \in plan.devices : x.to = "pipe" /\ y.to = "pipe" /\ PipeHears(x.lines \o y.lines)

SimStep(k) ==
  /\ \/ (SimLoop(k) \/ SimWake(k)) /\ UNCHANGED discvars
     \/ Beacon(k)
  /\ UNCHANGED pipevars
ProcessStep(m) == Process(m) /\ UNCHANGED <<pipevars, simvars>>
Stopping(p) ==
  /\ \/ StopStep(p) /\ UNCHANGED discvars
     \/ CopyListeners(p) \/ (\E k \in Endpoints : CleanUpListener(p, k)) \/ Terminated(p)
  /\ UNCHANGED simvars

DiscNext ==
  \/ (StartListener \/ StartMessenger) /\ UNCHANGED simvars
  \/ MessengerStep /\ UNCHANGED <<simvars, discvars>>
  \/ \E s \in plan.scripts : (ScriptOpen(s) \/ ScriptWrite(s)) /\ UNCHANGED <<simvars, discvars>>
  \/ plan.interrupt /\ Interrupt /\ UNCHANGED <<simvars, discvars>>
  \/ Command /\ UNCHANGED simvars
  \/ UnloadDiscovery /\ UNCHANGED simvars
  \/ \E p \in Stoppers : Stopping(p)
  \/ \E k \in Endpoints : SimStep(k)
  \/ \E k \in Endpoints : SimCleanUp(k) /\ UNCHANGED <<pipevars, discvars>>
  \/ MqttRun /\ UNCHANGED <<pipevars, simvars>>
  \/ DeviceSends /\ UNCHANGED <<pipevars, simvars>>
  \/ Churn /\ UNCHANGED <<pipevars, simvars>>
  \/ \E m \in DOMAIN proc : ProcessStep(m)

DiscSpec == DiscInit /\ [][DiscNext]_vars

(* Threads run on; the calls into a DCC end (IoTCC, CallsEnd); a script    *)
(* that opened the pipe closes it.                                         *)
DiscFairSpec ==
  /\ DiscSpec
  /\ WF_vars((StartListener \/ StartMessenger) /\ UNCHANGED simvars)
  /\ WF_vars(MessengerStep /\ UNCHANGED <<simvars, discvars>>)
  /\ \A s \in Scripts : WF_vars(ScriptWrite(s) /\ UNCHANGED <<simvars, discvars>>)
  /\ \A p \in Stoppers : WF_vars(Stopping(p))
  /\ \A m \in 1..MaxMessages : WF_vars(m \in DOMAIN proc /\ ProcessStep(m))
-----------------------------------------------------------------------------
(* A device is on record for a DCC only when the DCC has it with its       *)
(* properties, however the calls of several messages failed.               *)
RecordedIsComplete ==
  \A d \in Types : \A c \in Range(found[d]) : {"registered", "properties"} \subseteq cloud[<<d, c>>]

(* The record of a device holds all that the message that reset it last    *)
(* has registered since: no concurrent message takes an entry away without *)
(* having reset the record itself.                                         *)
NoRecordLost == \A d \in Types : saver[d] # 0 => mine[saver[d]] \subseteq Range(found[d])

(* The thread of every message ends: nobody waits for ever for the lock,   *)
(* whatever the DCCs and their calls do.  It may end before every DCC had  *)
(* its turn: a failing register or set_properties is passed over, but a    *)
(* package that goes between has and get, or a create_relationship that    *)
(* raises, ends the message.                                               *)
MessagesEnd == \A m \in 1..MaxMessages : m \in DOMAIN proc ~> m \in DOMAIN proc /\ proc[m].pc = "done"

=============================================================================
