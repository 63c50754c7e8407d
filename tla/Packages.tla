------------------------------ MODULE Packages -------------------------------
(***************************************************************************)
(* The scripts of module Scripts, executed: the PackageThread loads and    *)
(* unloads packages with their dependencies, run() and clean_up() call the *)
(* data centers, whose answers may not come, and the SendThread goes on    *)
(* publishing what is collected.  The commands, the start-up list and the  *)
(* versions of a package are the subject of PackageManager; here a package *)
(* is what its code does.                                                  *)
(***************************************************************************)
EXTENDS Scripts, FiniteSets

CONSTANTS
    Dirs,               \* package directories: the script of each file
    Plans               \* [dir, commands, unregister]: what is done with them

VARIABLES
    plan,               \* the plan of this behaviour, and its commands left
    stack,              \* frames of _package_load, _package_unload and run()
    loaded,             \* _packages_loaded: the object of each loaded package
    dependents,         \* _dependents of its record, by package name
    registry,           \* [name, owner, obj, conn] of ResourceRegistry
    objs,               \* the PackageClass objects made so far
    conns,              \* connections made so far: the object of each
    open,               \* connections that are open
    collecting,         \* metrics with flag_alive set: [obj, metric, conn]
    cloud,              \* entities IoTCC knows
    sending,            \* the metric the SendThread is publishing, in a set
    late                \* messages on closed connections: a bag of [conn, broken]

vars == <<plan, stack, loaded, dependents, registry, objs, conns, open,
          collecting, cloud, sending, late>>

Files == Dirs[plan.dir]
Top == stack[Len(stack)]
Me == objs[Top.obj]

\* the object on top of the stack, and its next step
At(mode) == stack # <<>> /\ Top.mode = mode
Running == stack # <<>> /\ Top.mode \in {"run", "rescue", "clean"}
More == Top.code # <<>>
Now == Head(Top.code)

\* code: the dependencies or the steps that are left
Frame(p, mode, code) == [pkg |-> p, obj |-> 0, mode |-> mode, code |-> code, tries |-> 0]
LoadFrame(p) == Frame(p, "deps", IF p \in DOMAIN Files THEN Files[p].deps ELSE <<>>)
UnloadFrame(p) == Frame(p, "unload", <<>>)
SetTop(f) == stack' = [stack EXCEPT ![Len(stack)] = f]
Return == stack' = Front(stack)
SetMe(o) == objs' = [objs EXCEPT ![Top.obj] = o]
Advance == SetTop([Top EXCEPT !.code = Tail(@), !.tries = 0])

(***************************************************************************)
(* Initially only package_conf is registered (package_manager.py 348).     *)
(***************************************************************************)
Init ==
    /\ plan \in Plans
    /\ stack = <<>>
    /\ loaded = <<>>
    /\ dependents = [p \in DOMAIN Files |-> {}]
    /\ registry = {[name |-> "package_conf", owner |-> "", obj |-> 0, conn |-> 0]}
    /\ objs = <<>>
    /\ conns = <<>>
    /\ open = {}
    /\ collecting = {}
    /\ cloud = {}
    /\ sending = {}
    /\ late = EmptyBag

(***************************************************************************)
(* The PackageThread takes a command; a program starts its main part.      *)
(***************************************************************************)
TakeCommand ==
    /\ stack = <<>>
    /\ plan.commands # <<>>
    /\ LET c == Head(plan.commands) IN
        /\ plan' = [plan EXCEPT !.commands = Tail(@)]
        /\ stack' = IF (c.op = "load") = (c.pkg \notin DOMAIN loaded)
                      THEN <<IF c.op = "load" THEN LoadFrame(c.pkg) ELSE UnloadFrame(c.pkg)>>
                      ELSE <<>>
    /\ UNCHANGED <<loaded, dependents, registry, objs, conns, open, collecting,
                   cloud, sending, late>>

\* _package_load: the next dependency, loaded first if it is not there
LoadDependency ==
    /\ At("deps")
    /\ More
    /\ LET d == Now IN
        \/ /\ d \in DOMAIN loaded
           /\ dependents' = [dependents EXCEPT ![d] = @ \cup {Top.pkg}]
           /\ Advance
        \/ /\ d \notin DOMAIN loaded
           /\ Top.tries = 0
           /\ stack' = Append([stack EXCEPT ![Len(stack)].tries = 1], LoadFrame(d))
           /\ UNCHANGED dependents
        \/ /\ d \notin DOMAIN loaded      \* "failed to load"
           /\ Top.tries = 1
           /\ Return
           /\ UNCHANGED dependents
    /\ UNCHANGED <<plan, loaded, registry, objs, conns, open, collecting, cloud,
                   sending, late>>

\* there is no such file in the package directory
NoSuchFile ==
    /\ At("deps")
    /\ Top.pkg \notin DOMAIN Files
    /\ Return
    /\ UNCHANGED <<plan, loaded, dependents, registry, objs, conns, open,
                   collecting, cloud, sending, late>>

\* klass(), and run() begins
MakeInstance ==
    /\ At("deps")
    /\ Top.pkg \in DOMAIN Files
    /\ ~More
    /\ objs' = Append(objs, [pkg |-> Top.pkg, conn |-> 0, dcc |-> 0, entities |-> {},
                             metrics |-> {}, devices |-> <<>>, deaf |-> FALSE,
                             rescue |-> Files[Top.pkg].rescue, state |-> "running"])
    /\ SetTop([Frame(Top.pkg, "run", Files[Top.pkg].run) EXCEPT !.obj = Len(objs) + 1])
    /\ UNCHANGED <<plan, loaded, dependents, registry, conns, open, collecting,
                   cloud, sending, late>>

\* run() has returned
FinishRun ==
    /\ At("run")
    /\ ~More
    /\ SetMe([Me EXCEPT !.state = IF Files[Top.pkg].program THEN "ended" ELSE "loaded"])
    /\ loaded' = IF Files[Top.pkg].program THEN loaded ELSE (Top.pkg :> Top.obj) @@ loaded
    /\ Return
    /\ UNCHANGED <<plan, dependents, registry, conns, open, collecting, cloud,
                   sending, late>>

(***************************************************************************)
(* An exception: try again, go on, skip to the end of the try statement,   *)
(* run the handler of run(), or leave.                                     *)
(***************************************************************************)
Leave ==
    \/ /\ Top.mode = "run"
       /\ Me.rescue # <<>>
       /\ SetTop([Top EXCEPT !.mode = "rescue", !.code = Me.rescue, !.tries = 0])
       /\ UNCHANGED objs
    \/ /\ Top.mode = "rescue" \/ (Top.mode = "run" /\ Me.rescue = <<>>)
       /\ SetMe([Me EXCEPT !.state = "failed"])
       /\ Return
    \/ /\ Top.mode = "clean"
       /\ SetMe([Me EXCEPT !.state = "unclean"])
       /\ SetTop([Top EXCEPT !.code = <<>>])

Raise(exception) ==
    \/ /\ Top.tries < Now.retries
       /\ SetTop([Top EXCEPT !.tries = @ + 1])
       /\ UNCHANGED objs
    \/ /\ Top.tries = Now.retries
       /\ Now.giveUp
       /\ Advance
       /\ UNCHANGED objs
    \/ /\ Top.tries = Now.retries
       /\ ~Now.giveUp
       /\ exception \in Now.catch
       /\ SetTop([Top EXCEPT !.code = SubSeq(@, Now.skip + 1, Len(@)), !.tries = 0])
       /\ UNCHANGED objs
    \/ /\ Top.tries = Now.retries
       /\ ~Now.giveUp
       /\ exception \notin Now.catch
       /\ Leave

\* the call fails, for a reason outside the program
Fails == \E x \in Now.fails : Raise(x)

(***************************************************************************)
(* The steps of run().                                                     *)
(***************************************************************************)
Doing(op) == Running /\ More /\ Now.op = op

\* registry.get(): a KeyError if nothing has that name
GetResource ==
    /\ Doing("get")
    /\ \/ \E e \in registry :
            /\ e.name = Now.what
            /\ SetMe([Me EXCEPT !.dcc = IF e.conn # 0 THEN e.conn ELSE @])
            /\ Advance
       \/ /\ \A e \in registry : e.name # Now.what
          /\ Raise("Exception")
    /\ UNCHANGED <<plan, loaded, dependents, registry, conns, open, collecting,
                   cloud, sending, late>>

\* registry.register(): a KeyError if the name is taken
ProvideResource ==
    /\ Doing("provide")
    /\ \/ /\ \A e \in registry : e.name # Now.what
          /\ registry' = registry \cup {[name |-> Now.what, owner |-> Top.pkg,
                                        obj |-> Top.obj, conn |-> Me.conn]}
          /\ Advance
          /\ UNCHANGED objs
       \/ /\ \E e \in registry : e.name = Now.what
          /\ Raise("Exception")
          /\ UNCHANGED registry
    /\ UNCHANGED <<plan, loaded, dependents, conns, open, collecting, cloud,
                   sending, late>>

MakeConnection ==
    /\ Doing("connect")
    /\ \/ /\ conns' = Append(conns, Top.obj)
          /\ open' = open \cup {Len(conns) + 1}
          /\ SetMe([Me EXCEPT !.conn = Len(conns) + 1, !.dcc = Len(conns) + 1])
          /\ Advance
       \/ Fails /\ UNCHANGED <<conns, open>>
    /\ UNCHANGED <<plan, loaded, dependents, registry, collecting, cloud,
                   sending, late>>

\* register() of an entity; a lost answer leaves it registered
RegisterEntity ==
    /\ Doing("register")
    /\ \/ /\ cloud' = cloud \cup {<<Top.pkg, Now.what>>}
          /\ SetMe([Me EXCEPT !.entities = @ \cup {Now.what}])
          /\ Advance
       \/ /\ Fails
          /\ cloud' \in {cloud, cloud \cup {<<Top.pkg, Now.what>>}}
    /\ UNCHANGED <<plan, loaded, dependents, registry, conns, open, collecting,
                   sending, late>>

\* create_relationship() or set_properties(): an AttributeError if the entity
\* was not registered
UseEntity ==
    /\ Doing("use")
    /\ \/ Now.what \in Me.entities /\ Advance /\ UNCHANGED objs
       \/ Now.what \in Me.entities /\ Fails
       \/ Now.what \notin Me.entities /\ Raise("Exception")
    /\ UNCHANGED <<plan, loaded, dependents, registry, conns, open, collecting,
                   cloud, sending, late>>

CallOut ==
    /\ Doing("call")
    /\ \/ Advance /\ UNCHANGED objs
       \/ Fails
    /\ UNCHANGED <<plan, loaded, dependents, registry, conns, open, collecting,
                   cloud, sending, late>>

\* Changed: only the last device is kept.
RememberLast ==
    /\ Doing("remember")
    /\ SetMe([Me EXCEPT !.devices = <<Now.what>>])
    /\ Advance
    /\ UNCHANGED <<plan, loaded, dependents, registry, conns, open, collecting,
                   cloud, sending, late>>

\* self.reg_devices.append()
RememberDevice ==
    /\ Doing("remember")
    /\ SetMe([Me EXCEPT !.devices = Append(@, Now.what)])
    /\ Advance
    /\ UNCHANGED <<plan, loaded, dependents, registry, conns, open, collecting,
                   cloud, sending, late>>

ThisMetric == [obj |-> Top.obj, metric |-> Now.what, conn |-> Me.dcc]

StartCollecting ==
    /\ Doing("start")
    /\ collecting' = collecting \cup {ThisMetric}
    /\ Advance
    /\ UNCHANGED <<plan, loaded, dependents, registry, objs, conns, open, cloud,
                   sending, late>>

AppendMetric ==
    /\ Doing("append")
    /\ SetMe([Me EXCEPT !.metrics = @ \cup {ThisMetric}])
    /\ Advance
    /\ UNCHANGED <<plan, loaded, dependents, registry, conns, open, collecting,
                   cloud, sending, late>>

(***************************************************************************)
(* The steps of clean_up() and of the handler of run().                    *)
(***************************************************************************)
StopCollecting ==
    /\ Doing("stop")
    /\ collecting' = collecting \ Me.metrics
    /\ Advance
    /\ UNCHANGED <<plan, loaded, dependents, registry, objs, conns, open, cloud,
                   sending, late>>

UnregisterEntity ==
    /\ Doing("unregister") \/ (Doing("unregisterIfConfigured") /\ plan.unregister)
    /\ \/ cloud' = cloud \ {<<Top.pkg, Now.what>>} /\ Advance /\ UNCHANGED objs
       \/ Fails /\ cloud' \in {cloud, cloud \ {<<Top.pkg, Now.what>>}}
    /\ UNCHANGED <<plan, loaded, dependents, registry, conns, open, collecting,
                   sending, late>>

NotConfigured ==
    /\ Doing("unregisterIfConfigured")
    /\ ~plan.unregister
    /\ Advance
    /\ UNCHANGED <<plan, loaded, dependents, registry, objs, conns, open,
                   collecting, cloud, sending, late>>

\* for device in self.reg_devices: unregister(device)
UnregisterNext ==
    /\ Doing("unregisterDevices")
    /\ \/ Me.devices = <<>> /\ Advance /\ UNCHANGED <<objs, cloud>>
       \/ /\ Me.devices # <<>>
          /\ cloud' = cloud \ {<<Top.pkg, Head(Me.devices)>>}
          /\ SetMe([Me EXCEPT !.devices = Tail(@)])
          /\ UNCHANGED stack
       \/ /\ Me.devices # <<>>
          /\ Fails
          /\ cloud' \in {cloud, cloud \ {<<Top.pkg, Head(Me.devices)>>}}
    /\ UNCHANGED <<plan, loaded, dependents, registry, conns, open, collecting,
                   sending, late>>

\* client.close() or client.disconnect(): an AttributeError if there is no
\* connection, a timeout if its network thread has ended
CloseConnection ==
    /\ Doing("close")
    /\ \/ /\ Me.conn # 0 /\ ~Me.deaf
          /\ open' = open \ {Me.conn}
          /\ Advance
          /\ UNCHANGED objs
       \/ /\ Me.conn # 0 /\ ~Me.deaf
          /\ Fails
          /\ open' \in {open, open \ {Me.conn}}
       \/ (Me.conn = 0 \/ Me.deaf) /\ Raise("Exception") /\ UNCHANGED open
    /\ UNCHANGED <<plan, loaded, dependents, registry, conns, collecting, cloud,
                   sending, late>>

\* the handler of run() passes the exception on
PassOn ==
    /\ At("rescue")
    /\ ~More
    /\ SetMe([Me EXCEPT !.state = "released"])
    /\ Return
    /\ UNCHANGED <<plan, loaded, dependents, registry, conns, open, collecting,
                   cloud, sending, late>>

(***************************************************************************)
(* _package_unload: the dependents first, then the resources, clean_up(),  *)
(* and the record, whatever clean_up() does.                               *)
(***************************************************************************)
UnloadDependent ==
    /\ At("unload")
    /\ \E d \in dependents[Top.pkg] \cap DOMAIN loaded :
          stack' = Append(stack, UnloadFrame(d))
    /\ UNCHANGED <<plan, loaded, dependents, registry, objs, conns, open,
                   collecting, cloud, sending, late>>

\* Changed: without waiting for the dependents.
DeregisterAtOnce ==
    /\ At("unload")
    /\ registry' = {e \in registry : e.owner # Top.pkg}
    /\ SetTop([Top EXCEPT !.mode = "clean", !.code = Files[Top.pkg].clean,
                        !.obj = loaded[Top.pkg]])
    /\ UNCHANGED <<plan, loaded, dependents, objs, conns, open, collecting,
                   cloud, sending, late>>

Deregister ==
    /\ At("unload")
    /\ dependents[Top.pkg] \cap DOMAIN loaded = {}
    /\ registry' = {e \in registry : e.owner # Top.pkg}
    /\ SetTop([Top EXCEPT !.mode = "clean", !.code = Files[Top.pkg].clean,
                        !.obj = loaded[Top.pkg]])
    /\ UNCHANGED <<plan, loaded, dependents, objs, conns, open, collecting,
                   cloud, sending, late>>

FinishUnload ==
    /\ At("clean")
    /\ ~More
    /\ SetMe([Me EXCEPT !.state = IF @ = "unclean" THEN @ ELSE "unloaded"])
    /\ dependents' = [p \in DOMAIN dependents |->
                        IF p \in Range(Files[Top.pkg].deps) THEN dependents[p] \ {Top.pkg}
                        ELSE IF p = Top.pkg THEN {} ELSE dependents[p]]
    /\ loaded' = Restrict(loaded, DOMAIN loaded \ {Top.pkg})
    /\ Return
    /\ UNCHANGED <<plan, registry, conns, open, collecting, cloud, sending, late>>

PackageThread ==
    \/ TakeCommand \/ LoadDependency \/ NoSuchFile \/ MakeInstance \/ FinishRun
    \/ GetResource \/ ProvideResource \/ MakeConnection \/ RegisterEntity
    \/ UseEntity \/ CallOut \/ RememberDevice \/ StartCollecting \/ AppendMetric
    \/ StopCollecting \/ UnregisterEntity \/ NotConfigured \/ UnregisterNext
    \/ CloseConnection \/ PassOn \/ UnloadDependent \/ Deregister \/ FinishUnload

(***************************************************************************)
(* The SendThread: it checks flag_alive, and then publishes.               *)
(***************************************************************************)
\* Changed: without the check of flag_alive.
SenderTakeAny ==
    /\ sending = {}
    /\ \E n \in DOMAIN objs : \E m \in objs[n].metrics : sending' = {m}
    /\ UNCHANGED <<plan, stack, loaded, dependents, registry, objs, conns, open,
                   collecting, cloud, late>>

SenderTake ==
    /\ sending = {}
    /\ \E m \in collecting : sending' = {m}
    /\ UNCHANGED <<plan, stack, loaded, dependents, registry, objs, conns, open,
                   collecting, cloud, late>>

Broken(m) == objs[m.obj].state \in {"failed", "unclean"}

\* Of late messages of a kind, no more than this many are counted.
MaxLate == 2

SenderSend ==
    /\ \E m \in sending :
          LET x == [conn |-> m.conn, broken |-> Broken(m)] IN
          late' = IF m.conn \in open \/ CopiesIn(x, late) = MaxLate
                    THEN late ELSE late (+) SetToBag({x})
    /\ sending' = {}
    /\ UNCHANGED <<plan, stack, loaded, dependents, registry, objs, conns, open,
                   collecting, cloud>>

Kura == "examples/kura/kura_integrate_iotcc"

\* Any message on the broker: sub_callback raises a TypeError, which ends the
\* network thread of the connection.
KuraMessage ==
    /\ \E n \in DOMAIN objs :
          /\ objs[n].pkg = Kura
          /\ objs[n].state = "loaded"
          /\ objs[n].conn \in open
          /\ ~objs[n].deaf
          /\ objs' = [objs EXCEPT ![n].deaf = TRUE]
    /\ UNCHANGED <<plan, stack, loaded, dependents, registry, conns, open,
                   collecting, cloud, sending, late>>

Next == PackageThread \/ SenderTake \/ SenderSend \/ KuraMessage

Spec == Init /\ [][Next]_vars

-----------------------------------------------------------------------------
State(n) == objs[n].state

\* After a package is unloaded none of its metrics is collected, even if
\* clean_up() raised, except where clean_up() reads the configuration file
\* before it stops the metrics (examples/iotcc_bike_simulated.py 191,
\* examples/iotcc_thermistor_simulated.py 151).
NoOrphanMetrics ==
    \A m \in collecting :
        \/ State(m.obj) \in {"running", "loaded", "ended", "failed"}
        \/ /\ State(m.obj) = "unclean"
           /\ Files[objs[m.obj].pkg].clean[1] = ReadFile

\* A metric that is collected has an open connection to its data center, unless
\* run() or clean_up() of its own package failed: the packages of a data center
\* are closed after everything that publishes through them has been stopped.
LiveHasConnection ==
    \A m \in collecting : m.conn \in open \/ Broken(m)

\* stop_collecting() does not wait for the SendThread, so one message may still
\* be published on a connection that clean_up() has closed; never a second one,
\* except by a package whose own run() or clean_up() raised before it stopped its
\* metrics: nothing ever stops these, and they publish on it again and again
\* (examples/iotcc_bike_simulated.py 191, user_packages/iotcc_mqtt_device.py 106).
OneLateSend ==
    \A c \in DOMAIN conns : CopiesIn([conn |-> c, broken |-> FALSE], late) <= 1

\* Entities that a package registers and its clean_up() unregisters are gone from
\* IoTCC when every run() and clean_up() of it went through.
Unregisters(p) ==
    \E s \in Range(Files[p].clean) :
        \/ s.op \in {"unregister", "unregisterDevices"}
        \/ s.op = "unregisterIfConfigured" /\ plan.unregister
EntitiesGone ==
    \A x \in cloud : Unregisters(x[1]) =>
        \E n \in DOMAIN objs : objs[n].pkg = x[1] /\ State(n) # "unloaded"

=============================================================================
