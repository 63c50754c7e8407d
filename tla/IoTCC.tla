-------------------------------- MODULE IoTCC --------------------------------
(***************************************************************************)
(* IotControlCenter of dccs/iotcc.py: threads that register entities, set  *)
(* their properties, relate and unregister them, each by a request that a  *)
(* dispatcher thread matches with its answer by transaction id; the local  *)
(* records (iotcc.json, the entity files, the device files) that they keep *)
(* and the control center at the other end, which may answer late, twice   *)
(* or never.                                                               *)
(*                                                                         *)
(* frames[t] is the call stack of thread t, innermost first: register may  *)
(* call set_properties, and both may call get_properties.  An exception    *)
(* that leaves one of them leaves them all.                                *)
(***************************************************************************)
EXTENDS Naturals, Sequences, FiniteSets

CONSTANTS
  Threads,
  Entities,         \* also their uuids: the control center gives each its own
  Gateway,          \* the entity of type HelixGateway
  IdSpace,          \* 0xffffff + 1
  None,
  Registered,       \* entities registered before (the edge system, by its package)
  Plans,            \* what the threads call and what liota.conf says (see plan, conf)
  MaxFaults         \* bound on restarts and requests that are not answered once

ASSUME IoTCCAssumption ==
  /\ Gateway \in Entities
  /\ None \notin Entities \cup Threads
  /\ Registered \subseteq Entities
  /\ IdSpace \in Nat \ {0}
  /\ MaxFaults \in Nat
  /\ \A p \in Plans : p.calls \in
       [Threads -> Seq({"register", "unregister", "create_relationship", "set_properties"} \X Entities)]

VARIABLES
  counter,          \* self.counter
  pc, frames,       \* of each thread
  old,              \* what it read of the counter
  calls,            \* the requests made so far, each with its queue
  req_dict,         \* _req_dict: transaction id -> index in calls, or 0
  wire,             \* requests that the control center has not handled
  recv_msg_queue,
  disp,             \* the dispatcher's [msg, req] between its get and its del
  reg_entity_id,    \* self.reg_entity_id, shared by the callers of register
  file_ops_lock,
  files,            \* entity_file_path/<uuid>.json
  devfile,          \* dev_file_path/<uuid>.json: whether it says remove
  edge,             \* uuid under "EdgeSystem" in iotcc.json
  reg,              \* reg_entity_id of the RegisteredEntity last returned
  plan,             \* [Threads -> Seq of <<op, entity>>]: calls that are still to be made
  conf,             \* [system_properties, enable_reboot_getprop] of liota.conf
  epoch,            \* counts restarts
  history           \* see Init

threads == <<pc, frames, old>>
requests == <<calls, req_dict>>
net == <<wire, recv_msg_queue, disp>>
records == <<files, devfile, edge, reg>>
program == <<plan, conf, epoch>>
vars == <<counter, threads, requests, net, reg_entity_id, file_ops_lock, records, program, history>>

Top(t) == frames[t][1]
Registering(t) == \E i \in DOMAIN frames[t] : frames[t][i].op = "register"

NoFile == [name |-> None, props |-> {}, fresh |-> FALSE]
Broken == [name |-> "empty file", props |-> {}, fresh |-> FALSE]

(* uuid: the entity's, once known; ret: its return is that of register;    *)
(* seen: answers taken from the queue; dict: what the entity file is to be *)
Frame(op, e, u, ps, ret) ==
  [op |-> op, ent |-> e, uuid |-> u, props |-> ps, ret |-> ret, call |-> 0, seen |-> 0,
   dict |-> NoFile]

Init ==
  /\ counter = 0
  /\ pc = [t \in Threads |-> "idle"]
  /\ frames = [t \in Threads |-> <<>>]
  /\ old = [t \in Threads |-> 0]
  /\ calls = <<>>
  /\ req_dict = [i \in 0..(IdSpace - 1) |-> 0]
  /\ wire = {}
  /\ recv_msg_queue = <<>>
  /\ disp = None
  /\ reg_entity_id = None
  /\ file_ops_lock = None
  /\ files = [u \in Entities |-> IF u \in Registered
                                 THEN [name |-> u, props |-> {}, fresh |-> TRUE] ELSE NoFile]
  /\ devfile = [u \in Entities |-> IF u \in Registered THEN "present" ELSE "none"]
  /\ edge = IF Gateway \in Registered THEN Gateway ELSE "blank"
  /\ reg = [e \in Entities |-> IF e \in Registered THEN e ELSE None]
  /\ \E p \in Plans : plan = p.calls /\ conf = p.conf
  /\ epoch = 0
  /\ history = [raced |-> FALSE,      \* two threads were inside _next_id at once
                overlapped |-> FALSE, \* two calls of register were in progress at once
                mixed |-> FALSE,      \* a register used another entity's uuid
                kept |-> {},          \* [ent, uuid, props] that set_properties wrote
                unwritten |-> {}]     \* the uuids whose file a call failed to write
-----------------------------------------------------------------------------
(* The callers.                                                            *)

Goto(t, label) == pc' = [pc EXCEPT ![t] = label]

Push(t, f) ==
  /\ frames' = [frames EXCEPT ![t] = <<f>> \o @]
  /\ Goto(t, "next_id")

(* The call is over: returned, or left by an exception, which also leaves  *)
(* the with statement that holds the lock.                                 *)
Leave(t) ==
  /\ Goto(t, "idle")
  /\ frames' = [frames EXCEPT ![t] = <<>>]
  /\ file_ops_lock' = IF file_ops_lock = t THEN None ELSE file_ops_lock

Start(t, f) ==
  /\ pc[t] = "idle"
  /\ plan' = [plan EXCEPT ![t] = Tail(@)]
  /\ Push(t, f)
  /\ history' = [history EXCEPT !.overlapped =
       @ \/ (f.op = "register" /\ \E u \in Threads \ {t} : Registering(u))]
  /\ UNCHANGED <<counter, old, requests, net, reg_entity_id, file_ops_lock, records, conf, epoch>>

register(t, e) == Start(t, Frame("register", e, None, {}, FALSE))

unregister(t, e) ==
  /\ reg[e] # None
  /\ Start(t, Frame("unregister", e, reg[e], {}, FALSE))

(* publish_unit: the unit of a metric becomes a property of its parent.    *)
publish_unit(t, e) == Start(t, Frame("set_properties", e, reg[e], {"unit"}, FALSE))

(* The child is a device, or a metric, for which only a unit is sent.      *)
create_relationship(t, e) ==
  /\ reg[e] # None
  /\ \/ e # Gateway /\ reg[Gateway] # None /\ Start(t, Frame("relate", e, reg[e], {}, FALSE))
     \/ publish_unit(t, e)

set_properties(t, e) ==
  /\ reg[e] # None
  /\ Start(t, Frame("set_properties", e, reg[e], {"prop"}, FALSE))

(* _next_id: the counter is read, written and read again (in Ask).         *)
next_id_read(t) ==
  /\ pc[t] = "next_id"
  /\ old' = [old EXCEPT ![t] = counter]
  /\ Goto(t, "incr")
  /\ history' = [history EXCEPT !.raced =
       @ \/ \E u \in Threads \ {t} : pc[u] \in {"incr", "double"}]
  /\ UNCHANGED <<counter, frames, requests, net, reg_entity_id, file_ops_lock, records, program>>

(* Mutant: the counter is not incremented.                                 *)
next_id_write_twice(t) ==
  /\ pc[t] = "incr"
  /\ counter' = IF old[t] = 1 THEN 1 ELSE (old[t] + 1) % IdSpace
  /\ old' = [old EXCEPT ![t] = 0]
  /\ Goto(t, "double")
  /\ UNCHANGED <<frames, requests, net, reg_entity_id, file_ops_lock, records, program, history>>

next_id_write(t) ==
  /\ pc[t] = "incr"
  /\ counter' = (old[t] + 1) % IdSpace
  /\ old' = [old EXCEPT ![t] = 0]
  /\ Goto(t, "double")
  /\ UNCHANGED <<frames, requests, net, reg_entity_id, file_ops_lock, records, program, history>>

(* What can become of a request, some of it at most MaxFaults times.      *)
Accepted == {"answered", "answered twice", "answer lost"}
Faults == (Accepted \cup {"refused", "version", "unsent", "restart"}) \ {"answered"}

Fault(how) ==
  how \in Faults => epoch + Cardinality({c \in DOMAIN calls : calls[c].fate \in Faults}) < MaxFaults

(* _req_dict.update, then comms.send, which may raise, as may the checks   *)
(* on the properties before it.  An id is modelled by its half.            *)
Ask(t, sent) ==
  /\ pc[t] = "double"
  /\ sent \/ Fault("unsent")
  /\ calls' = Append(calls, [op |-> Top(t).op, ent |-> Top(t).ent, props |-> Top(t).props,
                             id |-> counter, epoch |-> epoch, got |-> <<>>,
                             fate |-> IF sent THEN "none" ELSE "unsent"])
  /\ req_dict' = [req_dict EXCEPT ![counter] = Len(calls) + 1]
  /\ IF sent
     THEN /\ wire' = wire \cup {Len(calls) + 1}
          /\ Goto(t, "wait")
          /\ frames' = [frames EXCEPT ![t][1].call = Len(calls) + 1]
          /\ UNCHANGED file_ops_lock
     ELSE Leave(t) /\ UNCHANGED wire
  /\ UNCHANGED <<counter, old, recv_msg_queue, disp, reg_entity_id, records, program, history>>

(* Mutant: the second wait has no timeout.                                 *)
Timeout_first(t) ==
  /\ pc[t] = "wait"
  /\ Top(t).seen = 0 /\ calls[Top(t).call].got = <<>>
  /\ Leave(t)
  /\ UNCHANGED <<counter, old, requests, net, reg_entity_id, records, program, history>>

Timeout(t) ==
  /\ pc[t] = "wait"
  /\ Top(t).seen = Len(calls[Top(t).call].got)
  /\ Leave(t)
  /\ UNCHANGED <<counter, old, requests, net, reg_entity_id, records, program, history>>

(* What a thread finds in its queue.  on_response of register and of       *)
(* get_properties look for an answer about the entity; _handle_response    *)
(* looks at the result only.  Both raise when the version is another.      *)
Answer(t) == calls[Top(t).call].got[Top(t).seen + 1]

Answered(t, op) ==
  /\ pc[t] = "wait"
  /\ Top(t).op = op
  /\ Top(t).seen < Len(calls[Top(t).call].got)
  /\ UNCHANGED <<counter, old, requests, net, program, history>>

(* Mutant: the entity of the answer is not compared.                       *)
AboutMine_any(t) ==
  calls[Answer(t).to].op = Top(t).op /\ Answer(t).result = "succeeded"

AboutMine(t) ==
  LET c == calls[Answer(t).to]
  IN c.op = Top(t).op /\ c.ent = Top(t).ent /\ Answer(t).result = "succeeded"

FoundResource(t) ==
  /\ Answered(t, "register")
  /\ AboutMine(t)
  /\ reg_entity_id' = calls[Answer(t).to].ent
  /\ Goto(t, "lock")
  /\ UNCHANGED <<frames, file_ops_lock, records>>

(* "Waiting for resource creation": on_response waits for another answer.  *)
WaitAgain(t) ==
  /\ Answered(t, "register")
  /\ ~AboutMine(t) /\ Answer(t).result # "version"
  /\ frames' = [frames EXCEPT ![t][1].seen = @ + 1]
  /\ UNCHANGED <<pc, reg_entity_id, file_ops_lock, records>>

(* Mutant: the properties are recorded whatever the result.                *)
PropertiesSet_always(t) ==
  /\ Answered(t, "set_properties")
  /\ Goto(t, "lock")
  /\ UNCHANGED <<frames, reg_entity_id, file_ops_lock, records>>

PropertiesSet(t) ==
  /\ Answered(t, "set_properties")
  /\ Answer(t).result = "succeeded"
  /\ Goto(t, "lock")
  /\ UNCHANGED <<frames, reg_entity_id, file_ops_lock, records>>

(* Any exception in on_response of get_properties is caught there.         *)
PropertiesGot(t) ==
  /\ Answered(t, "get_properties")
  /\ frames' = [frames EXCEPT ![t] = [Tail(frames[t]) EXCEPT ![1].dict.props =
                  @ \cup IF AboutMine(t) THEN Answer(t).props ELSE {}]]
  /\ Goto(t, "write")
  /\ UNCHANGED <<reg_entity_id, file_ops_lock, records>>

(* After the answer unregister writes both files without the lock.         *)
Unregistered(t) ==
  /\ Answered(t, "unregister")
  /\ Answer(t).result = "succeeded"
  /\ Goto(t, IF Top(t).ent = Gateway THEN "forget" ELSE "remove")
  /\ UNCHANGED <<frames, reg_entity_id, file_ops_lock, records>>

Related(t) ==
  /\ Answered(t, "relate")
  /\ Answer(t).result = "succeeded"
  /\ Leave(t)
  /\ UNCHANGED <<reg_entity_id, records>>

Refused(t) ==
  /\ \/ Answered(t, "register") /\ Answer(t).result = "version"
     \/ \E op \in {"set_properties", "relate", "unregister"} :
          Answered(t, op) /\ Answer(t).result # "succeeded"
  /\ Leave(t)
  /\ UNCHANGED <<reg_entity_id, records>>
-----------------------------------------------------------------------------
(* The local records.                                                      *)

(* with file_ops_lock: register writes the gateway to iotcc.json, where    *)
(* "EdgeSystem" is looked up without a default.                            *)
Details(t) == Top(t).op = "register" /\ Top(t).ent = Gateway

store_reg_entity_details(t) ==
  /\ pc[t] = "lock" /\ Details(t)
  /\ file_ops_lock = None
  /\ IF edge = "gone"
     THEN Leave(t) /\ UNCHANGED <<edge, history>>
     ELSE /\ file_ops_lock' = t
          /\ edge' = reg_entity_id
          /\ Goto(t, "attributes")
          /\ history' = [history EXCEPT !.mixed = @ \/ reg_entity_id # Top(t).ent]
          /\ UNCHANGED frames
  /\ UNCHANGED <<counter, old, requests, net, reg_entity_id, files, devfile, reg, program>>

(* _store_reg_entity_attributes: the file is new, is the same entity's, or *)
(* is another's and replaced.                                              *)
UuidOf(t) == IF Top(t).op = "register" THEN reg_entity_id ELSE Top(t).uuid

(* Mutant: without the lock.                                               *)
store_reg_entity_attributes_unlocked(t) ==
  /\ \/ pc[t] = "attributes"
     \/ pc[t] = "lock" /\ ~Details(t)
  /\ LET u == UuidOf(t)
         f == [Top(t) EXCEPT !.uuid = u, !.dict = files[u]]
         stale == conf.enable_reboot_getprop /\ files[u] # NoFile /\ ~files[u].fresh
     IN IF files[u] = Broken
        THEN Leave(t) /\ UNCHANGED history
        ELSE /\ frames' = [frames EXCEPT ![t] =
                  (IF stale THEN <<Frame("get_properties", f.ent, u, {}, FALSE)>> ELSE <<>>)
                  \o <<f>> \o Tail(@)]
             /\ Goto(t, IF stale THEN "next_id" ELSE "write")
             /\ file_ops_lock' = t
             /\ history' = [history EXCEPT !.mixed = @ \/ u # f.ent]
  /\ UNCHANGED <<counter, old, requests, net, reg_entity_id, records, program>>

store_reg_entity_attributes(t) ==
  /\ \/ pc[t] = "attributes"
     \/ pc[t] = "lock" /\ ~Details(t) /\ file_ops_lock = None
  /\ LET u == UuidOf(t)
         f == [Top(t) EXCEPT !.uuid = u, !.dict = files[u]]
         stale == conf.enable_reboot_getprop /\ files[u] # NoFile /\ ~files[u].fresh
     IN IF files[u] = Broken
        THEN Leave(t) /\ UNCHANGED history
        ELSE /\ frames' = [frames EXCEPT ![t] =
                  (IF stale THEN <<Frame("get_properties", f.ent, u, {}, FALSE)>> ELSE <<>>)
                  \o <<f>> \o Tail(@)]
             /\ Goto(t, IF stale THEN "next_id" ELSE "write")
             /\ file_ops_lock' = t
             /\ history' = [history EXCEPT !.mixed = @ \/ u # f.ent]
  /\ UNCHANGED <<counter, old, requests, net, reg_entity_id, records, program>>

Merged(f) ==
  [name |-> f.ent, fresh |-> TRUE,
   props |-> f.props \cup IF f.dict.name = f.ent THEN f.dict.props ELSE {}]

(* The device file follows whether or not the entity file was written: its *)
(* errors are logged and the call goes on, or returns, all the same.       *)
StoreDone(t, wrote) ==
  LET f == Top(t)
  IN /\ devfile' = [devfile EXCEPT ![f.uuid] = "present"]
     /\ history' = [history EXCEPT
          !.kept = IF wrote /\ f.op # "register"
                   THEN @ \cup {[ent |-> f.ent, uuid |-> f.uuid, props |-> f.props]} ELSE @,
          !.unwritten = IF wrote THEN @ ELSE @ \cup {f.uuid}]
     /\ IF f.op = "register"
        THEN /\ Goto(t, "return")
             /\ file_ops_lock' = None
             /\ UNCHANGED <<frames, reg>>
        ELSE /\ Leave(t)
             /\ reg' = IF f.ret THEN [reg EXCEPT ![f.ent] = f.uuid] ELSE reg
     /\ UNCHANGED <<counter, old, requests, net, reg_entity_id, edge, program>>

(* open(..., "w") empties the file before the dictionary is written to it, *)
(* or raises.                                                              *)
write_entity_file(t) ==
  /\ pc[t] = "write"
  /\ \/ /\ files' = [files EXCEPT ![Top(t).uuid] = Broken]
        /\ Goto(t, "fill")
        /\ UNCHANGED <<counter, frames, old, requests, net, reg_entity_id, file_ops_lock, devfile, edge,
                       reg, program, history>>
     \/ UNCHANGED files /\ StoreDone(t, FALSE)

(* json.dumps or write may raise, which leaves the file empty.             *)
fill_entity_file(t) ==
  /\ pc[t] = "fill"
  /\ \/ files' = [files EXCEPT ![Top(t).uuid] = Merged(Top(t))] /\ StoreDone(t, TRUE)
     \/ UNCHANGED files /\ StoreDone(t, FALSE)

(* RegisteredEntity(entity_obj, self, self.reg_entity_id), and the system  *)
(* properties are set.                                                     *)
MakeRegisteredEntity(t) ==
  /\ pc[t] = "return"
  /\ history' = [history EXCEPT !.mixed = @ \/ reg_entity_id # Top(t).ent]
  /\ IF conf.system_properties = {}
     THEN /\ reg' = [reg EXCEPT ![Top(t).ent] = reg_entity_id]
          /\ Leave(t)
     ELSE /\ Push(t, Frame("set_properties", Top(t).ent, reg_entity_id, conf.system_properties, TRUE))
          /\ UNCHANGED <<file_ops_lock, reg>>
  /\ UNCHANGED <<counter, old, requests, net, reg_entity_id, files, devfile, edge, program>>

(* unregister: _remove_reg_entity_details compares the uuid, then          *)
(* _store_device_info says remove.                                         *)
remove_reg_entity_details(t) ==
  /\ pc[t] = "forget"
  /\ IF edge = "gone"
     THEN Leave(t) /\ UNCHANGED edge
     ELSE /\ edge' = IF edge = Top(t).uuid THEN "gone" ELSE edge
          /\ Goto(t, "remove")
          /\ UNCHANGED <<frames, file_ops_lock>>
  /\ UNCHANGED <<counter, old, requests, net, reg_entity_id, files, devfile, reg, program, history>>

store_device_removed(t) ==
  /\ pc[t] = "remove"
  /\ devfile' = [devfile EXCEPT ![Top(t).uuid] = "removed"]
  /\ Leave(t)
  /\ UNCHANGED <<counter, old, requests, net, reg_entity_id, files, edge, reg, program, history>>
-----------------------------------------------------------------------------
(* The dispatcher, and the control center.                                 *)

dispatch_get ==
  /\ disp = None
  /\ recv_msg_queue # <<>>
  /\ LET m == Head(recv_msg_queue)
     IN disp' = IF req_dict[m.id] = 0 THEN None ELSE [msg |-> m, req |-> req_dict[m.id]]
  /\ recv_msg_queue' = Tail(recv_msg_queue)
  /\ UNCHANGED <<counter, threads, requests, wire, reg_entity_id, file_ops_lock, records, program, history>>

(* Mutant: the request stays in _req_dict.                                 *)
dispatch_put_keep ==
  /\ disp # None
  /\ calls' = [calls EXCEPT ![disp.req].got = Append(@, disp.msg)]
  /\ disp' = None
  /\ UNCHANGED <<counter, threads, req_dict, wire, recv_msg_queue, reg_entity_id, file_ops_lock, records,
                 program, history>>

dispatch_put ==
  /\ disp # None
  /\ req_dict' = [req_dict EXCEPT ![disp.msg.id] = 0]
  /\ calls' = [calls EXCEPT ![disp.req].got = Append(@, disp.msg)]
  /\ disp' = None
  /\ UNCHANGED <<counter, threads, wire, recv_msg_queue, reg_entity_id, file_ops_lock, records, program,
                 history>>

(* The control center handles requests in any order; it accepts one, and   *)
(* its answer arrives once, twice or never, or refuses it.  It has the     *)
(* properties that it accepted.                                            *)
Cloud(e) ==
  UNION {calls[c].props : c \in {d \in DOMAIN calls : calls[d].ent = e /\ calls[d].fate \in Accepted}}

Serve(c, how) ==
  LET m == [id |-> calls[c].id, to |-> c,
            result |-> IF how \in Accepted THEN "succeeded" ELSE how,
            props |-> IF calls[c].op = "get_properties" THEN Cloud(calls[c].ent) ELSE {}]
      copies == CASE how = "answered twice" -> 2 [] how = "answer lost" -> 0 [] OTHER -> 1
  IN /\ c \in wire
     /\ Fault(how)
     /\ wire' = wire \ {c}
     /\ calls' = [calls EXCEPT ![c].fate = how]
     /\ recv_msg_queue' = recv_msg_queue \o [i \in 1..copies |-> m]
     /\ UNCHANGED <<counter, threads, req_dict, disp, reg_entity_id, file_ops_lock, records, program,
                    history>>

(* The process dies and starts again: only the files and what is on the    *)
(* way survive.  _create_iotcc_json blanks iotcc.json.                     *)
Restart ==
  /\ Fault("restart")
  /\ epoch' = epoch + 1
  /\ counter' = 0
  /\ pc' = [t \in Threads |-> "idle"]
  /\ frames' = [t \in Threads |-> <<>>]
  /\ old' = [t \in Threads |-> 0]
  /\ req_dict' = [i \in DOMAIN req_dict |-> 0]
  /\ recv_msg_queue' = <<>>
  /\ disp' = None
  /\ reg_entity_id' = None
  /\ file_ops_lock' = None
  /\ files' = [u \in Entities |-> [files[u] EXCEPT !.fresh = FALSE]]
  /\ edge' = "blank"
  /\ reg' = [e \in Entities |-> None]
  /\ UNCHANGED <<calls, wire, devfile, plan, conf, history>>

Step(t) ==
  \/ next_id_read(t) \/ next_id_write(t) \/ \E sent \in BOOLEAN : Ask(t, sent)
  \/ Timeout(t)
  \/ FoundResource(t) \/ WaitAgain(t) \/ PropertiesSet(t) \/ PropertiesGot(t)
  \/ Unregistered(t) \/ Related(t) \/ Refused(t)
  \/ store_reg_entity_details(t) \/ store_reg_entity_attributes(t)
  \/ write_entity_file(t) \/ fill_entity_file(t) \/ MakeRegisteredEntity(t)
  \/ remove_reg_entity_details(t) \/ store_device_removed(t)

Call(t) ==
  /\ plan[t] # <<>>
  /\ LET op == plan[t][1][1]  e == plan[t][1][2]
     IN \/ op = "register" /\ register(t, e)
        \/ op = "unregister" /\ unregister(t, e)
        \/ op = "create_relationship" /\ create_relationship(t, e)
        \/ op = "set_properties" /\ set_properties(t, e)

Next ==
  \/ \E t \in Threads : Step(t) \/ Call(t)
  \/ dispatch_get \/ dispatch_put
  \/ \E c \in wire, how \in (Accepted \cup Faults) \ {"unsent", "restart"} : Serve(c, how)
  \/ Restart

Spec == Init /\ [][Next]_vars

(* A thread runs on, and Queue.get(True, timeout) returns or raises.       *)
FairSpec == Spec /\ \A t \in Threads : WF_vars(Step(t))
-----------------------------------------------------------------------------
(* Properties.                                                             *)

(* Two requests of one process have different transaction ids ("assume     *)
(* transaction_id will be unique in one process"), unless two threads were *)
(* inside _next_id at once or 2^24 requests lie between them.              *)
IdsDifferUnlessRaced ==
  \A c, d \in DOMAIN calls :
    /\ ~history.raced
    /\ c < d /\ d - c < IdSpace
    /\ calls[c].epoch = calls[d].epoch
    => calls[c].id # calls[d].id

SharedIds ==
  \E c, d \in DOMAIN calls : c # d /\ calls[c].id = calls[d].id

(* A property in an entity's file was accepted by the control center for   *)
(* that entity, whatever was refused, lost or late, as long as no two      *)
(* requests have one id.                                                   *)
RecordedWasAccepted ==
  ~SharedIds => \A u \in Entities : files[u].props \subseteq Cloud(files[u].name)

(* What set_properties wrote to the entity file stays there: the next      *)
(* caller adds to it, as file_ops_lock is held from the read to the write. *)
(* The file is empty only while the holder of the lock writes it, after a  *)
(* crash, or where the write failed, as its error is swallowed.  (Unless   *)
(* register has mixed up two uuids.)                                       *)
BeingWritten(u) == \E t \in Threads : file_ops_lock = t /\ pc[t] = "fill" /\ Top(t).uuid = u

PropertiesKept ==
  ~history.mixed => \A k \in history.kept :
    LET file == files[k.uuid]
    IN  IF file = Broken THEN epoch > 0 \/ BeingWritten(k.uuid) \/ k.uuid \in history.unwritten
        ELSE file.name = k.ent /\ k.props \subseteq file.props

(* register gives an entity another one's uuid only when two registers     *)
(* were in progress at once: self.reg_entity_id is shared.                 *)
OwnUuidUnlessOverlap == history.mixed => history.overlapped

(* The requests and the dispatcher implement RequestReply: the queue of a  *)
(* request gets one answer at most, so the second wait of register ends    *)
(* only by its timeout.                                                    *)
Replies == INSTANCE RequestReply WITH
  Ids <- 0..(IdSpace - 1),
  ident <- [c \in DOMAIN calls |-> calls[c].id],
  reply <- [c \in DOMAIN calls |-> calls[c].got]

AtMostOneReply == Replies!Spec

(* Every call of the API returns or raises, those that hold the lock while *)
(* they wait for get_properties and those that wait for a second answer    *)
(* included.                                                               *)
CallsEnd == \A t \in Threads : pc[t] # "idle" ~> pc[t] = "idle"
=============================================================================
