----------------------------- MODULE Simulators -----------------------------
(***************************************************************************)
(* The device simulators of liota/dev_sims, which SimulatorThread          *)
(* (core/discovery_simulator.py) starts and cleans up: each sends beacons  *)
(* of a few devices and then sleeps.                                       *)
(***************************************************************************)
EXTENDS Naturals

CONSTANTS
  MaxBeacons,   \* how many beacons one sends: 5 in the code
  LastCount     \* the count that should end one: 20 in the code

VARIABLES
  sim,          \* ["pipe", "mqtt" -> [pc, cnt, flag_alive]]
  cleaned       \* the endpoints whose clean_up SimulatorThread has called

simvars == <<sim, cleaned>>

Endpoints == {"pipe", "mqtt"}

(* The endpoints of DISC_ENDPOINT_LIST: entries [kind, value].  "None" is  *)
(* passed over, and so is a kind that is not known.                        *)
endpoint_list(items) ==
  {e.kind : e \in {e \in items : e.value # "None" /\ e.kind \in {"pipe", "socket", "mqtt", "coap"}}}

(* SimulatorThread.run refuses socket and CoAP endpoints (mqtt_only).      *)
SimInit(items) ==
  /\ sim = [k \in Endpoints |-> [pc |-> IF k \in endpoint_list(items) THEN "loop" ELSE "none",
                                 cnt |-> 0, flag_alive |-> TRUE]]
  /\ cleaned = {}

(* After every round the count goes up (here it stops above the last one); *)
(* past the last one "flag" is cleared, which nothing reads.               *)
Counted(k) == [sim[k] EXCEPT !.pc = "loop", !.cnt = IF @ > LastCount THEN @ ELSE @ + 1]

SimLoop(k) ==
  /\ sim[k].pc = "loop"
  /\ sim' = [sim EXCEPT ![k].pc = CASE ~sim[k].flag_alive -> "ended"
                                    [] sim[k].flag_alive /\ sim[k].cnt >= MaxBeacons -> "asleep"
                                    [] OTHER -> "send"]
  /\ UNCHANGED cleaned

(* publish raises once clean_up has disconnected; a pipe takes the message *)
(* in any case.  Whether a listener hears it is for the composition.       *)
SimSend(k) ==
  /\ sim[k].pc = "send"
  /\ sim' = [sim EXCEPT ![k] = IF k = "mqtt" /\ k \in cleaned THEN [@ EXCEPT !.pc = "ended"] ELSE Counted(k)]
  /\ UNCHANGED cleaned

SimWake(k) ==
  /\ sim[k].pc = "asleep"
  /\ sim' = [sim EXCEPT ![k] = Counted(k)]
  /\ UNCHANGED cleaned

(* _terminate_all of SimulatorThread, one simulator at a time: flag_alive  *)
(* goes down, and the connection of the MQTT simulator is closed.          *)
SimCleanUp(k) ==
  /\ sim[k].pc # "none"
  /\ k \notin cleaned
  /\ sim' = [sim EXCEPT ![k].flag_alive = FALSE]
  /\ cleaned' = cleaned \cup {k}
=============================================================================
