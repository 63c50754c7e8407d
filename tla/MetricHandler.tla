---------------------------- MODULE MetricHandler ----------------------------
(***************************************************************************)
(* The metric pipeline of liota: liota/core/metric_handler.py and          *)
(* liota/entities/metrics/registered_metric.py.                            *)
(*                                                                         *)
(*   start_collecting --> event_ds --> EventCheckerThread --> collect_queue*)
(*        (a priority queue on the next run time)                 |        *)
(*            ^                                                   v        *)
(*            +----------------------------------------- CollectionThreads *)
(*                                                                |        *)
(*                      dcc.publish <-- SendThread <-- send_queue +        *)
(*                                                                         *)
(* One step is what a thread does between two points at which another      *)
(* thread can observe or disturb it: a section under the mutex of          *)
(* event_ds, one Queue operation, one read or write of a shared attribute. *)
(*                                                                         *)
(* Time is relative.  The code only compares next run times with each      *)
(* other and with the current time, so due[m] stands for                   *)
(* _next_run_time - getUTCmillis(), and Tick lets one unit of time pass.   *)
(***************************************************************************)
EXTENDS Integers, Sequences, FiniteSets

CONSTANTS
    Metrics,            \* RegisteredMetric objects
    Collectors,         \* the threads of CollectionThreadPool
    Exit,               \* a SystemExit object put into a queue
    None,               \* Python's None
    Interval,           \* [Metrics -> Nat \ {0}]: ref_entity.interval
    AggregationSize,    \* [Metrics -> Nat]: ref_entity.aggregation_size
    Faulty,             \* metrics whose sampling function may raise
    MaxList,            \* bound: values one call of a sampling function returns
    MaxSamples,         \* bound: samples of one metric; past it it returns None
    MaxSendQueue,       \* bound: length of send_queue
    MaxLag              \* bound: units by which a queued event can be overdue

Item == Metrics \cup {Exit}

ASSUME ConstantsAssumption ==
    /\ Exit \notin Metrics /\ None \notin Item
    /\ IsFiniteSet(Metrics) /\ IsFiniteSet(Collectors)
    /\ Interval \in [Metrics -> Nat \ {0}]
    /\ AggregationSize \in [Metrics -> Nat]
    /\ Faulty \subseteq Metrics
    /\ {MaxList, MaxSamples, MaxSendQueue, MaxLag} \subseteq Nat

VARIABLES
    started,        \* start_collecting() was called on the metric
    flag_alive,     \* RegisteredMetric.flag_alive
    due,            \* RegisteredMetric._next_run_time, relative to now
    event_ds,       \* EventsPriorityQueue.queue: how often each item is in it
    root,           \* queue[0], None when the queue is empty
    notified,       \* a notify() on first_element_changed awaits the checker
    checker,        \* EventCheckerThread: where it is, and its first_element
    collect_queue,
    at,             \* where each CollectionThread is
    job,            \* its local variable metric
    working_obj,    \* CollectionThread.working_obj
    got,            \* the sampled values it still has to put into values
    sum,            \* no_of_values_added, then the new aggregation size
    agg,            \* RegisteredMetric.current_aggregation_size
    values,         \* RegisteredMetric.values, a FIFO queue of sample numbers
    send_queue,
    sender,         \* SendThread: where it is, its metric, its drained batch
    live,           \* flag_alive of EventCheckerThread and of SendThread
    term,           \* progress of terminate()
    taken,          \* history: how many samples of the metric exist
    delivered,      \* history: its samples a DCC accepted, in that order
    lost,           \* history: its samples drained but refused by the DCC
    late            \* history: sampling calls that returned after the stop

eventVars  == <<event_ds, root, notified, checker>>
workerVars == <<at, job, working_obj, got, sum>>
metricVars == <<started, flag_alive, due>>
dataVars   == <<agg, values, taken>>
sendVars   == <<send_queue, sender, delivered, lost>>
flagVars   == <<live, term>>
vars == <<eventVars, workerVars, metricVars, dataVars, sendVars, flagVars,
          collect_queue, late>>

(***************************************************************************)
(* Just after initialize(): the queues exist and all threads are started.  *)
(***************************************************************************)
Init ==
    /\ started = [m \in Metrics |-> FALSE]
    /\ flag_alive = [m \in Metrics |-> FALSE]
    /\ due = [m \in Metrics |-> 0]
    /\ event_ds = [i \in Item |-> 0] /\ root = None /\ notified = FALSE
    /\ checker = [pc |-> "loop", first |-> None]
    /\ collect_queue = << >>
    /\ at = [c \in Collectors |-> "get"]
    /\ job = [c \in Collectors |-> None]
    /\ working_obj = [c \in Collectors |-> None]
    /\ got = [c \in Collectors |-> << >>]
    /\ sum = [c \in Collectors |-> 0]
    /\ agg = [m \in Metrics |-> 0]
    /\ values = [m \in Metrics |-> << >>]
    /\ send_queue = << >>
    /\ sender = [pc |-> "loop", item |-> None, batch |-> << >>]
    /\ live = [checker |-> TRUE, sender |-> TRUE]
    /\ term = "no"
    /\ taken = [m \in Metrics |-> 0]
    /\ delivered = [m \in Metrics |-> << >>]
    /\ lost = [m \in Metrics |-> {}]
    /\ late = [m \in Metrics |-> 0]

-----------------------------------------------------------------------------
(***************************************************************************)
(* EventsPriorityQueue.                                                    *)
(***************************************************************************)

(* RegisteredMetric.__cmp__: metrics are ordered by their next run time,   *)
(* and a metric comes before anything that is not one, a SystemExit.       *)
Before(d, x, y) == x # Exit /\ (y = Exit \/ d[x] < d[y])

(* What heappop can leave at queue[0] of queue q: a least item.            *)
Least(q) ==
    {x \in Item : q[x] > 0 /\ \A y \in Item : q[y] > 0 => ~Before(due, y, x)}

Waiting == checker.pc \in {"timed", "untimed"}

(* A mutant: the checker is not told that queue[0] changed.                *)
PutSilently(x, d) ==
    /\ event_ds' = [event_ds EXCEPT ![x] = @ + 1]
    /\ root' = IF root = None \/ Before(d, x, root) THEN x ELSE root
    /\ UNCHANGED notified

(* put_and_notify: heappush replaces queue[0] only by a smaller item, and  *)
(* a waiting checker is notified only if queue[0] changed.                 *)
PutAndNotify(x, d) ==
    LET first == IF root = None \/ Before(d, x, root) THEN x ELSE root
    IN  /\ event_ds' = [event_ds EXCEPT ![x] = @ + 1]
        /\ root' = first
        /\ notified' = (notified \/ (Waiting /\ first # root))

(* A mutant: queue[0] is read, not removed.                                *)
Peek ==
    /\ checker' = [pc |-> "got", first |-> root]
    /\ notified' = FALSE
    /\ UNCHANGED <<event_ds, root>>

(* self._get(): the checker takes queue[0], whatever it is by now.         *)
Pop ==
    LET rest == [event_ds EXCEPT ![root] = @ - 1]
    IN  /\ event_ds' = rest
        /\ \/ root' \in Least(rest)
           \/ (\A i \in Item : rest[i] = 0) /\ root' = None
        /\ checker' = [pc |-> "got", first |-> root]
        /\ notified' = FALSE

Sleep(pc) ==
    /\ checker' = [pc |-> pc, first |-> root]
    /\ notified' = FALSE
    /\ UNCHANGED <<event_ds, root>>

Dead(x) == x \in Metrics /\ ~flag_alive[x]
Ready(x) == x \in Metrics /\ (due[x] <= 0 \/ ~flag_alive[x])

(* One turn of the loop of get_next_element_when_ready up to its wait().   *)
ScanHead ==
    \/ root = None /\ Sleep("untimed")
    \/ (root = Exit \/ Dead(root)) /\ Pop
    \/ root \in Metrics /\ flag_alive[root] /\ Sleep("timed")

-----------------------------------------------------------------------------
(***************************************************************************)
(* EventCheckerThread.run                                                  *)
(***************************************************************************)
unchangedByChecker == <<workerVars, metricVars, dataVars, sendVars, flagVars, late>>

CheckerLoop ==
    /\ checker.pc = "loop"
    /\ checker' = [pc |-> IF live.checker THEN "enter" ELSE "done", first |-> None]
    /\ UNCHANGED <<event_ds, root, notified, collect_queue, unchangedByChecker>>

GetNextElement ==
    /\ checker.pc = "enter"
    /\ ScanHead
    /\ UNCHANGED <<collect_queue, unchangedByChecker>>

(* A mutant: any wake-up is taken for the arrival of the next run time.    *)
WakeAndPop ==
    /\ checker.pc = "timed"
    /\ notified \/ due[checker.first] <= 0
    /\ Pop
    /\ UNCHANGED <<collect_queue, unchangedByChecker>>

(* The timed wait ends by a notify or at the time the element read before  *)
(* the wait is due; that element, not the present head, decides whether    *)
(* the head is popped.                                                     *)
WakeTimed ==
    /\ checker.pc = "timed"
    /\ notified \/ due[checker.first] <= 0
    /\ IF Ready(checker.first) THEN Pop ELSE ScanHead
    /\ UNCHANGED <<collect_queue, unchangedByChecker>>

(* The wait on an empty queue ends by a notify only; queue[0] is read      *)
(* after it.                                                               *)
WakeUntimed ==
    /\ checker.pc = "untimed"
    /\ notified
    /\ IF root = Exit \/ Ready(root) THEN Pop ELSE ScanHead
    /\ UNCHANGED <<collect_queue, unchangedByChecker>>

CheckerDispatch ==
    /\ checker.pc = "got"
    /\ IF checker.first = Exit
         THEN checker' = [checker EXCEPT !.pc = "done"] /\ UNCHANGED collect_queue
         ELSE /\ checker' = [pc |-> "loop", first |-> None]
              /\ collect_queue' = IF Dead(checker.first) THEN collect_queue
                                  ELSE Append(collect_queue, checker.first)
    /\ UNCHANGED <<event_ds, root, notified, unchangedByChecker>>

Checker == CheckerLoop \/ GetNextElement \/ WakeTimed \/ WakeUntimed \/ CheckerDispatch

-----------------------------------------------------------------------------
(***************************************************************************)
(* CollectionThread.run and the RegisteredMetric methods it calls.         *)
(***************************************************************************)
Goto(c, pc) == at' = [at EXCEPT ![c] = pc] /\ UNCHANGED job

(* Back to collect_queue.get(): the metric is no longer of interest.       *)
Leave(c) == at' = [at EXCEPT ![c] = "get"] /\ job' = [job EXCEPT ![c] = None]

unchangedByCollect == <<eventVars, metricVars, sendVars, flagVars>>

(* collect_queue.get()                                                     *)
Take(c) ==
    /\ at[c] = "get" /\ collect_queue # << >>
    /\ job' = [job EXCEPT ![c] = Head(collect_queue)]
    /\ collect_queue' = Tail(collect_queue)
    /\ at' = [at EXCEPT ![c] = "check"]
    /\ UNCHANGED <<working_obj, got, sum, dataVars, late, unchangedByCollect>>

(* A dead metric is discarded, for any other working_obj is set.           *)
CheckAlive(c) ==
    /\ at[c] = "check"
    /\ IF flag_alive[job[c]]
         THEN working_obj' = [working_obj EXCEPT ![c] = job[c]] /\ Goto(c, "sample")
         ELSE Leave(c) /\ UNCHANGED working_obj
    /\ UNCHANGED <<got, sum, collect_queue, dataVars, late, unchangedByCollect>>

(* metric.collect(): the call of the sampling function, which returns      *)
(* None, or values (a list may have none).                                 *)
SampleReturns(c) ==
    /\ at[c] = "sample"
    /\ LET m == job[c]
       IN  /\ late' = [late EXCEPT ![m] = IF flag_alive[m] THEN @ ELSE @ + 1]
           /\ \/ Goto(c, "finish") /\ UNCHANGED <<got, sum, taken>>
              \/ \E k \in 0..MaxList :
                    /\ taken[m] + k <= MaxSamples
                    /\ got' = [got EXCEPT ![c] = [i \in 1..k |-> taken[m] + i]]
                    /\ sum' = [sum EXCEPT ![c] = k]
                    /\ taken' = [taken EXCEPT ![m] = @ + k]
                    /\ Goto(c, IF k = 0 THEN "read" ELSE "add")
    /\ UNCHANGED <<working_obj, agg, values, collect_queue, unchangedByCollect>>

(* The sampling function raises: run() re-raises, so the thread ends with  *)
(* working_obj still set and without having put the next event.            *)
SampleRaises(c) ==
    /\ at[c] = "sample" /\ job[c] \in Faulty
    /\ Goto(c, "dead")
    /\ late' = [late EXCEPT ![job[c]] = IF flag_alive[job[c]] THEN @ ELSE @ + 1]
    /\ UNCHANGED <<working_obj, got, sum, collect_queue, dataVars, unchangedByCollect>>

(* add_collected_data: one values.put()                                    *)
AddValue(c) ==
    /\ at[c] = "add"
    /\ values' = [values EXCEPT ![job[c]] = Append(@, Head(got[c]))]
    /\ got' = [got EXCEPT ![c] = Tail(@)]
    /\ Goto(c, IF Len(got[c]) = 1 THEN "read" ELSE "add")
    /\ UNCHANGED <<working_obj, sum, agg, taken, collect_queue, late, unchangedByCollect>>

(* current_aggregation_size = current_aggregation_size + no_of_values_added*)
(* is a read and, later, a write.                                          *)
ReadAggregation(c) ==
    /\ at[c] = "read"
    /\ sum' = [sum EXCEPT ![c] = @ + agg[job[c]]]
    /\ Goto(c, "write")
    /\ UNCHANGED <<working_obj, got, collect_queue, dataVars, late, unchangedByCollect>>

WriteAggregation(c) ==
    /\ at[c] = "write"
    /\ agg' = [agg EXCEPT ![job[c]] = sum[c]]
    /\ sum' = [sum EXCEPT ![c] = 0]
    /\ Goto(c, "finish")
    /\ UNCHANGED <<working_obj, got, values, taken, collect_queue, late, unchangedByCollect>>

(* collect() is over: working_obj is cleared; a metric stopped meanwhile   *)
(* is discarded.                                                           *)
FinishCollect(c) ==
    /\ at[c] = "finish"
    /\ working_obj' = [working_obj EXCEPT ![c] = None]
    /\ IF flag_alive[job[c]] THEN Goto(c, "resched") ELSE Leave(c)
    /\ UNCHANGED <<got, sum, collect_queue, dataVars, late, unchangedByCollect>>

(* set_next_run_time() and put_and_notify(metric).  Only the thread that   *)
(* holds the metric's event touches its next run time.                     *)
Reschedule(c) ==
    /\ at[c] = "resched"
    /\ due' = [due EXCEPT ![job[c]] = @ + Interval[job[c]]]
    /\ PutAndNotify(job[c], due')
    /\ Goto(c, "ready")
    /\ UNCHANGED <<working_obj, got, sum, started, flag_alive, checker,
                   collect_queue, dataVars, late, sendVars, flagVars>>

IsReadyToSend(c) ==
    /\ at[c] = "ready"
    /\ IF agg[job[c]] >= AggregationSize[job[c]] THEN Goto(c, "send") ELSE Leave(c)
    /\ UNCHANGED <<working_obj, got, sum, collect_queue, dataVars, late, unchangedByCollect>>

PutSend(c) ==
    /\ at[c] = "send" /\ Len(send_queue) < MaxSendQueue
    /\ send_queue' = Append(send_queue, job[c])
    /\ Goto(c, "reset")
    /\ UNCHANGED <<working_obj, got, sum, collect_queue, dataVars, late,
                   sender, delivered, lost, eventVars, metricVars, flagVars>>

ResetAggregation(c) ==
    /\ at[c] = "reset"
    /\ agg' = [agg EXCEPT ![job[c]] = 0]
    /\ Leave(c)
    /\ UNCHANGED <<working_obj, got, sum, values, taken, collect_queue, late, unchangedByCollect>>

Collector(c) ==
    \/ Take(c) \/ CheckAlive(c) \/ SampleReturns(c) \/ SampleRaises(c)
    \/ AddValue(c) \/ ReadAggregation(c) \/ WriteAggregation(c) \/ FinishCollect(c)
    \/ Reschedule(c) \/ IsReadyToSend(c) \/ PutSend(c) \/ ResetAggregation(c)

-----------------------------------------------------------------------------
(***************************************************************************)
(* SendThread.run, RegisteredMetric.send_data and the publish it calls.    *)
(***************************************************************************)
unchangedBySender == <<eventVars, workerVars, metricVars, flagVars, agg, taken,
                       collect_queue, late>>

SenderGoto(pc) == sender' = [pc |-> pc, item |-> None, batch |-> << >>]

SenderLoop ==
    /\ sender.pc = "loop"
    /\ SenderGoto(IF live.sender THEN "get" ELSE "done")
    /\ UNCHANGED <<send_queue, delivered, lost, values, unchangedBySender>>

SenderGet ==
    /\ sender.pc = "get" /\ send_queue # << >>
    /\ sender' = [sender EXCEPT !.pc = "check", !.item = Head(send_queue)]
    /\ send_queue' = Tail(send_queue)
    /\ UNCHANGED <<delivered, lost, values, unchangedBySender>>

SenderCheck ==
    /\ sender.pc = "check"
    /\ \/ sender.item = Exit /\ SenderGoto("done")
       \/ Dead(sender.item) /\ SenderGoto("loop")
       \/ sender.item \in Metrics /\ flag_alive[sender.item]
          /\ sender' = [sender EXCEPT !.pc = "drain"]
    /\ UNCHANGED <<send_queue, delivered, lost, values, unchangedBySender>>

(* A mutant: the drained values stay in the queue.                         *)
DrainCopy ==
    /\ sender.pc = "drain"
    /\ IF values[sender.item] = << >>
         THEN SenderGoto("loop")
         ELSE sender' = [sender EXCEPT !.pc = "publish", !.batch = values[sender.item]]
    /\ UNCHANGED <<values, send_queue, delivered, lost, unchangedBySender>>

(* send_data() returns if there are no values; _format_data takes as many  *)
(* as qsize() said.  No other thread takes values, so later puts are not   *)
(* affected.                                                               *)
SenderDrain ==
    /\ sender.pc = "drain"
    /\ IF values[sender.item] = << >>
         THEN SenderGoto("loop") /\ UNCHANGED values
         ELSE /\ sender' = [sender EXCEPT !.pc = "publish", !.batch = values[sender.item]]
              /\ values' = [values EXCEPT ![sender.item] = << >>]
    /\ UNCHANGED <<send_queue, delivered, lost, unchangedBySender>>

(* comms.send(): the exception of a failing one is logged and dropped.     *)
SenderPublish ==
    /\ sender.pc = "publish"
    /\ LET m == sender.item
           Sent == {sender.batch[i] : i \in DOMAIN sender.batch}
       IN  \/ delivered' = [delivered EXCEPT ![m] = @ \o sender.batch] /\ UNCHANGED lost
           \/ lost' = [lost EXCEPT ![m] = @ \cup Sent] /\ UNCHANGED delivered
    /\ SenderGoto("loop")
    /\ UNCHANGED <<send_queue, values, unchangedBySender>>

Sender == SenderLoop \/ SenderGet \/ SenderCheck \/ SenderDrain \/ SenderPublish

-----------------------------------------------------------------------------
(***************************************************************************)
(* The client threads, terminate() and time.                               *)
(***************************************************************************)

(* start_collecting(), which client code must call only once per metric.   *)
StartCollecting(m) ==
    /\ ~started[m]
    /\ started' = [started EXCEPT ![m] = TRUE]
    /\ flag_alive' = [flag_alive EXCEPT ![m] = TRUE]
    /\ due' = [due EXCEPT ![m] = Interval[m]]
    /\ PutAndNotify(m, due')
    /\ UNCHANGED <<checker, workerVars, dataVars, sendVars, flagVars, collect_queue, late>>

StopCollecting(m) ==
    /\ started[m] /\ flag_alive[m]
    /\ flag_alive' = [flag_alive EXCEPT ![m] = FALSE]
    /\ UNCHANGED <<started, due, eventVars, workerVars, dataVars, sendVars, flagVars,
                   collect_queue, late>>

(* terminate(): the two flags, then one SystemExit for each of the two     *)
(* threads.                                                                *)
TerminateFlags ==
    /\ term = "no" /\ term' = "flags"
    /\ live' = [checker |-> FALSE, sender |-> FALSE]
    /\ UNCHANGED <<eventVars, workerVars, metricVars, dataVars, sendVars, collect_queue, late>>

TerminateEvents ==
    /\ term = "flags" /\ term' = "events"
    /\ PutAndNotify(Exit, due)
    /\ UNCHANGED <<live, checker, workerVars, metricVars, dataVars, sendVars,
                   collect_queue, late>>

(* A mutant: no SystemExit for the SendThread.                             *)
TerminateSendFlagOnly ==
    /\ term = "events" /\ term' = "done"
    /\ UNCHANGED <<live, eventVars, workerVars, metricVars, dataVars, sendVars,
                   collect_queue, late>>

TerminateSend ==
    /\ term = "events" /\ term' = "done"
    /\ send_queue' = Append(send_queue, Exit)
    /\ UNCHANGED <<live, eventVars, workerVars, metricVars, dataVars, sender, delivered,
                   lost, collect_queue, late>>

Terminate == TerminateFlags \/ TerminateEvents \/ TerminateSend

(* One unit of time.  The checker thread lets no queued event be overdue   *)
(* by more than MaxLag; lags of other metrics are not counted beyond it.   *)
Tick ==
    /\ checker.pc # "done" => \A m \in Metrics : event_ds[m] > 0 => due[m] > -MaxLag
    /\ due' = [m \in Metrics |-> IF started[m] /\ due[m] > -MaxLag THEN due[m] - 1 ELSE due[m]]
    /\ UNCHANGED <<started, flag_alive, eventVars, workerVars, dataVars, sendVars,
                   flagVars, collect_queue, late>>

Next ==
    \/ Checker \/ Sender \/ Terminate \/ Tick
    \/ \E c \in Collectors : Collector(c)
    \/ \E m \in Metrics : StartCollecting(m) \/ StopCollecting(m)

Spec == Init /\ [][Next]_vars

(* Every thread that can run eventually does, sampling functions and       *)
(* network calls return, terminate() once entered is finished and time     *)
(* passes.  Nothing forces a client to start, stop or terminate.           *)
Fairness ==
    /\ WF_vars(Checker) /\ WF_vars(Sender) /\ WF_vars(Tick)
    /\ WF_vars(TerminateEvents \/ TerminateSend)
    /\ \A c \in Collectors : WF_vars(Collector(c))

FairSpec == Spec /\ Fairness
-----------------------------------------------------------------------------
(***************************************************************************)
(* Properties                                                              *)
(***************************************************************************)
WorkerPC == {"get", "check", "sample", "add", "read", "write", "finish", "resched",
             "ready", "send", "reset", "dead"}

MetricTypes ==
    /\ started \in [Metrics -> BOOLEAN] /\ flag_alive \in [Metrics -> BOOLEAN]
    /\ due \in [Metrics -> Int] /\ late \in [Metrics -> Nat]

EventTypes ==
    /\ event_ds \in [Item -> Nat] /\ root \in Item \cup {None} /\ notified \in BOOLEAN
    /\ root # None => event_ds[root] > 0
    /\ checker \in [pc : {"loop", "enter", "timed", "untimed", "got", "done"},
                    first : Item \cup {None}]
    /\ checker.pc = "timed" => checker.first \in Metrics
    /\ checker.pc = "timed" \/ notified => root # None
    /\ checker.pc = "got" => checker.first \in Item
    /\ collect_queue \in Seq(Metrics)

WorkerTypes ==
    /\ at \in [Collectors -> WorkerPC] /\ job \in [Collectors -> Metrics \cup {None}]
    /\ working_obj \in [Collectors -> Metrics \cup {None}]
    /\ got \in [Collectors -> Seq(Nat)] /\ sum \in [Collectors -> Nat]
    /\ \A c \in Collectors : at[c] # "get" => job[c] \in Metrics
    /\ \A c \in Collectors : at[c] = "add" => got[c] # << >>

DataTypes ==
    /\ agg \in [Metrics -> Nat] /\ taken \in [Metrics -> Nat]
    /\ values \in [Metrics -> Seq(Nat)]

SendTypes ==
    /\ send_queue \in Seq(Item)
    /\ sender \in [pc : {"loop", "get", "check", "drain", "publish", "done"},
                   item : Item \cup {None}, batch : Seq(Nat)]
    /\ sender.pc = "check" => sender.item \in Item
    /\ sender.pc \in {"drain", "publish"} => sender.item \in Metrics
    /\ delivered \in [Metrics -> Seq(Nat)] /\ lost \in [Metrics -> SUBSET Nat]
    /\ live \in [checker : BOOLEAN, sender : BOOLEAN]
    /\ term \in {"no", "flags", "events", "done"}

(* Every variable has the type its attribute or queue has in the code; the *)
(* code never reads queue[0] of an empty queue, nor a metric it does not   *)
(* have.                                                                   *)
TypeOK == MetricTypes /\ EventTypes /\ WorkerTypes /\ DataTypes /\ SendTypes

(* The collector is inside metric.collect().                               *)
Collecting(c) == at[c] \in {"sample", "add", "read", "write"}

(* No two CollectionThreads are ever inside collect() of the same metric,  *)
(* although nothing locks a metric and any thread of the pool may take its *)
(* event: sampling functions need not be reentrant.                        *)
CollectExclusive ==
    \A c1, c2 \in Collectors :
        Collecting(c1) /\ Collecting(c2) /\ job[c1] = job[c2] => c1 = c2

(* The collector holds the metric's event: taken from collect_queue, not   *)
(* yet put back into event_ds.                                             *)
Holds(c) == at[c] \in {"check", "sample", "add", "read", "write", "finish", "resched"}

(* Where the event of m is.                                                *)
InHeap(m) == event_ds[m] > 0
InHand(m) == checker.pc = "got" /\ checker.first = m
InQueue(m, i) == i \in DOMAIN collect_queue /\ collect_queue[i] = m
InWork(m, c) == Holds(c) /\ job[c] = m

(* The one event start_collecting() creates for a metric is never doubled: *)
(* it is in event_ds, in the checker's hands, in collect_queue or with one *)
(* collector, and in only one of these places, once.                       *)
OneEvent ==
    \A m \in Metrics :
        /\ event_ds[m] <= 1
        /\ InHeap(m) \/ InHand(m) => started[m]
        /\ InHeap(m) => ~InHand(m)
        /\ \A i \in DOMAIN collect_queue :
             InQueue(m, i) =>
                /\ started[m] /\ ~InHeap(m) /\ ~InHand(m)
                /\ \A j \in DOMAIN collect_queue : InQueue(m, j) => i = j
        /\ \A c \in Collectors :
             InWork(m, c) =>
                /\ started[m] /\ ~InHeap(m) /\ ~InHand(m)
                /\ \A i \in DOMAIN collect_queue : ~InQueue(m, i)
                /\ \A d \in Collectors : InWork(m, d) => c = d

(* A sleeping checker is never too late: unless a notify is on its way, it *)
(* wakes no later than the earliest queued event is due, and it sleeps     *)
(* without a timeout only while event_ds is empty.                         *)
WakesInTime ==
    /\ checker.pc = "timed" /\ ~notified =>
         \A m \in Metrics : InHeap(m) => due[checker.first] <= due[m]
    /\ checker.pc = "untimed" /\ ~notified => \A i \in Item : event_ds[i] = 0

(* After stop_collecting() at most one more call of the sampling function  *)
(* returns: the one a collector had already decided on.                    *)
StopsWithinOneSample == \A m \in Metrics : late[m] <= 1

(* What WakesInTime rests on: heapq keeps a least item at queue[0], and a  *)
(* checker that no notify is waiting for sleeps on that item, which stays   *)
(* queued meanwhile.                                                       *)
HeadIsLeast ==
    /\ root = None => \A i \in Item : event_ds[i] = 0
    /\ root # None => \A i \in Item : event_ds[i] > 0 => ~Before(due, i, root)

SleepsOnHead ==
    /\ checker.pc = "timed" => event_ds[checker.first] > 0
    /\ checker.pc = "timed" /\ ~notified => root = checker.first
    /\ checker.pc = "untimed" /\ ~notified => root = None

(* What StopsWithinOneSample rests on: the call that returned late was the *)
(* only one under way.                                                     *)
LateIsLast ==
    \A m \in Metrics :
        /\ late[m] <= 1
        /\ flag_alive[m] \/ ~started[m] => late[m] = 0
        /\ late[m] = 1 => \A c \in Collectors : ~(at[c] = "sample" /\ job[c] = m)

(* The inductive invariant of the pipeline's events: every step of every   *)
(* thread preserves it.                                                    *)
EventInv == TypeOK /\ OneEvent /\ HeadIsLeast /\ SleepsOnHead /\ LateIsLast

(* The checker takes a live metric out of event_ds before it is due only   *)
(* when the metric it went to sleep on has been stopped meanwhile.         *)
EarlyOnlyPastDeadHead ==
    [][\A m \in Metrics :
         event_ds'[m] < event_ds[m] /\ flag_alive[m] /\ due[m] > 0 =>
            checker.pc = "timed" /\ checker.first # m /\ Dead(checker.first)]_vars

(* What a collector inside add_collected_data has still to put.            *)
Pending(m) ==
    IF \E c \in Collectors : at[c] = "add" /\ job[c] = m
    THEN got[CHOOSE c \in Collectors : at[c] = "add" /\ job[c] = m]
    ELSE << >>

InFlight(m) == IF sender.pc = "publish" /\ sender.item = m THEN sender.batch ELSE << >>

Unsent(m) == InFlight(m) \o values[m] \o Pending(m)

(* Every sample reaches the DCC at most once and in the order of sampling, *)
(* and none is dropped except with a batch whose publish failed: what is   *)
(* neither delivered nor lost is exactly the latest samples, in order.     *)
SampleFlow ==
    \A m \in Metrics :
        LET n == Len(Unsent(m))
            Out == {delivered[m][i] : i \in DOMAIN delivered[m]}
        IN  /\ Unsent(m) = [i \in 1..n |-> taken[m] - n + i]
            /\ \A i, j \in DOMAIN delivered[m] : i < j => delivered[m][i] < delivered[m][j]
            /\ Out \cap lost[m] = {} /\ Out \cup lost[m] = 1..(taken[m] - n)

(* A live metric whose sampling function never raises is sampled again and *)
(* again, until it is stopped or the handler is terminated, although the   *)
(* sampling functions of others end the threads they run in: as long as    *)
(* one thread of the pool is left (no thread is ever replaced).            *)
KeepsCollecting ==
    \A m \in Metrics \ Faulty :
        flag_alive[m] ~> \/ \E c \in Collectors : at[c] = "sample" /\ job[c] = m
                         \/ ~flag_alive[m] \/ term # "no"
                         \/ \A c \in Collectors : at[c] = "dead"

(* terminate() ends both threads, whatever is queued and however long the  *)
(* checker still has to sleep.                                             *)
ShutsDown == term = "done" ~> checker.pc = "done" /\ sender.pc = "done"
=============================================================================
