------------------------- MODULE MetricHandlerProofs -------------------------
(***************************************************************************)
(* Theorems about MetricHandler, for every set of metrics and collectors,  *)
(* all intervals and aggregation sizes and all bounds: it keeps its types, *)
(* the event of a metric is in one place, so that sampling is exclusive,   *)
(* the checker sleeps on a least event, a stop is prompt, and samples flow *)
(* in order.                                                               *)
(***************************************************************************)
EXTENDS MetricHandler, TLAPS

USE ConstantsAssumption, ZenonT(30) DEF Item

-----------------------------------------------------------------------------
(* put_and_notify keeps event_ds well formed and its head queued.          *)
LEMMA PutType ==
  ASSUME EventTypes, NEW x \in Item, NEW d, PutAndNotify(x, d)
  PROVE  /\ event_ds' \in [Item -> Nat]
         /\ root' \in Item
         /\ event_ds'[root'] > 0
         /\ notified' \in BOOLEAN
<1>1. event_ds' \in [Item -> Nat] /\ root' \in Item /\ event_ds'[root'] > 0
  BY SMTT(30) DEF EventTypes, PutAndNotify
<1>2. notified' \in BOOLEAN
  BY DEF EventTypes, PutAndNotify, Waiting
<1> QED BY SMTT(30), <1>1, <1>2

(* _get() hands the checker the head and leaves event_ds well formed.      *)
LEMMA PopType ==
  ASSUME EventTypes, root # None, Pop
  PROVE  /\ event_ds' \in [Item -> Nat]
         /\ root' \in Item \cup {None}
         /\ root' # None => event_ds'[root'] > 0
         /\ notified' = FALSE
         /\ checker' = [pc |-> "got", first |-> root]
BY SMTT(30) DEF EventTypes, Pop, Least

(* So does one turn of the loop of get_next_element_when_ready.            *)
LEMMA ScanType ==
  ASSUME EventTypes, UNCHANGED collect_queue, ScanHead \/ (root # None /\ Pop)
  PROVE  EventTypes'
<1>1. CASE root # None /\ Pop
  <2>1. /\ event_ds' \in [Item -> Nat] /\ root' \in Item \cup {None}
        /\ root' # None => event_ds'[root'] > 0
        /\ ~notified' /\ notified' \in BOOLEAN
        /\ checker' = [pc |-> "got", first |-> root]
    BY SMTT(30), <1>1, PopType
  <2> QED BY SMTT(30), <1>1, <2>1 DEF EventTypes
<1>2. CASE root = None /\ Sleep("untimed")
  BY <1>2 DEF EventTypes, Sleep
<1>3. CASE root \in Metrics /\ Sleep("timed")
  BY <1>3 DEF EventTypes, Sleep
<1> QED BY SMTT(30), <1>1, <1>2, <1>3 DEF ScanHead, Dead, EventTypes

-----------------------------------------------------------------------------
USE DEF vars, eventVars, workerVars, metricVars, dataVars, sendVars, flagVars,
        unchangedByChecker, unchangedByCollect, unchangedBySender

(* What a step does not touch keeps its type.                              *)
LEMMA Frame ==
  /\ MetricTypes /\ UNCHANGED <<metricVars, late>> => MetricTypes'
  /\ EventTypes /\ UNCHANGED <<eventVars, collect_queue>> => EventTypes'
  /\ WorkerTypes /\ UNCHANGED workerVars => WorkerTypes'
  /\ DataTypes /\ UNCHANGED dataVars => DataTypes'
  /\ SendTypes /\ UNCHANGED <<sendVars, flagVars>> => SendTypes'
<1>1. MetricTypes /\ UNCHANGED <<metricVars, late>> => MetricTypes'
  BY DEF MetricTypes
<1>2. EventTypes /\ UNCHANGED <<eventVars, collect_queue>> => EventTypes'
  BY SMTT(30) DEF EventTypes
<1>3. WorkerTypes /\ UNCHANGED workerVars => WorkerTypes'
  BY DEF WorkerTypes
<1>4. DataTypes /\ UNCHANGED dataVars => DataTypes'
  BY DEF DataTypes
<1>5. SendTypes /\ UNCHANGED <<sendVars, flagVars>> => SendTypes'
  BY DEF SendTypes
<1> QED BY <1>1, <1>2, <1>3, <1>4, <1>5

(* A sender that has what its place calls for is well formed.              *)
LEMMA SenderType ==
  ASSUME SendTypes, NEW p \in {"loop", "get", "check", "drain", "publish", "done"},
         NEW x \in Item \cup {None}, NEW b \in Seq(Nat),
         p = "check" => x \in Item, p \in {"drain", "publish"} => x \in Metrics,
         sender' = [pc |-> p, item |-> x, batch |-> b],
         UNCHANGED <<send_queue, delivered, lost, live, term>>
  PROVE  SendTypes'
BY DEF SendTypes

(* The checker's steps keep the types: they touch event_ds, and one of      *)
(* them collect_queue.                                                     *)
LEMMA CheckerTypes == TypeOK /\ Checker => TypeOK'
<1> SUFFICES ASSUME TypeOK, Checker PROVE TypeOK'
  OBVIOUS
<1> USE DEF TypeOK
<1>1. CASE CheckerLoop
  BY <1>1, Frame DEF CheckerLoop, EventTypes
<1>2. ASSUME UNCHANGED collect_queue, ScanHead \/ (root # None /\ Pop) PROVE EventTypes'
  BY <1>2, ScanType
<1>3. CASE GetNextElement \/ WakeTimed \/ WakeUntimed
  <2>1. checker.pc = "timed" \/ notified => root # None
    BY DEF EventTypes
  <2>2. EventTypes'
    BY <1>2, <1>3, <2>1 DEF GetNextElement, WakeTimed, WakeUntimed
  <2> QED BY <1>3, <2>2, Frame DEF GetNextElement, WakeTimed, WakeUntimed
<1>4. CASE CheckerDispatch
  <2>1. EventTypes'
    <3>1. checker' \in [pc : {"loop", "done"}, first : Item \cup {None}]
      BY SMTT(30), <1>4 DEF CheckerDispatch, EventTypes
    <3>2. collect_queue' \in Seq(Metrics)
      <4>1. CASE checker.first = Exit \/ Dead(checker.first)
        BY <1>4, <4>1 DEF CheckerDispatch, EventTypes
      <4>2. CASE checker.first # Exit /\ ~Dead(checker.first)
        <5>1. checker.first \in Metrics
          BY <1>4, <4>2 DEF CheckerDispatch, EventTypes
        <5>2. collect_queue' = Append(collect_queue, checker.first)
          BY <1>4, <4>2 DEF CheckerDispatch
        <5> QED BY SMTT(30), <5>1, <5>2 DEF EventTypes
      <4> QED BY <4>1, <4>2
    <3>3. UNCHANGED <<event_ds, root, notified>>
      BY <1>4 DEF CheckerDispatch
    <3> QED BY <3>1, <3>2, <3>3 DEF EventTypes
  <2> QED BY <1>4, <2>1, Frame DEF CheckerDispatch
<1> QED BY <1>1, <1>3, <1>4 DEF Checker

(* The sender's steps keep the types: they touch the send queue and what    *)
(* the DCC got, and one of them values.                                    *)
LEMMA SenderTypes == TypeOK /\ Sender => TypeOK'
<1>next. SUFFICES ASSUME TypeOK, Sender PROVE SendTypes' /\ DataTypes'
  <2>1. ASSUME TypeOK, Sender
        PROVE  UNCHANGED <<eventVars, workerVars, metricVars, collect_queue, late>>
    BY <2>1 DEF Sender, SenderLoop, SenderGet, SenderCheck, SenderDrain, SenderPublish
  <2> QED BY <2>1, Frame DEF TypeOK
<1> USE <1>next DEF TypeOK
<1>1. CASE SenderLoop
  BY SMTT(30), <1>1, Frame DEF SenderLoop, SenderGoto, SendTypes
<1>2. CASE SenderGet
  <2>1. SendTypes'
    <3>1. Head(send_queue) \in Item /\ Tail(send_queue) \in Seq(Item)
      BY SMTT(30), <1>2 DEF SenderGet, SendTypes
    <3>2. sender' = [pc |-> "check", item |-> Head(send_queue), batch |-> sender.batch]
      BY <1>2 DEF SenderGet, SendTypes
    <3> QED BY <1>2, <3>1, <3>2 DEF SenderGet, SendTypes
  <2> QED BY <1>2, <2>1, Frame DEF SenderGet
<1>3. CASE SenderCheck
  <2>1. SendTypes'
    <3>1. \/ sender' = [pc |-> "drain", item |-> sender.item, batch |-> sender.batch]
             /\ sender.item \in Metrics
          \/ sender' = [pc |-> "loop", item |-> None, batch |-> << >>]
          \/ sender' = [pc |-> "done", item |-> None, batch |-> << >>]
      BY <1>3 DEF SenderCheck, SenderGoto, SendTypes
    <3>2. UNCHANGED <<send_queue, delivered, lost, live, term>>
      BY <1>3 DEF SenderCheck
    <3>3. sender.batch \in Seq(Nat) /\ << >> \in Seq(Nat)
      BY SMTT(30) DEF SendTypes
    <3> QED BY <3>1, <3>2, <3>3, SenderType
  <2> QED BY <1>3, <2>1, Frame DEF SenderCheck
<1>4. CASE SenderDrain
  <2>1. SendTypes'
    <3>1. sender.item \in Metrics /\ values[sender.item] \in Seq(Nat)
      BY <1>4 DEF SenderDrain, SendTypes, DataTypes
    <3>2. \/ sender' = [pc |-> "publish", item |-> sender.item, batch |-> values[sender.item]]
          \/ sender' = [pc |-> "loop", item |-> None, batch |-> << >>]
      BY <1>4 DEF SenderDrain, SenderGoto, SendTypes
    <3>3. UNCHANGED <<send_queue, delivered, lost, live, term>>
      BY <1>4 DEF SenderDrain
    <3>4. << >> \in Seq(Nat)
      BY SMTT(30)
    <3> QED BY <3>1, <3>2, <3>3, <3>4, SenderType
  <2>2. DataTypes'
    <3>1. \/ UNCHANGED values
          \/ values' = [values EXCEPT ![sender.item] = << >>]
      BY <1>4 DEF SenderDrain
    <3>2. UNCHANGED <<agg, taken>>
      BY <1>4 DEF SenderDrain
    <3>3. << >> \in Seq(Nat)
      BY SMTT(30)
    <3> QED BY <3>1, <3>2, <3>3 DEF DataTypes
  <2> QED BY <2>1, <2>2
<1>5. CASE SenderPublish
  <2>1. SendTypes'
    <3>1. sender.item \in Metrics /\ sender.batch \in Seq(Nat)
      BY <1>5 DEF SenderPublish, SendTypes
    <3>2. {sender.batch[i] : i \in DOMAIN sender.batch} \subseteq Nat
      BY SMTT(30), <3>1
    <3>3. delivered[sender.item] \o sender.batch \in Seq(Nat)
      BY SMTT(30), <3>1 DEF SendTypes
    <3>4. delivered' \in [Metrics -> Seq(Nat)] /\ lost' \in [Metrics -> SUBSET Nat]
      <4>1. CASE /\ delivered' = [delivered EXCEPT ![sender.item] = @ \o sender.batch]
                 /\ UNCHANGED lost
        BY <3>1, <3>3, <4>1 DEF SendTypes
      <4>2. CASE /\ lost' = [lost EXCEPT ![sender.item] =
                              @ \cup {sender.batch[i] : i \in DOMAIN sender.batch}]
                 /\ UNCHANGED delivered
        BY <3>1, <3>2, <4>2 DEF SendTypes
      <4> QED BY <1>5, <4>1, <4>2 DEF SenderPublish
    <3>5. sender' = [pc |-> "loop", item |-> None, batch |-> << >>]
      BY <1>5 DEF SenderPublish, SenderGoto
    <3> QED BY SMTT(30), <1>5, <3>4, <3>5 DEF SenderPublish, SendTypes
  <2> QED BY <1>5, <2>1, Frame DEF SenderPublish
<1> QED BY <1>next, <1>1, <1>2, <1>3, <1>4, <1>5 DEF Sender

(* A collector keeps its own types.                                        *)
LEMMA WorkerStep ==
  ASSUME TypeOK, NEW c \in Collectors, Collector(c)
  PROVE  WorkerTypes'
<1> USE DEF TypeOK, WorkerTypes, WorkerPC
<1>1. CASE Take(c)
  <2>1. Head(collect_queue) \in Metrics
    BY SMTT(30), <1>1 DEF Take, EventTypes
  <2> QED BY <1>1, <2>1 DEF Take
<1>2. CASE CheckAlive(c) \/ FinishCollect(c) \/ IsReadyToSend(c)
  <2>1. job[c] \in Metrics
    BY <1>2 DEF CheckAlive, FinishCollect, IsReadyToSend
  <2> QED BY <1>2, <2>1 DEF CheckAlive, FinishCollect, IsReadyToSend, Goto, Leave
<1>3. CASE SampleReturns(c)
  <2>1. CASE Goto(c, "finish") /\ UNCHANGED <<got, sum, taken>>
    BY <1>3, <2>1 DEF SampleReturns, Goto
  <2>2. ASSUME NEW k \in 0..MaxList,
               got' = [got EXCEPT ![c] = [i \in 1..k |-> taken[job[c]] + i]],
               sum' = [sum EXCEPT ![c] = k],
               Goto(c, IF k = 0 THEN "read" ELSE "add")
        PROVE  WorkerTypes'
    <3>1. job[c] \in Metrics /\ taken[job[c]] \in Nat /\ k \in Nat
      BY SMTT(30), <1>3, <2>2 DEF SampleReturns, DataTypes
    <3>2. [i \in 1..k |-> taken[job[c]] + i] \in Seq(Nat)
      BY SMTT(30), <3>1
    <3>3. k # 0 => [i \in 1..k |-> taken[job[c]] + i] # << >>
      <4>1. Len([i \in 1..k |-> taken[job[c]] + i]) = k
        BY SMTT(30), <3>1
      <4> QED BY <4>1, Len(<< >>) = 0
    <3> QED BY <1>3, <2>2, <3>1, <3>2, <3>3 DEF SampleReturns, Goto
  <2> QED BY <1>3, <2>1, <2>2 DEF SampleReturns
<1>4. CASE AddValue(c)
  <2>1. got[c] \in Seq(Nat) /\ got[c] # << >> /\ job[c] \in Metrics
    BY <1>4 DEF AddValue
  <2>2. Len(Tail(got[c])) = Len(got[c]) - 1 /\ Len(got[c]) \in Nat /\ Tail(got[c]) \in Seq(Nat)
    BY SMTT(30), <2>1
  <2>3. Tail(got[c]) = << >> => Len(Tail(got[c])) = 0
    BY Len(<< >>) = 0
  <2>4. Len(got[c]) # 1 => Tail(got[c]) # << >>
    BY SMTT(30), <2>2, <2>3
  <2> QED BY <1>4, <2>1, <2>2, <2>4 DEF AddValue, Goto
<1>5. CASE SampleRaises(c) \/ PutSend(c)
  BY <1>5 DEF SampleRaises, PutSend, Goto
<1>6. CASE ReadAggregation(c)
  BY SMTT(30), <1>6 DEF ReadAggregation, Goto, DataTypes
<1>8. CASE WriteAggregation(c)
  BY <1>8 DEF WriteAggregation, Goto
<1>7. CASE ResetAggregation(c) \/ Reschedule(c)
  BY <1>7 DEF ResetAggregation, Reschedule, Goto, Leave
<1> QED BY <1>1, <1>2, <1>3, <1>4, <1>5, <1>6, <1>7, <1>8 DEF Collector

(* What a collector does to a metric and to the queues keeps their types.  *)
LEMMA CollectorTypes == ASSUME TypeOK, NEW c \in Collectors, Collector(c) PROVE TypeOK'
<1> USE DEF TypeOK
<1>0. at[c] # "get" => job[c] \in Metrics
  BY DEF WorkerTypes
<1>1. MetricTypes'
  <2>1. CASE UNCHANGED <<metricVars, late>>
    BY <2>1, Frame
  <2>2. CASE SampleReturns(c) \/ SampleRaises(c) \/ Reschedule(c)
    BY SMTT(30), <1>0, <2>2 DEF SampleReturns, SampleRaises, Reschedule, MetricTypes
  <2> QED BY <2>1, <2>2 DEF Collector, Take, CheckAlive, AddValue, ReadAggregation,
                WriteAggregation, FinishCollect, IsReadyToSend, PutSend, ResetAggregation
<1>2. EventTypes'
  <2>1. CASE UNCHANGED <<eventVars, collect_queue>>
    BY <2>1, Frame
  <2>2. CASE Take(c)
    BY SMTT(30), <2>2 DEF Take, EventTypes
  <2>3. CASE Reschedule(c)
    BY <1>0, <2>3, PutType DEF Reschedule, EventTypes
  <2> QED BY <2>1, <2>2, <2>3 DEF Collector, CheckAlive, SampleReturns, SampleRaises, AddValue,
                ReadAggregation, WriteAggregation, FinishCollect, IsReadyToSend, PutSend, ResetAggregation
<1>3. DataTypes'
  <2>1. CASE UNCHANGED dataVars
    BY <2>1, Frame
  <2>2. CASE SampleReturns(c)
    <3>1. taken' \in [Metrics -> Nat]
      <4>1. ASSUME NEW k \in 0..MaxList, taken' = [taken EXCEPT ![job[c]] = @ + k] PROVE taken' \in [Metrics -> Nat]
        <5>1. job[c] \in Metrics /\ taken \in [Metrics -> Nat]
          BY <1>0, <2>2 DEF SampleReturns, DataTypes
        <5> QED BY SMTT(30), <4>1, <5>1
      <4> QED BY <2>2, <4>1 DEF SampleReturns, DataTypes
    <3> QED BY <2>2, <3>1 DEF SampleReturns, DataTypes
  <2>3. CASE AddValue(c)
    <3>1. got[c] \in Seq(Nat) /\ got[c] # << >> /\ values[job[c]] \in Seq(Nat)
      BY <1>0, <2>3 DEF AddValue, WorkerTypes, DataTypes
    <3>2. Append(values[job[c]], Head(got[c])) \in Seq(Nat)
      BY SMTT(30), <3>1
    <3> QED BY <2>3, <3>2 DEF AddValue, DataTypes
  <2>4. CASE WriteAggregation(c)
    BY <2>4 DEF WriteAggregation, WorkerTypes, DataTypes
  <2>5. CASE ResetAggregation(c)
    BY <2>5 DEF ResetAggregation, DataTypes
  <2> QED BY <2>1, <2>2, <2>3, <2>4, <2>5 DEF Collector, Take, CheckAlive, SampleRaises, ReadAggregation,
                FinishCollect, IsReadyToSend, PutSend, Reschedule
<1>4. SendTypes'
  <2>1. CASE UNCHANGED <<sendVars, flagVars>>
    BY <2>1, Frame
  <2>2. CASE PutSend(c)
    BY SMTT(30), <1>0, <2>2 DEF PutSend, SendTypes
  <2> QED BY <2>1, <2>2 DEF Collector, Take, CheckAlive, SampleReturns, SampleRaises, AddValue,
                ReadAggregation, WriteAggregation, FinishCollect, IsReadyToSend, Reschedule, ResetAggregation
<1> QED BY <1>1, <1>2, <1>3, <1>4, WorkerStep

(* Every step preserves the type invariant.                                *)
LEMMA TypeStep == TypeOK /\ [Next]_vars => TypeOK'
<1>next. SUFFICES ASSUME TypeOK, [Next]_vars PROVE TypeOK'
  OBVIOUS
<1>inv. TypeOK
  BY <1>next
<1> USE <1>inv DEF TypeOK
<1>1. ASSUME NEW m \in Metrics, StartCollecting(m) PROVE TypeOK'
  <2>1. MetricTypes'
    BY SMTT(30), <1>1 DEF StartCollecting, MetricTypes
  <2>2. EventTypes'
    BY <1>1, PutType DEF StartCollecting, EventTypes
  <2> QED BY <1>1, <2>1, <2>2, Frame DEF StartCollecting
<1>2. CASE Tick
  <2>1. MetricTypes'
    BY SMTT(30), <1>2 DEF Tick, MetricTypes
  <2> QED BY <1>2, <2>1, Frame DEF Tick
<1>5. ASSUME NEW m \in Metrics, StopCollecting(m) PROVE TypeOK'
  <2>1. MetricTypes'
    BY <1>5 DEF StopCollecting, MetricTypes
  <2> QED BY <1>5, <2>1, Frame DEF StopCollecting
<1>3. CASE Terminate
  <2>1. EventTypes'
    BY <1>3, PutType, Frame DEF Terminate, TerminateFlags, TerminateEvents, TerminateSend, EventTypes
  <2>2. SendTypes'
    <3>1. CASE TerminateFlags
      BY <3>1 DEF TerminateFlags, SendTypes
    <3>2. CASE TerminateEvents
      BY <3>2 DEF TerminateEvents, SendTypes
    <3>3. CASE TerminateSend
      BY SMTT(30), <3>3 DEF TerminateSend, SendTypes
    <3> QED BY <1>3, <3>1, <3>2, <3>3 DEF Terminate
  <2> QED BY <1>3, <2>1, <2>2, Frame DEF Terminate, TerminateFlags, TerminateEvents, TerminateSend
<1>4. CASE UNCHANGED vars
  BY <1>4, Frame
<1> QED
  BY <1>next, <1>1, <1>2, <1>3, <1>4, <1>5, CheckerTypes, SenderTypes, CollectorTypes DEF Next

-----------------------------------------------------------------------------
(* The positions of a queue after a put and after a get.                   *)
LEMMA AppendIndex ==
  ASSUME NEW S, NEW q \in Seq(S), NEW x \in S, NEW r, r = Append(q, x)
  PROVE  \A i \in DOMAIN r : \/ i \in DOMAIN q /\ r[i] = q[i]
                             \/ i = Len(q) + 1 /\ r[i] = x
BY SMTT(30)

LEMMA TailIndex ==
  ASSUME NEW S, NEW q \in Seq(S), q # << >>, NEW r, r = Tail(q)
  PROVE  /\ \A i \in DOMAIN r : i + 1 \in DOMAIN q /\ r[i] = q[i + 1]
         /\ \A i \in DOMAIN r : i + 1 # 1
         /\ \A i, j \in DOMAIN r : i + 1 = j + 1 => i = j
         /\ 1 \in DOMAIN q /\ Head(q) = q[1]
<1>1. DOMAIN q = 1..Len(q) /\ Len(q) \in Nat \ {0}
  BY SMTT(30)
<1>2. DOMAIN r = 1..(Len(q) - 1) /\ \A i \in 1..(Len(q) - 1) : r[i] = q[i + 1]
  BY SMTT(30), <1>1
<1> QED BY SMTT(30), <1>1, <1>2

(* One more event of x, and no other, is in event_ds.                      *)
LEMMA PutCounts ==
  ASSUME NEW x \in Item, event_ds \in [Item -> Nat], event_ds' = [event_ds EXCEPT ![x] = @ + 1]
  PROVE  /\ ~(event_ds[x] > 0) => event_ds'[x] <= 1
         /\ \A y \in Item : y # x => event_ds'[y] = event_ds[y]
BY SMTT(30)

(* A step that moves no metric's event leaves it in one place.             *)
LEMMA OneEventFrame ==
  ASSUME OneEvent,
         \A m \in Metrics : event_ds'[m] = event_ds[m],
         \A m \in Metrics : started[m] => started'[m],
         UNCHANGED collect_queue,
         \A m \in Metrics : InHand(m)' => InHand(m),
         \A c \in Collectors : Holds(c)' => Holds(c) /\ job'[c] = job[c]
  PROVE  OneEvent'
BY SMTT(30) DEF OneEvent, InHeap, InQueue, InWork

(* _get() moves the event from event_ds into the checker's hands.          *)
LEMMA OneEventPop ==
  ASSUME TypeOK, OneEvent, root # None, Pop, checker.pc # "got",
         UNCHANGED <<started, collect_queue, at, job>>
  PROVE  OneEvent'
<1>1. /\ event_ds' = [event_ds EXCEPT ![root] = @ - 1]
      /\ checker'.pc = "got" /\ checker'.first = root
      /\ root \in Item /\ event_ds \in [Item -> Nat] /\ event_ds[root] > 0
  BY DEF TypeOK, EventTypes, Pop
<1>2. \A c \in Collectors : Holds(c)' = Holds(c)
  BY DEF Holds
<1> SUFFICES ASSUME NEW m \in Metrics
             PROVE  (OneEvent!(m))'
  BY DEF OneEvent
<1>3. CASE m = root
  BY SMTT(30), <1>1, <1>2, <1>3 DEF OneEvent, InHeap, InHand, InQueue, InWork
<1>4. CASE m # root
  BY SMTT(30), <1>1, <1>2, <1>4 DEF OneEvent, InHeap, InHand, InQueue, InWork
<1> QED BY <1>3, <1>4

(* One turn of get_next_element_when_ready.                                *)
LEMMA OneEventScan ==
  ASSUME TypeOK, OneEvent, ScanHead \/ (root # None /\ Pop), checker.pc # "got",
         UNCHANGED <<started, collect_queue, at, job>>
  PROVE  OneEvent'
<1>1. CASE root # None /\ Pop
  BY <1>1, OneEventPop
<1>2. ASSUME NEW p \in {"timed", "untimed"}, Sleep(p) PROVE OneEvent'
  <2>1. \A m \in Metrics : event_ds'[m] = event_ds[m] /\ ~InHand(m)'
    BY <1>2 DEF Sleep, InHand
  <2>2. \A c \in Collectors : Holds(c)' => Holds(c) /\ job'[c] = job[c]
    BY DEF Holds
  <2> QED BY <2>1, <2>2, OneEventFrame
<1> QED BY <1>1, <1>2 DEF ScanHead, Dead, TypeOK, EventTypes

(* No step doubles an event or leaves it in two places.                    *)
LEMMA OneEventStep == TypeOK /\ OneEvent /\ [Next]_vars => OneEvent'
<1>next. SUFFICES ASSUME TypeOK, OneEvent, [Next]_vars PROVE OneEvent'
  OBVIOUS
<1>inv. TypeOK /\ OneEvent
  BY <1>next
<1> USE <1>inv
<1>1. CASE CheckerLoop
  <2>1. \A m \in Metrics : ~InHand(m)'
    BY <1>1 DEF CheckerLoop, InHand
  <2>2. \A c \in Collectors : Holds(c)' => Holds(c) /\ job'[c] = job[c]
    BY <1>1 DEF CheckerLoop, Holds
  <2> QED BY <1>1, <2>1, <2>2, OneEventFrame DEF CheckerLoop
<1>2. CASE GetNextElement
  BY <1>2, OneEventScan DEF GetNextElement
<1>3. CASE WakeTimed
  <2>1. root # None BY <1>3 DEF WakeTimed, TypeOK, EventTypes
  <2> QED BY <1>3, <2>1, OneEventScan DEF WakeTimed
<1>4. CASE WakeUntimed
  <2>1. root # None BY <1>4 DEF WakeUntimed, TypeOK, EventTypes
  <2> QED BY <1>4, <2>1, OneEventScan DEF WakeUntimed
<1>5. CASE CheckerDispatch
  <2>1. /\ \A m \in Metrics : ~InHand(m)'
        /\ UNCHANGED <<event_ds, started, at, job>>
    BY SMTT(30), <1>5 DEF CheckerDispatch, InHand, TypeOK, EventTypes
  <2>2. \A c \in Collectors : Holds(c)' = Holds(c) /\ job'[c] = job[c]
    BY <2>1 DEF Holds
  <2>3. CASE UNCHANGED collect_queue
    BY <2>1, <2>2, <2>3, OneEventFrame
  <2>4. CASE collect_queue' = Append(collect_queue, checker.first) /\ checker.first \in Metrics
    <3>1. InHand(checker.first)
      BY <1>5 DEF CheckerDispatch, InHand
    <3>2. collect_queue \in Seq(Metrics)
      BY DEF TypeOK, EventTypes
    <3> SUFFICES ASSUME NEW m \in Metrics PROVE (OneEvent!(m))'
      BY DEF OneEvent
    <3>3. \A i \in DOMAIN collect_queue' :
             \/ i \in DOMAIN collect_queue /\ collect_queue'[i] = collect_queue[i]
             \/ i = Len(collect_queue) + 1 /\ collect_queue'[i] = checker.first
      BY SMTT(30), <2>4, <3>2, AppendIndex
    <3>4. CASE m = checker.first
      BY SMTT(30), <2>1, <2>2, <3>1, <3>3, <3>4 DEF OneEvent, InHeap, InQueue, InWork
    <3>5. CASE m # checker.first
      BY SMTT(30), <2>1, <2>2, <3>3, <3>5 DEF OneEvent, InHeap, InQueue, InWork
    <3> QED BY <3>4, <3>5
  <2>5. checker.first # Exit => checker.first \in Metrics
    BY <1>5 DEF CheckerDispatch, TypeOK, EventTypes
  <2> QED BY <1>5, <2>3, <2>4, <2>5 DEF CheckerDispatch
<1>6. ASSUME NEW c \in Collectors, Take(c) PROVE OneEvent'
  <2>1. /\ collect_queue \in Seq(Metrics) /\ collect_queue # << >>
        /\ collect_queue' = Tail(collect_queue)
        /\ UNCHANGED <<event_ds, checker, started>>
    BY <1>6 DEF Take, TypeOK, EventTypes
  <2>2. /\ \A i \in DOMAIN collect_queue' :
             i + 1 \in DOMAIN collect_queue /\ collect_queue'[i] = collect_queue[i + 1]
        /\ \A i \in DOMAIN collect_queue' : i + 1 # 1
        /\ \A i, j \in DOMAIN collect_queue' : i + 1 = j + 1 => i = j
        /\ 1 \in DOMAIN collect_queue /\ Head(collect_queue) = collect_queue[1]
    BY SMTT(30), <2>1, TailIndex
  <2>3. \A d \in Collectors :
          Holds(d)' => (d = c /\ job'[c] = collect_queue[1]) \/ (Holds(d) /\ job'[d] = job[d])
    <3>1. /\ at' = [at EXCEPT ![c] = "check"]
          /\ job' = [job EXCEPT ![c] = collect_queue[1]]
      BY <1>6, <2>2 DEF Take
    <3>2. at \in [Collectors -> WorkerPC] /\ job \in [Collectors -> Metrics \cup {None}]
      BY DEF TypeOK, WorkerTypes
    <3>3. \A d \in Collectors : d # c => at'[d] = at[d] /\ job'[d] = job[d]
      BY <3>1, <3>2
    <3>4. job'[c] = collect_queue[1]
      BY <3>1, <3>2
    <3> QED BY <3>3, <3>4 DEF Holds
  <2> SUFFICES ASSUME NEW m \in Metrics PROVE (OneEvent!(m))'
    BY DEF OneEvent
  <2>4. \A i \in DOMAIN collect_queue : InQueue(m, i) <=> collect_queue[i] = m
    BY DEF InQueue
  <2>5. \A i \in DOMAIN collect_queue' : InQueue(m, i)' <=> collect_queue[i + 1] = m
    BY <2>2 DEF InQueue
  <2>6. (InHeap(m)' <=> InHeap(m)) /\ (InHand(m)' <=> InHand(m)) /\ (started[m]' = started[m])
        /\ event_ds'[m] = event_ds[m]
    BY <2>1 DEF InHeap, InHand
  <2>7. \A d \in Collectors :
          InWork(m, d)' => (d = c /\ collect_queue[1] = m) \/ InWork(m, d)
    BY <2>3 DEF InWork
  <2>8. \A i, j \in DOMAIN collect_queue' : InQueue(m, i)' /\ InQueue(m, j)' => i = j
    <3> SUFFICES ASSUME NEW i \in DOMAIN collect_queue', NEW j \in DOMAIN collect_queue',
                        InQueue(m, i)', InQueue(m, j)'
                 PROVE  i + 1 = j + 1
      BY <2>2
    <3>1. InQueue(m, i + 1) /\ InQueue(m, j + 1)
      BY <2>2, <2>4, <2>5
    <3> QED BY <2>2, <3>1 DEF OneEvent
  <2>9. CASE collect_queue[1] = m
    <3>1. /\ started[m] /\ ~InHeap(m) /\ ~InHand(m)
          /\ \A i \in DOMAIN collect_queue : collect_queue[i] = m => i = 1
          /\ \A d \in Collectors : ~InWork(m, d)
      BY <2>2, <2>4, <2>9 DEF OneEvent
    <3>2. \A i \in DOMAIN collect_queue' : ~InQueue(m, i)'
      BY <2>2, <2>5, <3>1
    <3>3. \A d \in Collectors : InWork(m, d)' => d = c
      BY <2>7, <3>1
    <3> QED BY <2>6, <3>1, <3>2, <3>3 DEF OneEvent
  <2>10. CASE collect_queue[1] # m
    <3>1. \A d \in Collectors : InWork(m, d)' => InWork(m, d)
      BY <2>7, <2>10
    <3>2. \A i \in DOMAIN collect_queue' : InQueue(m, i)' => \E j \in DOMAIN collect_queue : InQueue(m, j)
      BY <2>2, <2>4, <2>5
    <3> QED BY <2>6, <2>8, <3>1, <3>2 DEF OneEvent
  <2> QED BY <2>9, <2>10
<1>7. ASSUME NEW c \in Collectors, Reschedule(c) PROVE OneEvent'
  <2>1. /\ job[c] \in Metrics /\ InWork(job[c], c)
        /\ event_ds' = [event_ds EXCEPT ![job[c]] = @ + 1]
        /\ event_ds \in [Item -> Nat]
        /\ UNCHANGED <<checker, started, collect_queue, job>>
    BY <1>7 DEF Reschedule, PutAndNotify, Goto, Holds, InWork, TypeOK, EventTypes, WorkerTypes
  <2>2. \A d \in Collectors : Holds(d)' => d # c /\ Holds(d)
    BY <1>7 DEF Reschedule, Goto, Holds, TypeOK, WorkerTypes
  <2> SUFFICES ASSUME NEW m \in Metrics PROVE (OneEvent!(m))'
    BY DEF OneEvent
  <2>3. \A d \in Collectors : InWork(m, d)' => d # c /\ InWork(m, d)
    BY <2>1, <2>2 DEF InWork
  <2>4. (InHand(m)' <=> InHand(m)) /\ \A i : InQueue(m, i)' <=> InQueue(m, i)
    BY <2>1 DEF InHand, InQueue
  <2>0. /\ ~InHeap(job[c]) => event_ds'[job[c]] <= 1
        /\ m # job[c] => event_ds'[m] = event_ds[m]
    BY <2>1, PutCounts DEF InHeap
  <2>5. CASE m = job[c]
    <3>1. /\ started[m] /\ ~InHeap(m) /\ ~InHand(m)
          /\ \A i \in DOMAIN collect_queue : ~InQueue(m, i)
          /\ \A d \in Collectors : InWork(m, d) => d = c
      BY <2>1, <2>5 DEF OneEvent
    <3> QED BY <2>0, <2>1, <2>3, <2>4, <2>5, <3>1 DEF OneEvent
  <2>6. CASE m # job[c]
    BY <2>0, <2>1, <2>3, <2>4, <2>6 DEF OneEvent, InHeap
  <2> QED BY <2>5, <2>6
<1>8. ASSUME NEW c \in Collectors, Collector(c), ~Take(c), ~Reschedule(c) PROVE OneEvent'
  <2>1. UNCHANGED <<event_ds, checker, started, collect_queue>>
    BY <1>8 DEF Collector, CheckAlive, SampleReturns, SampleRaises, AddValue, ReadAggregation,
                WriteAggregation, FinishCollect, IsReadyToSend, PutSend, ResetAggregation
  <2>2. \/ at' = [at EXCEPT ![c] = "get"] /\ job' = [job EXCEPT ![c] = None]
        \/ /\ UNCHANGED job
           /\ \E q \in WorkerPC : at' = [at EXCEPT ![c] = q]
           /\ Holds(c) \/ at'[c] \in {"send", "reset"}
    BY <1>8 DEF Collector, CheckAlive, SampleReturns, SampleRaises, AddValue, ReadAggregation,
                WriteAggregation, FinishCollect, IsReadyToSend, PutSend, ResetAggregation,
                Goto, Leave, Holds, WorkerPC, TypeOK, WorkerTypes
  <2>3. \A d \in Collectors : Holds(d)' => Holds(d) /\ job'[d] = job[d]
    BY <2>2 DEF Holds, TypeOK, WorkerTypes
  <2>4. \A m \in Metrics : InHand(m)' => InHand(m)
    BY <2>1 DEF InHand
  <2> QED BY <2>1, <2>3, <2>4, OneEventFrame
<1>9. CASE Sender \/ TerminateFlags \/ TerminateSend \/ Tick \/ UNCHANGED vars
  <2>1. UNCHANGED <<event_ds, checker, started, collect_queue, at, job>>
    BY <1>9 DEF Sender, SenderLoop, SenderGet, SenderCheck, SenderDrain, SenderPublish,
                TerminateFlags, TerminateSend, Tick
  <2> QED BY <2>1, OneEventFrame DEF InHand, Holds
<1>10. ASSUME NEW n \in Metrics, StartCollecting(n) PROVE OneEvent'
  <2>1. /\ event_ds' = [event_ds EXCEPT ![n] = @ + 1] /\ event_ds \in [Item -> Nat]
        /\ ~started[n] /\ started' = [started EXCEPT ![n] = TRUE]
        /\ started \in [Metrics -> BOOLEAN]
        /\ UNCHANGED <<checker, collect_queue, at, job>>
    BY <1>10 DEF StartCollecting, PutAndNotify, TypeOK, EventTypes, MetricTypes
  <2> SUFFICES ASSUME NEW m \in Metrics PROVE (OneEvent!(m))'
    BY DEF OneEvent
  <2>2. /\ InHand(m)' <=> InHand(m)
        /\ \A i : InQueue(m, i)' <=> InQueue(m, i)
        /\ \A c \in Collectors : InWork(m, c)' <=> InWork(m, c)
    BY <2>1 DEF InHand, InQueue, InWork, Holds
  <2>0. /\ ~InHeap(n) => event_ds'[n] <= 1
        /\ m # n => event_ds'[m] = event_ds[m]
    BY <2>1, PutCounts DEF InHeap
  <2>3. CASE m = n
    <3>1. /\ started'[m] /\ ~InHeap(m) /\ ~InHand(m)
          /\ \A i \in DOMAIN collect_queue : ~InQueue(m, i)
          /\ \A c \in Collectors : ~InWork(m, c)
      BY <2>1, <2>3 DEF OneEvent
    <3> QED BY <2>0, <2>1, <2>2, <2>3, <3>1 DEF OneEvent
  <2>4. CASE m # n
    BY <2>0, <2>1, <2>2, <2>4 DEF OneEvent, InHeap
  <2> QED BY <2>3, <2>4
<1>11. ASSUME NEW n \in Metrics, StopCollecting(n) PROVE OneEvent'
  <2>1. UNCHANGED <<event_ds, checker, started, collect_queue, at, job>>
    BY <1>11 DEF StopCollecting
  <2> QED BY <2>1, OneEventFrame DEF InHand, Holds
<1>12. CASE TerminateEvents
  <2>1. \A m \in Metrics : event_ds'[m] = event_ds[m]
    BY <1>12 DEF TerminateEvents, PutAndNotify, TypeOK, EventTypes
  <2>2. UNCHANGED <<checker, started, collect_queue, at, job>>
    BY <1>12 DEF TerminateEvents
  <2> QED BY <2>1, <2>2, OneEventFrame DEF InHand, Holds
<1> QED
  BY <1>next, <1>1, <1>2, <1>3, <1>4, <1>5, <1>6, <1>7, <1>8, <1>9, <1>10, <1>11, <1>12
     DEF Next, Checker, Terminate

-----------------------------------------------------------------------------
(* heappush keeps a least item at queue[0], and put_and_notify notifies    *)
(* the checker if that is no longer the item it sleeps on.                 *)
LEMMA PutHead ==
  ASSUME EventTypes, HeadIsLeast, SleepsOnHead, due \in [Metrics -> Int],
         NEW x \in Item, x \in Metrics => event_ds[x] = 0,
         due' \in [Metrics -> Int],
         \A m \in Metrics : event_ds[m] > 0 => due'[m] = due[m],
         PutAndNotify(x, due'), UNCHANGED checker
  PROVE  HeadIsLeast' /\ SleepsOnHead'
<1>1. /\ event_ds \in [Item -> Nat] /\ root \in Item \cup {None}
      /\ root # None => event_ds[root] > 0
      /\ event_ds' = [event_ds EXCEPT ![x] = @ + 1]
  BY DEF EventTypes, PutAndNotify
<1>2. CASE root' = x /\ (root = None \/ Before(due', x, root))
  <2>1. \A i \in Item : event_ds'[i] > 0 => ~Before(due', i, x)
    BY SMTT(30), <1>1, <1>2 DEF HeadIsLeast, Before
  <2>2. x # root
    BY SMTT(30), <1>2 DEF Before
  <2>3. checker.pc \in {"timed", "untimed"} => notified'
    BY <1>2, <2>2 DEF PutAndNotify, Waiting
  <2>4. SleepsOnHead'
    BY SMTT(30), <1>1, <2>3 DEF SleepsOnHead, EventTypes
  <2> QED BY <1>2, <2>1, <2>4 DEF HeadIsLeast
<1>3. CASE root' = root /\ root # None /\ ~Before(due', x, root)
  <2>1. \A i \in Item : event_ds'[i] > 0 => ~Before(due', i, root)
    BY <1>1, <1>3 DEF HeadIsLeast, Before
  <2> QED BY SMTT(30), <1>3, <2>1 DEF HeadIsLeast, SleepsOnHead, PutAndNotify, EventTypes
<1> QED BY <1>2, <1>3 DEF PutAndNotify

(* heappop leaves a least item at queue[0]; a checker that waits has just  *)
(* read queue[0].                                                          *)
LEMMA ScanHeadLeast ==
  ASSUME EventTypes, HeadIsLeast, ScanHead \/ (root # None /\ Pop), UNCHANGED due
  PROVE  HeadIsLeast' /\ SleepsOnHead'
<1>1. CASE root # None /\ Pop
  <2>1. HeadIsLeast'
    BY <1>1 DEF Pop, Least, HeadIsLeast, EventTypes, Before
  <2>2. checker'.pc = "got"
    BY <1>1 DEF Pop
  <2> QED BY <2>1, <2>2 DEF SleepsOnHead
<1>2. CASE (root # None /\ Sleep("timed")) \/ (root = None /\ Sleep("untimed"))
  <2>1. HeadIsLeast'
    BY <1>2 DEF Sleep, HeadIsLeast, Before
  <2>2. SleepsOnHead'
    BY SMTT(30), <1>2 DEF Sleep, SleepsOnHead, EventTypes
  <2> QED BY <2>1, <2>2
<1> QED BY <1>1, <1>2 DEF ScanHead, Dead, EventTypes

(* Time passes alike for all queued events.                                *)
LEMMA TickHead ==
  ASSUME EventTypes, MetricTypes, OneEvent, HeadIsLeast, Tick
  PROVE  HeadIsLeast'
<1>1. /\ UNCHANGED <<event_ds, root>> /\ due \in [Metrics -> Int] /\ MaxLag \in Nat
      /\ event_ds \in [Item -> Nat] /\ root \in Item \cup {None}
  BY DEF Tick, EventTypes, MetricTypes
<1>2. \A m \in Metrics : due'[m] = IF started[m] /\ due[m] > -MaxLag THEN due[m] - 1 ELSE due[m]
  BY DEF Tick
<1>3. \A m \in Metrics : event_ds[m] > 0 => started[m]
  BY DEF OneEvent, InHeap
<1>4. \A i, j \in Metrics :
        event_ds[i] > 0 /\ event_ds[j] > 0 /\ due[j] <= due[i] => due'[j] <= due'[i]
  BY SMTT(30), <1>1, <1>2, <1>3
<1>5. \A i \in Item :
        root # None /\ event_ds[i] > 0 /\ ~Before(due, i, root) => ~Before(due', i, root)
  <2> SUFFICES ASSUME NEW i \in Item, root # None, event_ds[i] > 0, ~Before(due, i, root)
               PROVE  ~Before(due', i, root)
    OBVIOUS
  <2>1. event_ds[root] > 0
    BY DEF EventTypes
  <2>2. CASE i \in Metrics /\ root \in Metrics
    BY SMTT(30), <1>1, <1>2, <1>4, <2>1, <2>2 DEF Before
  <2> QED BY <1>1, <2>2 DEF Before
<1> QED BY <1>1, <1>5 DEF HeadIsLeast

(* Every step keeps a least item at the head and wakes the checker when    *)
(* the head changes.                                                       *)
LEMMA HeadStep ==
  TypeOK /\ OneEvent /\ HeadIsLeast /\ SleepsOnHead /\ [Next]_vars
    => HeadIsLeast' /\ SleepsOnHead'
<1>next. SUFFICES ASSUME TypeOK, OneEvent, HeadIsLeast, SleepsOnHead, [Next]_vars
                  PROVE  HeadIsLeast' /\ SleepsOnHead'
  OBVIOUS
<1>inv. TypeOK /\ OneEvent /\ HeadIsLeast /\ SleepsOnHead
  BY <1>next
<1> USE <1>inv
<1>0. EventTypes /\ MetricTypes /\ MetricTypes' /\ due \in [Metrics -> Int]
      /\ due' \in [Metrics -> Int]
  <2>1. TypeOK'
    BY <1>next, TypeStep
  <2> QED BY <2>1 DEF TypeOK, MetricTypes
<1>1. ASSUME UNCHANGED <<event_ds, root, notified, due>>,
             checker' = checker \/ checker'.pc \in {"loop", "enter", "done"}
      PROVE  HeadIsLeast' /\ SleepsOnHead'
  <2>1. HeadIsLeast' BY <1>1 DEF HeadIsLeast, Before
  <2>2. SleepsOnHead' BY <1>1 DEF SleepsOnHead
  <2> QED BY <2>1, <2>2
<1>2. CASE CheckerLoop \/ CheckerDispatch
  <2>1. checker'.pc \in {"loop", "enter", "done"}
    BY SMTT(30), <1>0, <1>2 DEF CheckerLoop, CheckerDispatch, EventTypes
  <2> QED BY <1>1, <1>2, <2>1 DEF CheckerLoop, CheckerDispatch
<1>3. CASE GetNextElement
  BY <1>0, <1>3, ScanHeadLeast DEF GetNextElement
<1>4. CASE WakeTimed
  <2>1. root # None BY <1>0, <1>4 DEF WakeTimed, EventTypes
  <2> QED BY <1>0, <1>4, <2>1, ScanHeadLeast DEF WakeTimed
<1>5. CASE WakeUntimed
  <2>1. root # None BY <1>0, <1>5 DEF WakeUntimed, EventTypes
  <2> QED BY <1>0, <1>5, <2>1, ScanHeadLeast DEF WakeUntimed
<1>6. ASSUME NEW c \in Collectors, Reschedule(c) PROVE HeadIsLeast' /\ SleepsOnHead'
  <2>1. job[c] \in Metrics /\ InWork(job[c], c)
    BY <1>6 DEF Reschedule, Holds, InWork, TypeOK, WorkerTypes
  <2>2. event_ds[job[c]] = 0
    <3>1. ~InHeap(job[c])
      BY <2>1 DEF OneEvent
    <3> QED BY SMTT(30), <1>0, <2>1, <3>1 DEF InHeap, EventTypes
  <2>3. \A m \in Metrics : event_ds[m] > 0 => due'[m] = due[m]
    BY SMTT(30), <1>0, <1>6, <2>1, <2>2 DEF Reschedule
  <2> QED BY <1>0, <1>6, <2>1, <2>2, <2>3, PutHead DEF Reschedule
<1>7. ASSUME NEW c \in Collectors, Collector(c), ~Reschedule(c)
      PROVE  HeadIsLeast' /\ SleepsOnHead'
  <2>1. UNCHANGED <<event_ds, root, notified, due, checker>>
    BY <1>7 DEF Collector, Take, CheckAlive, SampleReturns, SampleRaises, AddValue,
                ReadAggregation, WriteAggregation, FinishCollect, IsReadyToSend, PutSend,
                ResetAggregation
  <2> QED BY <1>1, <2>1
<1>8. CASE Sender \/ TerminateFlags \/ TerminateSend \/ UNCHANGED vars
  <2>1. UNCHANGED <<event_ds, root, notified, due, checker>>
    BY <1>8 DEF Sender, SenderLoop, SenderGet, SenderCheck, SenderDrain, SenderPublish,
                TerminateFlags, TerminateSend
  <2> QED BY <1>1, <2>1
<1>9. CASE Tick
  <2>1. HeadIsLeast' BY <1>0, <1>9, TickHead
  <2>2. SleepsOnHead' BY <1>9 DEF Tick, SleepsOnHead
  <2> QED BY <2>1, <2>2
<1>10. ASSUME NEW n \in Metrics, StartCollecting(n) PROVE HeadIsLeast' /\ SleepsOnHead'
  <2>1. event_ds[n] = 0
    BY SMTT(30), <1>0, <1>10 DEF StartCollecting, OneEvent, InHeap, EventTypes
  <2>2. \A m \in Metrics : event_ds[m] > 0 => due'[m] = due[m]
    BY SMTT(30), <1>0, <1>10, <2>1 DEF StartCollecting
  <2> QED BY <1>0, <1>10, <2>1, <2>2, PutHead DEF StartCollecting
<1>11. ASSUME NEW n \in Metrics, StopCollecting(n) PROVE HeadIsLeast' /\ SleepsOnHead'
  BY <1>1, <1>11 DEF StopCollecting
<1>12. CASE TerminateEvents
  <2>1. PutAndNotify(Exit, due') /\ UNCHANGED <<due, checker>>
    BY <1>12 DEF TerminateEvents
  <2> QED BY <1>0, <2>1, PutHead
<1> QED
  BY <1>next, <1>2, <1>3, <1>4, <1>5, <1>6, <1>7, <1>8, <1>9, <1>10, <1>11, <1>12
     DEF Next, Checker, Terminate

-----------------------------------------------------------------------------
(* A step that neither lets a collector into a sampling function nor out   *)
(* of one, nor starts a metric, adds no late sample.                       *)
LEMMA LateFrame ==
  ASSUME LateIsLast, UNCHANGED late,
         \A m \in Metrics : (flag_alive'[m] \/ ~started'[m]) => (flag_alive[m] \/ ~started[m]),
         \A c \in Collectors : at'[c] = "sample" => at[c] = "sample" /\ job'[c] = job[c]
  PROVE  LateIsLast'
BY DEF LateIsLast

(* Only the collector that holds the metric's event can make the last      *)
(* sample late.                                                            *)
LEMMA LateStep == TypeOK /\ OneEvent /\ LateIsLast /\ [Next]_vars => LateIsLast'
<1>next. SUFFICES ASSUME TypeOK, OneEvent, LateIsLast, [Next]_vars PROVE LateIsLast'
  OBVIOUS
<1>inv. TypeOK /\ OneEvent /\ LateIsLast
  BY <1>next
<1> USE <1>inv
<1>1. ASSUME NEW c \in Collectors, SampleReturns(c) \/ SampleRaises(c) PROVE LateIsLast'
  <2>1. /\ job[c] \in Metrics /\ at[c] = "sample" /\ InWork(job[c], c)
        /\ late' = [late EXCEPT ![job[c]] = IF flag_alive[job[c]] THEN @ ELSE @ + 1]
        /\ UNCHANGED <<flag_alive, started, job>>
        /\ \E q \in WorkerPC \ {"sample"} : at' = [at EXCEPT ![c] = q]
    BY <1>1 DEF SampleReturns, SampleRaises, Goto, WorkerPC, InWork, Holds, TypeOK, WorkerTypes
  <2>2. late \in [Metrics -> Nat] /\ at \in [Collectors -> WorkerPC]
    BY DEF TypeOK, MetricTypes, WorkerTypes
  <2>3. late[job[c]] = 0
    BY SMTT(30), <2>1, <2>2 DEF LateIsLast
  <2>4. \A d \in Collectors : at'[d] = "sample" => d # c /\ at[d] = "sample"
    BY <2>1, <2>2
  <2>5. \A d \in Collectors : at'[d] = "sample" => job'[d] # job[c]
    BY <2>1, <2>4 DEF OneEvent, InWork, Holds
  <2> SUFFICES ASSUME NEW m \in Metrics PROVE (LateIsLast!(m))'
    BY DEF LateIsLast
  <2>6. CASE m = job[c]
    <3>1. started[m]
      BY <2>1, <2>6 DEF OneEvent
    <3>2. late'[m] = IF flag_alive[m] THEN 0 ELSE 1
      BY SMTT(30), <2>1, <2>2, <2>3, <2>6
    <3> QED BY SMTT(30), <2>1, <2>5, <2>6, <3>1, <3>2
  <2>7. CASE m # job[c]
    BY <2>1, <2>2, <2>4, <2>7 DEF LateIsLast
  <2> QED BY <2>6, <2>7
<1>2. ASSUME NEW c \in Collectors, CheckAlive(c) PROVE LateIsLast'
  <2>1. /\ UNCHANGED <<flag_alive, started, late>>
        /\ \/ flag_alive[job[c]] /\ UNCHANGED job /\ at' = [at EXCEPT ![c] = "sample"]
           \/ job' = [job EXCEPT ![c] = None] /\ at' = [at EXCEPT ![c] = "get"]
        /\ job[c] \in Metrics
        /\ at \in [Collectors -> WorkerPC] /\ job \in [Collectors -> Metrics \cup {None}]
    BY <1>2 DEF CheckAlive, Goto, Leave, TypeOK, WorkerTypes
  <2>2. \A d \in Collectors : at'[d] = "sample" =>
           job'[d] = job[d] /\ (at[d] = "sample" \/ flag_alive[job[d]])
    BY <2>1
  <2> QED BY SMTT(30), <2>1, <2>2 DEF LateIsLast
<1>3. ASSUME NEW c \in Collectors, Collector(c),
             ~CheckAlive(c), ~SampleReturns(c), ~SampleRaises(c)
      PROVE  LateIsLast'
  <2>1. /\ UNCHANGED <<flag_alive, started, late>>
        /\ \E q \in WorkerPC \ {"sample"} : at' = [at EXCEPT ![c] = q]
        /\ \A d \in Collectors : d # c => job'[d] = job[d]
    BY <1>3 DEF Collector, Take, AddValue, ReadAggregation, WriteAggregation, FinishCollect,
                Reschedule, IsReadyToSend, PutSend, ResetAggregation, Goto, Leave, WorkerPC,
                TypeOK, WorkerTypes
  <2>2. \A d \in Collectors : at'[d] = "sample" => at[d] = "sample" /\ job'[d] = job[d]
    BY <2>1 DEF TypeOK, WorkerTypes
  <2> QED BY <2>1, <2>2, LateFrame
<1>4. CASE Checker \/ Sender \/ Terminate \/ Tick \/ UNCHANGED vars
  <2>1. UNCHANGED <<flag_alive, started, late, at, job>>
    BY <1>4 DEF Checker, CheckerLoop, GetNextElement, WakeTimed, WakeUntimed, CheckerDispatch,
                Sender, SenderLoop, SenderGet, SenderCheck, SenderDrain, SenderPublish,
                Terminate, TerminateFlags, TerminateEvents, TerminateSend, Tick
  <2> QED BY <2>1, LateFrame
<1>5. ASSUME NEW n \in Metrics, StartCollecting(n) \/ StopCollecting(n) PROVE LateIsLast'
  <2>1. /\ UNCHANGED <<late, at, job>>
        /\ \A m \in Metrics : (flag_alive'[m] \/ ~started'[m]) => (flag_alive[m] \/ ~started[m])
    BY <1>5 DEF StartCollecting, StopCollecting, TypeOK, MetricTypes
  <2> QED BY <2>1, LateFrame
<1> QED
  BY <1>next, <1>1, <1>2, <1>3, <1>4, <1>5 DEF Next

-----------------------------------------------------------------------------
(* The inductive invariant holds in every reachable state.                 *)
THEOREM EventInvariant == Spec => []EventInv
<1>1. Init => EventInv
  <2> SUFFICES ASSUME Init PROVE EventInv
    OBVIOUS
  <2>1. TypeOK
    <3>0. << >> \in Seq(Nat) /\ << >> \in Seq(Metrics)
      BY SMTT(30)
    <3>1. MetricTypes /\ DataTypes
      BY SMTT(30), <3>0 DEF Init, MetricTypes, DataTypes
    <3>2. EventTypes
      BY <3>0 DEF Init, EventTypes
    <3>3. WorkerTypes
      BY <3>0 DEF Init, WorkerTypes, WorkerPC
    <3>4. SendTypes
      BY SMTT(30), <3>0 DEF Init, SendTypes
    <3> QED BY <3>1, <3>2, <3>3, <3>4 DEF TypeOK
  <2>2. OneEvent
    BY SMTT(30) DEF Init, OneEvent, InHeap, InHand, InQueue, InWork, Holds
  <2>3. HeadIsLeast /\ SleepsOnHead
    BY DEF Init, HeadIsLeast, SleepsOnHead
  <2>4. LateIsLast
    BY SMTT(30) DEF Init, LateIsLast
  <2> QED BY <2>1, <2>2, <2>3, <2>4 DEF EventInv
<1>2. EventInv /\ [Next]_vars => EventInv'
  BY TypeStep, OneEventStep, HeadStep, LateStep DEF EventInv
<1> QED BY <1>1, <1>2, PTL DEF Spec

(* Every variable keeps its type; in particular queue[0] is never read     *)
(* from an empty event_ds.                                                 *)
THEOREM TypeCorrect == Spec => []TypeOK
BY EventInvariant, PTL DEF EventInv

(* collect() of one metric never runs in two collectors at once: the two   *)
(* would both hold its only event.                                         *)
THEOREM SamplingIsExclusive == Spec => []CollectExclusive
<1>1. EventInv => CollectExclusive
  BY DEF EventInv, TypeOK, WorkerTypes, OneEvent, CollectExclusive, Collecting, InWork, Holds
<1> QED BY <1>1, EventInvariant, PTL

(* The checker never oversleeps the earliest queued event.                 *)
THEOREM NoMissedWakeup == Spec => []WakesInTime
<1>1. EventInv => WakesInTime
  <2> SUFFICES ASSUME EventInv PROVE WakesInTime
    OBVIOUS
  <2>1. EventTypes /\ due \in [Metrics -> Int] /\ HeadIsLeast /\ SleepsOnHead
    BY DEF EventInv, TypeOK, MetricTypes
  <2>2. ASSUME checker.pc = "timed", ~notified, NEW m \in Metrics, InHeap(m)
        PROVE  due[checker.first] <= due[m]
    <3>1. root = checker.first /\ root \in Metrics
      BY <2>1, <2>2 DEF SleepsOnHead, EventTypes
    <3>2. ~Before(due, m, root)
      BY <2>1, <2>2, <3>1 DEF HeadIsLeast, InHeap
    <3> QED BY SMTT(30), <2>1, <3>1, <3>2 DEF Before
  <2>3. checker.pc = "untimed" /\ ~notified => \A i \in Item : event_ds[i] = 0
    BY <2>1 DEF HeadIsLeast, SleepsOnHead
  <2> QED BY <2>2, <2>3 DEF WakesInTime
<1> QED BY <1>1, EventInvariant, PTL

(* At most one sampling call returns after stop_collecting().              *)
THEOREM StopIsPrompt == Spec => []StopsWithinOneSample
<1>1. EventInv => StopsWithinOneSample
  BY DEF EventInv, LateIsLast, StopsWithinOneSample
<1> QED BY <1>1, EventInvariant, PTL

(* A live metric leaves event_ds early only behind the back of a stopped   *)
(* one: the checker looks again at the item it slept on, which is queued   *)
(* and not before the head, so if that item is due the head is due too.    *)
THEOREM EarlyPopsAreExplained == Spec => EarlyOnlyPastDeadHead
<1> DEFINE Explained ==
      \A m \in Metrics :
         event_ds'[m] < event_ds[m] /\ flag_alive[m] /\ due[m] > 0 =>
            checker.pc = "timed" /\ checker.first # m /\ Dead(checker.first)
<1>1. EventInv /\ [Next]_vars => [Explained]_vars
  <2> SUFFICES ASSUME EventInv, Next, NEW m \in Metrics,
                      event_ds'[m] < event_ds[m], flag_alive[m], due[m] > 0
               PROVE  checker.pc = "timed" /\ checker.first # m /\ Dead(checker.first)
    OBVIOUS
  <2>1. /\ EventTypes /\ due \in [Metrics -> Int] /\ HeadIsLeast /\ SleepsOnHead
        /\ event_ds \in [Item -> Nat]
    BY DEF EventInv, TypeOK, MetricTypes, EventTypes
  <2>2. ASSUME NEW x \in Item, NEW d, PutAndNotify(x, d) PROVE FALSE
    BY SMTT(30), <2>1, <2>2 DEF PutAndNotify
  <2>3. event_ds' # event_ds
    BY SMTT(30), <2>1
  <2>4. ASSUME Pop, root # None PROVE m = root
    BY SMTT(30), <2>1, <2>4 DEF Pop, EventTypes
  <2>5. ASSUME ScanHead PROVE FALSE
    <3>1. CASE (root = Exit \/ Dead(root)) /\ Pop
      BY <2>1, <2>4, <3>1 DEF Dead
    <3>2. CASE Sleep("timed") \/ Sleep("untimed")
      BY SMTT(30), <2>1, <3>2 DEF Sleep
    <3> QED BY <2>5, <3>1, <3>2 DEF ScanHead
  <2>6. CASE GetNextElement
    BY <2>5, <2>6 DEF GetNextElement
  <2>7. CASE WakeTimed
    <3>1. Pop /\ Ready(checker.first) /\ root # None
      BY <2>1, <2>5, <2>7 DEF WakeTimed, EventTypes
    <3>2. m = root
      BY <2>4, <3>1
    <3>3. checker.pc = "timed" /\ checker.first \in Metrics
      BY <2>1, <2>7 DEF WakeTimed, EventTypes
    <3>4. ~Before(due, checker.first, m)
      BY <2>1, <3>2, <3>3 DEF HeadIsLeast, SleepsOnHead
    <3>5. due[m] <= due[checker.first]
      BY SMTT(30), <2>1, <3>3, <3>4 DEF Before
    <3>6. ~flag_alive[checker.first]
      BY SMTT(30), <2>1, <3>1, <3>3, <3>5 DEF Ready
    <3> QED BY <3>3, <3>6 DEF Dead
  <2>8. CASE WakeUntimed
    <3>1. root # None
      BY <2>1, <2>8 DEF WakeUntimed, EventTypes
    <3> QED BY SMTT(30), <2>1, <2>4, <2>5, <2>8, <3>1 DEF WakeUntimed, Ready
  <2>9. CASE CheckerLoop \/ CheckerDispatch \/ Sender \/ TerminateFlags \/ TerminateSend \/ Tick
    BY <2>3, <2>9 DEF CheckerLoop, CheckerDispatch, Sender, SenderLoop, SenderGet, SenderCheck,
                      SenderDrain, SenderPublish, TerminateFlags, TerminateSend, Tick
  <2>10. ASSUME NEW c \in Collectors, Collector(c) PROVE FALSE
    <3>1. CASE Reschedule(c)
      BY <2>2, <3>1 DEF Reschedule, EventInv, TypeOK, WorkerTypes
    <3>2. CASE ~Reschedule(c)
      BY <2>3, <2>10, <3>2 DEF Collector, Take, CheckAlive, SampleReturns, SampleRaises,
            AddValue, ReadAggregation, WriteAggregation, FinishCollect, IsReadyToSend, PutSend,
            ResetAggregation
    <3> QED BY <3>1, <3>2
  <2>11. ASSUME NEW n \in Metrics, StartCollecting(n) \/ StopCollecting(n) PROVE FALSE
    BY <2>2, <2>3, <2>11 DEF StartCollecting, StopCollecting
  <2>12. CASE TerminateEvents
    BY <2>2, <2>12 DEF TerminateEvents
  <2> QED
    BY <2>6, <2>7, <2>8, <2>9, <2>10, <2>11, <2>12 DEF Next, Checker, Terminate
<1> QED BY <1>1, EventInvariant, PTL DEF Spec, EarlyOnlyPastDeadHead
-----------------------------------------------------------------------------
(***************************************************************************)
(* The way of a sample from the sampling function to the DCC.              *)
(***************************************************************************)

(* A sequence is a function.                                               *)
LEMMA SeqIsFun == ASSUME NEW S, NEW q \in Seq(S) PROVE q \in [1..Len(q) -> S]
BY SMTT(30)

(* Nothing follows the only element.                                       *)
LEMMA LastTail == ASSUME NEW q \in Seq(Nat), Len(q) = 1 PROVE Tail(q) = << >>
<1>1. q # << >>
  <2>1. Len(<< >>) = 0 /\ 0 # 1
    BY SMTT(30)
  <2> QED BY <2>1
<1>2. Tail(q) \in Seq(Nat) /\ Len(Tail(q)) = 0
  BY SMTT(30), <1>1
<1>3. \A t \in Seq(Nat) : Len(t) = 0 => t = << >>
  BY SMTT(30)
<1> QED BY <1>2, <1>3

(* q holds the samples that follow number b.                               *)
Run(q, b) == \A i \in 1..Len(q) : q[i] = b + i

(* Of n samples, those up to some b are delivered, in order, or lost; the   *)
(* rest is in flight (f), in values (v) and with the collector (p).        *)
Flow(f, v, p, n, sent, gone) ==
  \E b \in Nat :
    /\ n = b + Len(f) + Len(v) + Len(p)
    /\ Run(f, b) /\ Run(v, b + Len(f)) /\ Run(p, b + Len(f) + Len(v))
    /\ \A i \in 1..Len(sent) : sent[i] \in 1..b /\ sent[i] \notin gone
    /\ \A i, j \in 1..Len(sent) : i < j => sent[i] < sent[j]
    /\ gone \subseteq 1..b
    /\ \A x \in 1..b : x \in gone \/ \E i \in 1..Len(sent) : sent[i] = x

(* metric.collect() returns k values.                                      *)
LEMMA FlowSample ==
  ASSUME NEW f \in Seq(Nat), NEW v \in Seq(Nat), NEW n \in Nat, NEW sent \in Seq(Nat), NEW gone,
         NEW k \in Nat, Flow(f, v, << >>, n, sent, gone)
  PROVE  Flow(f, v, [i \in 1..k |-> n + i], n + k, sent, gone)
<1> DEFINE p == [i \in 1..k |-> n + i]
<1>1. Len(<< >>) = 0 /\ p \in Seq(Nat) /\ Len(p) = k /\ \A i \in 1..k : p[i] = n + i
  BY SMTT(30)
<1> HIDE DEF p
<1>2. Len(f) \in Nat /\ Len(v) \in Nat
  BY SMTT(30)
<1>3. PICK b \in Nat :
        /\ n = b + Len(f) + Len(v) + 0
        /\ Run(f, b) /\ Run(v, b + Len(f))
        /\ \A i \in 1..Len(sent) : sent[i] \in 1..b /\ sent[i] \notin gone
        /\ \A i, j \in 1..Len(sent) : i < j => sent[i] < sent[j]
        /\ gone \subseteq 1..b
        /\ \A x \in 1..b : x \in gone \/ \E i \in 1..Len(sent) : sent[i] = x
  BY <1>1 DEF Flow
<1>4. n = b + Len(f) + Len(v) /\ n + k = b + Len(f) + Len(v) + Len(p)
  BY SMTT(30), <1>1, <1>2, <1>3
<1>5. Run(p, b + Len(f) + Len(v))
  BY <1>1, <1>4 DEF Run
<1> QED
  BY <1>3, <1>4, <1>5 DEF Flow, p

(* values.put() of the first of them.                                      *)
LEMMA FlowAdd ==
  ASSUME NEW f \in Seq(Nat), NEW v \in Seq(Nat), NEW p \in Seq(Nat), p # << >>, NEW n, NEW sent, NEW gone,
         Flow(f, v, p, n, sent, gone)
  PROVE  Flow(f, Append(v, Head(p)), Tail(p), n, sent, gone)
<1> DEFINE w == Append(v, Head(p))
           q == Tail(p)
<1>1. /\ Len(f) \in Nat /\ Len(v) \in Nat /\ Len(p) \in Nat /\ Len(p) # 0
      /\ Len(w) = Len(v) + 1 /\ Len(q) = Len(p) - 1
      /\ \A i \in 1..Len(v) : w[i] = v[i]
      /\ w[Len(v) + 1] = p[1]
      /\ \A i \in 1..Len(q) : q[i] = p[i + 1]
  BY SMTT(30)
<1> HIDE DEF w, q
<1>2. PICK b \in Nat :
        /\ n = b + Len(f) + Len(v) + Len(p)
        /\ Run(f, b) /\ Run(v, b + Len(f)) /\ Run(p, b + Len(f) + Len(v))
        /\ \A i \in 1..Len(sent) : sent[i] \in 1..b /\ sent[i] \notin gone
        /\ \A i, j \in 1..Len(sent) : i < j => sent[i] < sent[j]
        /\ gone \subseteq 1..b
        /\ \A x \in 1..b : x \in gone \/ \E i \in 1..Len(sent) : sent[i] = x
  BY DEF Flow
<1>3. n = b + Len(f) + Len(w) + Len(q)
  BY SMTT(30), <1>1, <1>2
<1>4. Run(w, b + Len(f))
  <2>1. \A i \in 1..Len(w) : i \in 1..Len(v) \/ i = Len(v) + 1
    BY SMTT(30), <1>1
  <2>2. w[Len(v) + 1] = b + Len(f) + (Len(v) + 1)
    BY SMTT(30), <1>1, <1>2 DEF Run
  <2> QED
    BY <1>1, <1>2, <2>1, <2>2 DEF Run
<1>5. Run(q, b + Len(f) + Len(w))
  <2> SUFFICES ASSUME NEW i \in 1..Len(q) PROVE q[i] = b + Len(f) + Len(w) + i
    BY DEF Run
  <2>1. i + 1 \in 1..Len(p) /\ b + Len(f) + Len(v) + (i + 1) = b + Len(f) + Len(w) + i
    BY SMTT(30), <1>1
  <2>2. p[i + 1] = b + Len(f) + Len(v) + (i + 1)
    BY <1>2, <2>1 DEF Run
  <2> QED
    BY <1>1, <2>1, <2>2
<1> QED
  BY <1>2, <1>3, <1>4, <1>5 DEF Flow, w, q

(* send_data() drains values.                                              *)
LEMMA FlowDrain ==
  ASSUME NEW v \in Seq(Nat), NEW p \in Seq(Nat), NEW n, NEW sent, NEW gone,
         Flow(<< >>, v, p, n, sent, gone)
  PROVE  Flow(v, << >>, p, n, sent, gone)
<1>1. Len(<< >>) = 0 /\ Len(v) \in Nat /\ Len(p) \in Nat
  BY SMTT(30)
<1>2. PICK b \in Nat :
        /\ n = b + 0 + Len(v) + Len(p)
        /\ Run(v, b + 0) /\ Run(p, b + 0 + Len(v))
        /\ \A i \in 1..Len(sent) : sent[i] \in 1..b /\ sent[i] \notin gone
        /\ \A i, j \in 1..Len(sent) : i < j => sent[i] < sent[j]
        /\ gone \subseteq 1..b
        /\ \A x \in 1..b : x \in gone \/ \E i \in 1..Len(sent) : sent[i] = x
  BY <1>1 DEF Flow
<1>3. b + 0 = b /\ b + Len(v) + 0 = b + Len(v) /\ n = b + Len(v) + 0 + Len(p)
  BY SMTT(30), <1>1, <1>2
<1>4. Run(<< >>, b + Len(v))
  BY SMTT(30) DEF Run
<1> QED
  BY <1>1, <1>2, <1>3, <1>4 DEF Flow

(* The DCC accepts the batch.                                              *)
LEMMA FlowPublish ==
  ASSUME NEW f \in Seq(Nat), NEW v \in Seq(Nat), NEW p \in Seq(Nat), NEW n, NEW sent \in Seq(Nat),
         NEW gone, Flow(f, v, p, n, sent, gone)
  PROVE  Flow(<< >>, v, p, n, sent \o f, gone)
<1> DEFINE s == sent \o f
<1>1. /\ Len(f) \in Nat /\ Len(v) \in Nat /\ Len(p) \in Nat /\ Len(sent) \in Nat /\ Len(<< >>) = 0
      /\ Len(s) = Len(sent) + Len(f)
      /\ \A i \in 1..Len(sent) : s[i] = sent[i]
      /\ \A i \in 1..Len(f) : s[Len(sent) + i] = f[i]
  BY SMTT(30)
<1> HIDE DEF s
<1>2. PICK b \in Nat :
        /\ n = b + Len(f) + Len(v) + Len(p)
        /\ Run(f, b) /\ Run(v, b + Len(f)) /\ Run(p, b + Len(f) + Len(v))
        /\ \A i \in 1..Len(sent) : sent[i] \in 1..b /\ sent[i] \notin gone
        /\ \A i, j \in 1..Len(sent) : i < j => sent[i] < sent[j]
        /\ gone \subseteq 1..b
        /\ \A x \in 1..b : x \in gone \/ \E i \in 1..Len(sent) : sent[i] = x
  BY DEF Flow
<1> DEFINE e == b + Len(f)
<1>3. e \in Nat /\ n = e + 0 + Len(v) + Len(p) /\ e + 0 = e
  BY SMTT(30), <1>1, <1>2
<1>4. \A i \in 1..Len(s) :
        \/ i \in 1..Len(sent) /\ s[i] = sent[i]
        \/ i > Len(sent) /\ s[i] = b + (i - Len(sent)) /\ i - Len(sent) \in 1..Len(f)
  <2> SUFFICES ASSUME NEW i \in 1..Len(s), i \notin 1..Len(sent)
               PROVE  i > Len(sent) /\ s[i] = b + (i - Len(sent)) /\ i - Len(sent) \in 1..Len(f)
    BY <1>1
  <2>1. i > Len(sent) /\ i - Len(sent) \in 1..Len(f) /\ Len(sent) + (i - Len(sent)) = i
    BY SMTT(30), <1>1
  <2>2. s[i] = f[i - Len(sent)]
    BY <1>1, <2>1
  <2> QED BY <1>2, <2>1, <2>2 DEF Run
<1>5. ASSUME NEW i \in 1..Len(s) PROVE s[i] \in 1..e /\ s[i] \notin gone
  <2>1. CASE i \in 1..Len(sent) /\ s[i] = sent[i]
    <3>1. s[i] \in 1..b /\ s[i] \notin gone
      BY <1>2, <2>1
    <3> QED BY SMTT(30), <1>1, <3>1
  <2>2. CASE i > Len(sent) /\ s[i] = b + (i - Len(sent)) /\ i - Len(sent) \in 1..Len(f)
    BY SMTT(30), <1>1, <1>2, <2>2
  <2> QED BY <1>4, <2>1, <2>2
<1>6. ASSUME NEW i \in 1..Len(s), NEW j \in 1..Len(s), i < j PROVE s[i] < s[j]
  <2>1. CASE j \in 1..Len(sent) /\ s[j] = sent[j]
    <3>1. i \in 1..Len(sent)
      BY SMTT(30), <1>1, <1>6, <2>1
    <3> QED BY <1>1, <1>2, <1>6, <2>1, <3>1
  <2>2. CASE j > Len(sent) /\ s[j] = b + (j - Len(sent)) /\ j - Len(sent) \in 1..Len(f)
    <3>1. CASE i \in 1..Len(sent) /\ s[i] = sent[i]
      <4>1. s[i] \in 1..b
        BY <1>2, <3>1
      <4> QED BY SMTT(30), <1>1, <2>2, <4>1
    <3>2. CASE i > Len(sent) /\ s[i] = b + (i - Len(sent)) /\ i - Len(sent) \in 1..Len(f)
      BY SMTT(30), <1>1, <1>6, <2>2, <3>2
    <3> QED BY <1>4, <3>1, <3>2
  <2> QED BY <1>4, <2>1, <2>2
<1>7. gone \subseteq 1..e
  BY SMTT(30), <1>1, <1>2
<1>8. ASSUME NEW x \in 1..e PROVE x \in gone \/ \E i \in 1..Len(s) : s[i] = x
  <2>1. CASE x \in 1..b
    <3>1. \A i \in 1..Len(sent) : i \in 1..Len(s)
      BY SMTT(30), <1>1
    <3> QED BY <1>1, <1>2, <2>1, <3>1
  <2>2. CASE x \notin 1..b
    <3>1. x - b \in 1..Len(f) /\ Len(sent) + (x - b) \in 1..Len(s) /\ b + (x - b) = x
      BY SMTT(30), <1>1, <1>2, <2>2
    <3>2. s[Len(sent) + (x - b)] = x
      BY <1>1, <1>2, <3>1 DEF Run
    <3> QED BY <3>1, <3>2
  <2> QED BY <2>1, <2>2
<1>9. Run(<< >>, e)
  BY SMTT(30) DEF Run
<1> QED
  BY <1>1, <1>2, <1>3, <1>5, <1>6, <1>7, <1>8, <1>9 DEF Flow, s

(* The publish fails and the batch is lost.                                *)
LEMMA FlowLose ==
  ASSUME NEW f \in Seq(Nat), NEW v \in Seq(Nat), NEW p \in Seq(Nat), NEW n, NEW sent \in Seq(Nat),
         NEW gone, Flow(f, v, p, n, sent, gone)
  PROVE  Flow(<< >>, v, p, n, sent, gone \cup {f[i] : i \in DOMAIN f})
<1> DEFINE g == gone \cup {f[i] : i \in DOMAIN f}
<1>1. /\ Len(f) \in Nat /\ Len(v) \in Nat /\ Len(p) \in Nat /\ Len(<< >>) = 0
      /\ DOMAIN f = 1..Len(f)
  BY SMTT(30)
<1>2. PICK b \in Nat :
        /\ n = b + Len(f) + Len(v) + Len(p)
        /\ Run(f, b) /\ Run(v, b + Len(f)) /\ Run(p, b + Len(f) + Len(v))
        /\ \A i \in 1..Len(sent) : sent[i] \in 1..b /\ sent[i] \notin gone
        /\ \A i, j \in 1..Len(sent) : i < j => sent[i] < sent[j]
        /\ gone \subseteq 1..b
        /\ \A x \in 1..b : x \in gone \/ \E i \in 1..Len(sent) : sent[i] = x
  BY DEF Flow
<1> DEFINE e == b + Len(f)
<1>3. e \in Nat /\ n = e + 0 + Len(v) + Len(p) /\ e + 0 = e
  BY SMTT(30), <1>1, <1>2
<1>4. \A x : x \in g <=> x \in gone \/ \E i \in 1..Len(f) : x = b + i
  <2>1. \A i \in 1..Len(f) : f[i] = b + i
    BY <1>2 DEF Run
  <2>2. \A x : x \in {f[i] : i \in DOMAIN f} <=> \E i \in 1..Len(f) : x = f[i]
    BY <1>1
  <2> QED BY <2>1, <2>2
<1> HIDE DEF g
<1>5. \A i \in 1..Len(sent) : sent[i] \in 1..e /\ sent[i] \notin g
  BY SMTT(30), <1>1, <1>2, <1>4
<1>6. ASSUME NEW x \in g PROVE x \in 1..e
  <2>1. CASE x \in gone
    <3>1. x \in 1..b
      BY <1>2, <2>1
    <3> QED BY SMTT(30), <1>1, <3>1
  <2>2. CASE \E i \in 1..Len(f) : x = b + i
    BY SMTT(30), <1>1, <2>2
  <2> QED BY <1>4, <1>6, <2>1, <2>2
<1>7. ASSUME NEW x \in 1..e PROVE x \in g \/ \E i \in 1..Len(sent) : sent[i] = x
  <2>1. CASE x \in 1..b
    BY <1>2, <1>4, <2>1
  <2>2. CASE x \notin 1..b
    <3>1. x - b \in 1..Len(f) /\ b + (x - b) = x
      BY SMTT(30), <1>1, <2>2
    <3> QED BY <1>4, <3>1
  <2> QED BY <2>1, <2>2
<1>8. Run(<< >>, e)
  BY SMTT(30) DEF Run
<1> QED
  BY <1>1, <1>2, <1>3, <1>5, <1>6, <1>7, <1>8 DEF Flow, g

(* SampleFlow for a metric with these unsent samples.                      *)
Accounted(u, t, sent, gone) ==
  LET n == Len(u)
  IN  /\ u = [i \in 1..n |-> t - n + i]
      /\ \A i, j \in DOMAIN sent : i < j => sent[i] < sent[j]
      /\ {sent[i] : i \in DOMAIN sent} \cap gone = {}
      /\ {sent[i] : i \in DOMAIN sent} \cup gone = 1..(t - n)

(* What is neither delivered nor lost is the latest samples, in order.     *)
LEMMA FlowIsSampleFlow ==
  ASSUME NEW f \in Seq(Nat), NEW v \in Seq(Nat), NEW p \in Seq(Nat), NEW t \in Nat, NEW sent \in Seq(Nat),
         NEW gone, Flow(f, v, p, t, sent, gone)
  PROVE  Accounted(f \o v \o p, t, sent, gone)
<1> DEFINE u == f \o v \o p
           n == Len(u)
<1>1. /\ Len(f) \in Nat /\ Len(v) \in Nat /\ Len(p) \in Nat /\ DOMAIN sent = 1..Len(sent)
      /\ u \in Seq(Nat) /\ n = Len(f) + Len(v) + Len(p) /\ DOMAIN u = 1..n
  BY SMTT(30)
<1>2. /\ \A i \in 1..Len(f) : u[i] = f[i]
      /\ \A i \in 1..Len(v) : u[Len(f) + i] = v[i]
      /\ \A i \in 1..Len(p) : u[Len(f) + Len(v) + i] = p[i]
  BY SMTT(30)
<1> HIDE DEF u, n
<1>3. PICK b \in Nat :
        /\ t = b + Len(f) + Len(v) + Len(p)
        /\ Run(f, b) /\ Run(v, b + Len(f)) /\ Run(p, b + Len(f) + Len(v))
        /\ \A i \in 1..Len(sent) : sent[i] \in 1..b /\ sent[i] \notin gone
        /\ \A i, j \in 1..Len(sent) : i < j => sent[i] < sent[j]
        /\ gone \subseteq 1..b
        /\ \A x \in 1..b : x \in gone \/ \E i \in 1..Len(sent) : sent[i] = x
  BY DEF Flow
<1>4. t - n = b /\ n \in Nat
  BY SMTT(30), <1>1, <1>3
<1>5. ASSUME NEW i \in 1..n PROVE u[i] = b + i
  <2>1. CASE i <= Len(f)
    <3>1. i \in 1..Len(f)
      BY SMTT(30), <1>1, <2>1
    <3> QED BY <1>2, <1>3, <3>1 DEF Run
  <2>2. CASE i > Len(f) /\ i <= Len(f) + Len(v)
    <3>1. /\ i - Len(f) \in 1..Len(v) /\ Len(f) + (i - Len(f)) = i
          /\ b + Len(f) + (i - Len(f)) = b + i
      BY SMTT(60), <1>1, <2>2
    <3>2. v[i - Len(f)] = b + Len(f) + (i - Len(f))
      BY <1>3, <3>1 DEF Run
    <3>3. u[Len(f) + (i - Len(f))] = v[i - Len(f)]
      BY <1>2, <3>1
    <3> QED BY <3>1, <3>2, <3>3
  <2>3. CASE i > Len(f) + Len(v)
    <3>1. /\ i - (Len(f) + Len(v)) \in 1..Len(p) /\ Len(f) + Len(v) + (i - (Len(f) + Len(v))) = i
          /\ b + Len(f) + Len(v) + (i - (Len(f) + Len(v))) = b + i
      BY SMTT(30), <1>1, <2>3
    <3>2. p[i - (Len(f) + Len(v))] = b + Len(f) + Len(v) + (i - (Len(f) + Len(v)))
      BY <1>3, <3>1 DEF Run
    <3>3. u[Len(f) + Len(v) + (i - (Len(f) + Len(v)))] = p[i - (Len(f) + Len(v))]
      BY <1>2, <3>1
    <3> QED BY <3>1, <3>2, <3>3
  <2> QED BY SMTT(30), <1>1, <2>1, <2>2, <2>3
<1>6. u = [i \in 1..n |-> t - n + i]
  <2>1. u \in [1..n -> Nat]
    BY <1>1, SeqIsFun
  <2>2. \A i \in 1..n : u[i] = t - n + i
    BY <1>4, <1>5
  <2> QED BY <2>1, <2>2
<1>7. {sent[i] : i \in DOMAIN sent} \cap gone = {}
  <2>1. \A i \in 1..Len(sent) : sent[i] \notin gone
    BY <1>3
  <2> QED BY <1>1, <2>1
<1>8. {sent[i] : i \in DOMAIN sent} \cup gone = 1..(t - n)
  <2>1. \A x : x \in {sent[i] : i \in DOMAIN sent} <=> \E i \in 1..Len(sent) : x = sent[i]
    BY <1>1
  <2>2. \A x \in 1..b : x \in {sent[i] : i \in DOMAIN sent} \/ x \in gone
    BY <1>3, <2>1
  <2>3. ASSUME NEW x, NEW i \in 1..Len(sent), x = sent[i] PROVE x \in 1..b
    BY <1>3, <2>3
  <2> QED BY <1>3, <1>4, <2>1, <2>2, <2>3
<1> QED
  BY <1>1, <1>3, <1>6, <1>7, <1>8 DEF Accounted, u, n

(* The samples of every metric flow.                                       *)
FlowInv ==
  \A m \in Metrics : Flow(InFlight(m), values[m], Pending(m), taken[m], delivered[m], lost[m])

(* What is pending is with the one collector that adds it, if there is one. *)
PendingFits ==
  \A m \in Metrics :
    /\ \A c \in Collectors : at[c] = "add" /\ job[c] = m => Pending(m) = got[c]
    /\ (\A c \in Collectors : ~(at[c] = "add" /\ job[c] = m)) => Pending(m) = << >>
    /\ Pending(m) \in Seq(Nat) /\ InFlight(m) \in Seq(Nat)

(* It is: two such collectors would both hold the metric's event.          *)
LEMMA PendingIs == TypeOK /\ OneEvent => PendingFits
<1> SUFFICES ASSUME TypeOK, OneEvent, NEW m \in Metrics PROVE PendingFits!(m)
  BY DEF PendingFits
<1>1. << >> \in Seq(Nat) /\ got \in [Collectors -> Seq(Nat)] /\ sender.batch \in Seq(Nat)
  BY SMTT(30) DEF TypeOK, WorkerTypes, SendTypes
<1>2. ASSUME NEW c \in Collectors, at[c] = "add", job[c] = m PROVE Pending(m) = got[c]
  <2> DEFINE d == CHOOSE d \in Collectors : at[d] = "add" /\ job[d] = m
  <2>1. d \in Collectors /\ at[d] = "add" /\ job[d] = m
    BY <1>2
  <2>2. d = c
    BY <1>2, <2>1 DEF OneEvent, InWork, Holds
  <2> QED BY <1>2, <2>2 DEF Pending
<1>3. (\A c \in Collectors : ~(at[c] = "add" /\ job[c] = m)) => Pending(m) = << >>
  BY DEF Pending
<1>4. Pending(m) \in Seq(Nat)
  <2>1. CASE \E c \in Collectors : at[c] = "add" /\ job[c] = m
    <3>1. PICK c \in Collectors : at[c] = "add" /\ job[c] = m
      BY <2>1
    <3>2. Pending(m) = got[c] /\ got[c] \in Seq(Nat)
      BY <1>1, <1>2, <3>1
    <3> QED BY <3>2
  <2> QED BY <1>1, <1>3, <2>1
<1>5. InFlight(m) \in Seq(Nat)
  BY <1>1 DEF InFlight
<1> QED BY <1>2, <1>3, <1>4, <1>5

(* A step that leaves the collectors that add values alone leaves what is  *)
(* pending alone.                                                          *)
LEMMA SamePending ==
  ASSUME PendingFits, PendingFits', NEW m \in Metrics,
         \A c \in Collectors : (at'[c] = "add" /\ job'[c] = m) <=> (at[c] = "add" /\ job[c] = m),
         \A c \in Collectors : at[c] = "add" /\ job[c] = m => got'[c] = got[c]
  PROVE  Pending(m)' = Pending(m)
<1>1. ASSUME NEW c \in Collectors, at[c] = "add", job[c] = m PROVE Pending(m)' = Pending(m)
  <2>1. Pending(m) = got[c]
    BY <1>1 DEF PendingFits
  <2>2. Pending(m)' = got'[c]
    BY <1>1 DEF PendingFits
  <2> QED BY <1>1, <2>1, <2>2
<1>2. ASSUME \A c \in Collectors : ~(at[c] = "add" /\ job[c] = m) PROVE Pending(m)' = Pending(m)
  <2>1. Pending(m) = << >>
    BY <1>2 DEF PendingFits
  <2>2. Pending(m)' = << >>
    BY <1>2 DEF PendingFits
  <2> QED BY <2>1, <2>2
<1> QED BY <1>1, <1>2

(* A read that finds nothing takes no samples.                             *)
LEMMA NoRun == \A v : [i \in 1..0 |-> v + i] = << >>
  BY SMTT(30)

(* Every step keeps the samples in order and loses none but by a failed    *)
(* publish.                                                                *)
LEMMA FlowStep ==
  ASSUME TypeOK, OneEvent, TypeOK', OneEvent', FlowInv, [Next]_vars
  PROVE  FlowInv'
<1>0. /\ PendingFits /\ PendingFits'
      /\ at \in [Collectors -> WorkerPC] /\ job \in [Collectors -> Metrics \cup {None}]
      /\ got \in [Collectors -> Seq(Nat)] /\ taken \in [Metrics -> Nat]
      /\ values \in [Metrics -> Seq(Nat)] /\ delivered \in [Metrics -> Seq(Nat)]
      /\ lost \in [Metrics -> SUBSET Nat]
      /\ \A c \in Collectors : at[c] # "get" => job[c] \in Metrics
      /\ \A c \in Collectors : at[c] = "add" => got[c] # << >>
      /\ sender.pc \in {"drain", "publish"} => sender.item \in Metrics
      /\ \E pc, i, b : sender = [pc |-> pc, item |-> i, batch |-> b]
  <2>2. \E pc, i, b : sender = [pc |-> pc, item |-> i, batch |-> b]
    BY SMTT(30) DEF TypeOK, SendTypes
  <2>1. PendingFits'
    BY PendingIs, PTL
  <2> QED BY <2>1, <2>2, PendingIs DEF TypeOK, WorkerTypes, DataTypes, SendTypes
<1>1. ASSUME NEW m \in Metrics,
             \A c \in Collectors : (at'[c] = "add" /\ job'[c] = m) <=> (at[c] = "add" /\ job[c] = m),
             \A c \in Collectors : at[c] = "add" /\ job[c] = m => got'[c] = got[c],
             values'[m] = values[m], taken'[m] = taken[m], delivered'[m] = delivered[m],
             lost'[m] = lost[m], InFlight(m)' = InFlight(m)
      PROVE  (FlowInv!(m))'
  BY <1>0, <1>1, SamePending DEF FlowInv
<1>2. ASSUME NEW c \in Collectors, SampleReturns(c) PROVE FlowInv'
  <2>1. /\ at[c] = "sample" /\ job[c] \in Metrics /\ UNCHANGED <<job, values, sendVars>>
        /\ \A d \in Collectors : d # c => at'[d] = at[d] /\ got'[d] = got[d]
        /\ \A m \in Metrics : InFlight(m)' = InFlight(m)
    BY <1>0, <1>2 DEF SampleReturns, Goto, InFlight
  <2>2. ASSUME NEW d \in Collectors, at[d] = "add" PROVE job[d] # job[c]
    <3>1. Holds(c) /\ Holds(d) /\ c # d
      BY <2>1, <2>2 DEF Holds
    <3>2. job[d] = job[c] => InWork(job[c], c) /\ InWork(job[c], d)
      BY <3>1 DEF InWork
    <3> QED BY <2>1, <3>1, <3>2 DEF OneEvent
  <2>3. CASE Goto(c, "finish") /\ UNCHANGED <<got, sum, taken>>
    <3>1. at'[c] = "finish"
      BY <1>0, <2>3 DEF Goto
    <3>2. \A d \in Collectors : at'[d] = "add" <=> at[d] = "add"
      BY <2>1, <3>1
    <3> SUFFICES ASSUME NEW m \in Metrics PROVE (FlowInv!(m))'
      BY DEF FlowInv
    <3> QED BY <1>1, <2>1, <2>3, <3>2
  <2>4. ASSUME NEW k \in 0..MaxList, got' = [got EXCEPT ![c] = [i \in 1..k |-> taken[job[c]] + i]],
               taken' = [taken EXCEPT ![job[c]] = @ + k], Goto(c, IF k = 0 THEN "read" ELSE "add")
        PROVE  FlowInv'
    <3>0. taken[job[c]] \in Nat
      BY <1>0, <2>1
    <3>1. k \in Nat /\ taken[job[c]] \in Nat
      BY SMTT(30), <3>0
    <3>2. /\ at'[c] = IF k = 0 THEN "read" ELSE "add"
          /\ got'[c] = [i \in 1..k |-> taken[job[c]] + i] /\ taken'[job[c]] = taken[job[c]] + k
      BY <1>0, <2>1, <2>4 DEF Goto
    <3>3. Pending(job[c]) = << >>
      BY <1>0, <2>1, <2>2 DEF PendingFits
    <3>4. Pending(job[c])' = [i \in 1..k |-> taken[job[c]] + i]
      <4>1. CASE k = 0
        <5>1. \A d \in Collectors : ~(at'[d] = "add" /\ job'[d] = job[c])
          BY <2>1, <2>2, <3>2, <4>1
        <5>2. Pending(job[c])' = << >>
          BY <1>0, <2>1, <5>1 DEF PendingFits
        <5>3. [i \in 1..k |-> taken[job[c]] + i] = << >>
          BY <4>1, NoRun
        <5> QED BY <5>2, <5>3
      <4>2. CASE k # 0
        BY <1>0, <2>1, <3>2, <4>2 DEF PendingFits
      <4> QED BY <4>1, <4>2
    <3> SUFFICES ASSUME NEW m \in Metrics PROVE (FlowInv!(m))'
      BY DEF FlowInv
    <3>5. CASE m = job[c]
      <4>1. Flow(InFlight(m), values[m], << >>, taken[m], delivered[m], lost[m])
        BY <3>3, <3>5 DEF FlowInv
      <4>2. InFlight(m) \in Seq(Nat) /\ values[m] \in Seq(Nat) /\ delivered[m] \in Seq(Nat)
        BY <1>0 DEF PendingFits
      <4>3. Flow(InFlight(m), values[m], [i \in 1..k |-> taken[m] + i], taken[m] + k, delivered[m], lost[m])
        BY <3>1, <3>5, <4>1, <4>2, FlowSample
      <4> QED BY <2>1, <3>2, <3>4, <3>5, <4>3
    <3>6. CASE m # job[c]
      <4>1. \A d \in Collectors : (at'[d] = "add" /\ job'[d] = m) <=> (at[d] = "add" /\ job[d] = m)
        BY <2>1, <3>6
      <4>2. \A d \in Collectors : at[d] = "add" => got'[d] = got[d]
        BY <2>1
      <4>3. taken'[m] = taken[m]
        BY <1>0, <2>4, <3>6
      <4> QED BY <1>1, <2>1, <4>1, <4>2, <4>3
    <3> QED BY <3>5, <3>6
  <2> QED BY <1>2, <2>3, <2>4 DEF SampleReturns
<1>3. ASSUME NEW c \in Collectors, AddValue(c) PROVE FlowInv'
  <2>1. /\ at[c] = "add" /\ job[c] \in Metrics /\ UNCHANGED <<job, taken, sendVars>>
        /\ got' = [got EXCEPT ![c] = Tail(@)]
        /\ values' = [values EXCEPT ![job[c]] = Append(@, Head(got[c]))]
        /\ at' = [at EXCEPT ![c] = IF Len(got[c]) = 1 THEN "read" ELSE "add"]
        /\ \A m \in Metrics : InFlight(m)' = InFlight(m)
    BY <1>0, <1>3 DEF AddValue, Goto, InFlight
  <2>2. \A d \in Collectors : d # c => at'[d] = at[d] /\ got'[d] = got[d]
    BY <1>0, <2>1
  <2>3. \A d \in Collectors : d # c /\ at[d] = "add" => job[d] # job[c]
    BY <2>1 DEF OneEvent, InWork, Holds
  <2>4. Pending(job[c]) = got[c] /\ got[c] \in Seq(Nat) /\ got[c] # << >>
    BY <1>0, <2>1 DEF PendingFits
  <2>5. Pending(job[c])' = Tail(got[c])
    <3>1. CASE Len(got[c]) = 1
      <4>1. \A d \in Collectors : ~(at'[d] = "add" /\ job'[d] = job[c])
        BY <1>0, <2>1, <2>2, <2>3, <3>1
      <4>2. Pending(job[c])' = << >>
        BY <1>0, <2>1, <4>1 DEF PendingFits
      <4>3. Tail(got[c]) = << >>
        BY <2>4, <3>1, LastTail
      <4> QED BY <4>2, <4>3
    <3>2. CASE Len(got[c]) # 1
      BY <1>0, <2>1, <3>2 DEF PendingFits
    <3> QED BY <3>1, <3>2
  <2> SUFFICES ASSUME NEW m \in Metrics PROVE (FlowInv!(m))'
    BY DEF FlowInv
  <2>6. CASE m = job[c]
    <3>1. /\ InFlight(m) \in Seq(Nat) /\ values[m] \in Seq(Nat)
          /\ Flow(InFlight(m), values[m], got[c], taken[m], delivered[m], lost[m])
      BY <1>0, <2>4, <2>6 DEF PendingFits, FlowInv
    <3>2. Flow(InFlight(m), Append(values[m], Head(got[c])), Tail(got[c]), taken[m], delivered[m], lost[m])
      BY <2>4, <3>1, FlowAdd
    <3>3. values'[m] = Append(values[m], Head(got[c]))
      BY <1>0, <2>1, <2>6
    <3> QED BY <2>1, <2>5, <2>6, <3>2, <3>3
  <2>7. CASE m # job[c]
    <3>1. \A d \in Collectors : (at'[d] = "add" /\ job'[d] = m) <=> (at[d] = "add" /\ job[d] = m)
      BY <2>1, <2>2, <2>7
    <3>2. \A d \in Collectors : at[d] = "add" /\ job[d] = m => got'[d] = got[d]
      BY <2>2, <2>7
    <3>3. values'[m] = values[m]
      BY <1>0, <2>1, <2>7
    <3> QED BY <1>1, <2>1, <3>1, <3>2, <3>3
  <2> QED BY <2>6, <2>7
<1>4. ASSUME NEW c \in Collectors, Collector(c), ~SampleReturns(c), ~AddValue(c) PROVE FlowInv'
  <2>1. /\ UNCHANGED <<got, values, taken, delivered, lost, sender>>
        /\ at[c] # "add"
        /\ \E q \in WorkerPC \ {"add"} : at' = [at EXCEPT ![c] = q]
        /\ \A d \in Collectors : d # c => job'[d] = job[d]
    BY <1>0, <1>4 DEF Collector, Take, CheckAlive, SampleRaises, ReadAggregation, WriteAggregation,
                FinishCollect, Reschedule, IsReadyToSend, PutSend, ResetAggregation, Goto, Leave, WorkerPC
  <2>2. \A d \in Collectors : (at'[d] = "add" <=> at[d] = "add") /\ (at[d] = "add" => job'[d] = job[d])
    BY <1>0, <2>1
  <2>3. \A m \in Metrics : InFlight(m)' = InFlight(m)
    BY <2>1 DEF InFlight
  <2> SUFFICES ASSUME NEW m \in Metrics PROVE (FlowInv!(m))'
    BY DEF FlowInv
  <2> QED BY <1>1, <2>1, <2>2, <2>3
<1>5. CASE SenderDrain
  <2>1. UNCHANGED <<at, job, got, taken, delivered, lost>> /\ sender.pc = "drain" /\ sender.item \in Metrics
    BY <1>0, <1>5 DEF SenderDrain
  <2>2. \A m \in Metrics : Pending(m)' = Pending(m)
    BY <1>0, <2>1, SamePending
  <2>3. \A m \in Metrics : InFlight(m) = << >>
    BY <2>1 DEF InFlight
  <2> SUFFICES ASSUME NEW m \in Metrics PROVE (FlowInv!(m))'
    BY DEF FlowInv
  <2>4. CASE values[sender.item] = << >>
    <3>1. UNCHANGED values /\ sender'.pc = "loop"
      BY SMTT(30), <1>5, <2>4 DEF SenderDrain, SenderGoto
    <3>2. InFlight(m)' = InFlight(m)
      BY <2>3, <3>1 DEF InFlight
    <3> QED BY <1>1, <2>1, <3>1, <3>2
  <2>5. CASE values[sender.item] # << >>
    <3>1. /\ sender' = [sender EXCEPT !.pc = "publish", !.batch = values[sender.item]]
          /\ values' = [values EXCEPT ![sender.item] = << >>]
      BY <1>5, <2>5 DEF SenderDrain
    <3>4. /\ sender'.pc = "publish" /\ sender'.item = sender.item /\ sender'.batch = values[sender.item]
      BY SMTT(30), <1>0, <3>1
    <3>2. CASE m = sender.item
      <4>1. InFlight(m)' = values[m] /\ values'[m] = << >>
        BY <1>0, <3>1, <3>2, <3>4 DEF InFlight
      <4>2. Flow(<< >>, values[m], Pending(m), taken[m], delivered[m], lost[m])
        BY <2>3 DEF FlowInv
      <4>3. Flow(values[m], << >>, Pending(m), taken[m], delivered[m], lost[m])
        BY <1>0, <4>2, FlowDrain DEF PendingFits
      <4> QED BY <2>1, <2>2, <4>1, <4>3
    <3>3. CASE m # sender.item
      <4>1. InFlight(m)' = InFlight(m) /\ values'[m] = values[m]
        BY <1>0, <2>3, <3>1, <3>3, <3>4 DEF InFlight
      <4> QED BY <1>1, <2>1, <4>1
    <3> QED BY <3>2, <3>3
  <2> QED BY <2>4, <2>5
<1>6. CASE SenderPublish
  <2>1. UNCHANGED <<at, job, got, taken, values>> /\ sender.pc = "publish" /\ sender.item \in Metrics
    BY <1>0, <1>6 DEF SenderPublish
  <2>2. \A m \in Metrics : Pending(m)' = Pending(m)
    BY <1>0, <2>1, SamePending
  <2>3. sender'.pc = "loop"
    <3>1. sender' = [pc |-> "loop", item |-> None, batch |-> << >>]
      BY <1>6 DEF SenderPublish, SenderGoto
    <3> QED BY <3>1
  <2>4. \A m \in Metrics : InFlight(m)' = << >>
    BY <2>3 DEF InFlight
  <2>5. \/ delivered' = [delivered EXCEPT ![sender.item] = @ \o sender.batch] /\ UNCHANGED lost
        \/ /\ lost' = [lost EXCEPT ![sender.item] = @ \cup {sender.batch[i] : i \in DOMAIN sender.batch}]
           /\ UNCHANGED delivered
    BY <1>6 DEF SenderPublish
  <2> SUFFICES ASSUME NEW m \in Metrics PROVE (FlowInv!(m))'
    BY DEF FlowInv
  <2>6. CASE m = sender.item
    <3> DEFINE f == sender.batch
    <3>1. f = InFlight(m)
      BY <2>1, <2>6 DEF InFlight
    <3> HIDE DEF f
    <3>2. /\ f \in Seq(Nat) /\ Pending(m) \in Seq(Nat) /\ values[m] \in Seq(Nat) /\ delivered[m] \in Seq(Nat)
          /\ Flow(f, values[m], Pending(m), taken[m], delivered[m], lost[m])
      BY <1>0, <3>1 DEF PendingFits, FlowInv
    <3>3. /\ Flow(<< >>, values[m], Pending(m), taken[m], delivered[m] \o f, lost[m])
          /\ Flow(<< >>, values[m], Pending(m), taken[m], delivered[m], lost[m] \cup {f[i] : i \in DOMAIN f})
      BY <3>2, FlowPublish, FlowLose
    <3>4. \/ delivered'[m] = delivered[m] \o f /\ lost'[m] = lost[m]
          \/ delivered'[m] = delivered[m] /\ lost'[m] = lost[m] \cup {f[i] : i \in DOMAIN f}
      BY <1>0, <2>5, <2>6 DEF f
    <3> QED BY <2>1, <2>2, <2>4, <3>3, <3>4
  <2>7. CASE m # sender.item
    <3>1. delivered'[m] = delivered[m] /\ lost'[m] = lost[m]
      BY <1>0, <2>5, <2>7
    <3>2. InFlight(m) = << >>
      BY <2>7 DEF InFlight
    <3> QED BY <1>1, <2>1, <2>4, <3>1, <3>2
  <2> QED BY <2>6, <2>7
<1>7. CASE SenderLoop \/ SenderGet \/ SenderCheck
  <2>1. /\ UNCHANGED <<at, job, got, taken, values, delivered, lost>>
        /\ sender.pc # "publish" /\ sender'.pc # "publish"
    <3>1. UNCHANGED <<at, job, got, taken, values, delivered, lost>> /\ sender.pc # "publish"
      BY <1>7 DEF SenderLoop, SenderGet, SenderCheck
    <3>2. \/ \E pc \in {"loop", "get", "done"} : sender' = [pc |-> pc, item |-> None, batch |-> << >>]
          \/ \E i : sender' = [sender EXCEPT !.pc = "check", !.item = i]
          \/ sender' = [sender EXCEPT !.pc = "drain"]
      BY <1>7 DEF SenderLoop, SenderGet, SenderCheck, SenderGoto
    <3>3. sender'.pc # "publish"
      <4>1. ASSUME NEW pc \in {"loop", "get", "done"}, sender' = [pc |-> pc, item |-> None, batch |-> << >>]
            PROVE  sender'.pc # "publish"
        BY <4>1
      <4>2. ASSUME NEW i, sender' = [sender EXCEPT !.pc = "check", !.item = i] PROVE sender'.pc # "publish"
        BY SMTT(30), <1>0, <4>2
      <4>3. ASSUME sender' = [sender EXCEPT !.pc = "drain"] PROVE sender'.pc # "publish"
        BY SMTT(30), <1>0, <4>3
      <4> QED BY <3>2, <4>1, <4>2, <4>3
    <3> QED BY <3>1, <3>3
  <2> SUFFICES ASSUME NEW m \in Metrics PROVE (FlowInv!(m))'
    BY DEF FlowInv
  <2>2. InFlight(m)' = InFlight(m)
    BY <2>1 DEF InFlight
  <2> QED BY <1>1, <2>1, <2>2
<1>8. ASSUME UNCHANGED <<at, job, got, taken, values, delivered, lost, sender>> PROVE FlowInv'
  <2> SUFFICES ASSUME NEW m \in Metrics PROVE (FlowInv!(m))'
    BY DEF FlowInv
  <2> QED BY <1>1, <1>8 DEF InFlight
<1>9. Checker \/ Terminate \/ Tick \/ UNCHANGED vars \/ (\E m \in Metrics : StartCollecting(m) \/ StopCollecting(m))
      => UNCHANGED <<at, job, got, taken, values, delivered, lost, sender>>
  BY DEF Checker, CheckerLoop, GetNextElement, WakeTimed, WakeUntimed, CheckerDispatch,
         Terminate, TerminateFlags, TerminateEvents, TerminateSend, Tick, StartCollecting, StopCollecting
<1> QED
  BY <1>2, <1>3, <1>4, <1>5, <1>6, <1>7, <1>8, <1>9 DEF Next, Sender

(* No sample is lost but by a failed publish, none is doubled, and the DCC *)
(* gets those of a metric in the order they were taken: at every moment    *)
(* the samples taken are the delivered, the lost and, latest, the unsent.  *)
THEOREM SamplesFlow == Spec => []SampleFlow
<1>1. Init => FlowInv
  <2> SUFFICES ASSUME Init, NEW m \in Metrics PROVE FlowInv!(m)
    BY DEF FlowInv
  <2>1. /\ InFlight(m) = << >> /\ values[m] = << >> /\ Pending(m) = << >> /\ taken[m] = 0
        /\ delivered[m] = << >> /\ lost[m] = {}
    BY DEF Init, InFlight, Pending
  <2>2. Flow(<< >>, << >>, << >>, 0, << >>, {})
    <3>1. Len(<< >>) = 0 /\ 0 \in Nat /\ 0 = 0 + 0 + 0 + 0 /\ \A i : i \notin 1..0
      BY SMTT(30)
    <3>2. \A b : Run(<< >>, b)
      BY <3>1 DEF Run
    <3> QED BY <3>1, <3>2 DEF Flow
  <2> QED BY <2>1, <2>2
<1>2. EventInv /\ EventInv' /\ FlowInv /\ [Next]_vars => FlowInv'
  BY FlowStep DEF EventInv
<1>3. EventInv /\ FlowInv => SampleFlow
  <2> SUFFICES ASSUME EventInv, FlowInv, NEW m \in Metrics PROVE SampleFlow!(m)
    BY DEF SampleFlow
  <2>1. PendingFits /\ TypeOK
    BY PendingIs DEF EventInv
  <2>2. /\ InFlight(m) \in Seq(Nat) /\ values[m] \in Seq(Nat) /\ Pending(m) \in Seq(Nat)
        /\ taken[m] \in Nat /\ delivered[m] \in Seq(Nat)
        /\ Flow(InFlight(m), values[m], Pending(m), taken[m], delivered[m], lost[m])
    BY <2>1 DEF PendingFits, TypeOK, DataTypes, SendTypes, FlowInv
  <2>3. Unsent(m) = InFlight(m) \o values[m] \o Pending(m)
    BY DEF Unsent
  <2>4. Accounted(InFlight(m) \o values[m] \o Pending(m), taken[m], delivered[m], lost[m])
    BY <2>2, FlowIsSampleFlow
  <2> QED BY <2>3, <2>4 DEF Accounted
<1> QED BY <1>1, <1>2, <1>3, EventInvariant, PTL DEF Spec
=============================================================================
