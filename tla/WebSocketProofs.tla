-------------------------- MODULE WebSocketProofs --------------------------
(***************************************************************************)
(* The invariants of the WebSocket transport, for any number of senders,   *)
(* faults and messages.                                                    *)
(***************************************************************************)
EXTENDS WebSocket, FiniteSetTheorems, TLAPS

USE ZenonT(30)

Labels == {"idle", "connect", "create", "up", "done", "first", "send", "failed", "close", "raised",
           "broken", "returned", "recv", "blocked", "ending", "ended"}

TypeInv ==
  /\ plan \in Planned
  /\ conns \in Seq({"open", "lost", "closed"})
  /\ ws \in 0..Len(conns) /\ reading \in 0..Len(conns)
  /\ pc \in [Threads -> Labels]
  /\ attempts \in [Senders -> 0..Tries] /\ causes \in [Senders -> 0..Tries]
  /\ written \in [Senders -> Nat]

(* The threads begin after the constructor.                                *)
PhaseInv == pc[Main] \in {"connect", "create", "up"} => \A s \in Senders : pc[s] = "idle"

(* The local variable of send at each of its lines.                        *)
AttemptsInv ==
  \A s \in Senders :
    /\ pc[s] \in {"idle", "first"} => attempts[s] = 0
    /\ pc[s] \in {"connect", "create", "send", "failed"} => attempts[s] \in 1..3
    /\ pc[s] \in {"close", "broken"} => attempts[s] \in 2..4

WrittenInv == \A s \in Senders : written[s] = (IF pc[s] = "returned" THEN 1 ELSE 0)

CountInv == PhaseInv /\ AttemptsInv /\ WrittenInv

(* Each failed try had a cause of its own, and so will the next one when   *)
(* there is nothing open to send on.                                       *)
Accounted(s) ==
  /\ pc[s] \in {"first", "send", "connect", "create", "close"} => causes[s] >= attempts[s]
  /\ pc[s] = "failed" => causes[s] > attempts[s]
  /\ pc[s] \in {"first", "send"} /\ ~Open => causes[s] > attempts[s]
  /\ pc[Main] = "up" /\ ~Open => causes[s] > 0
  /\ pc[s] = "raised" => causes[s] = Tries

CausesInv == Configured /\ Verified => \A s \in Senders : Accounted(s)

(* Another sender has come to its loop.                                    *)
Other(s) == \E r \in Senders \ {s} : attempts[r] > 0

BrokenInv ==
  \A s \in Senders : pc[s] = "broken" \/ (pc[s] = "close" /\ ws = 0) => Other(s)

IInv == TypeInv /\ CountInv /\ CausesInv /\ BrokenInv
-----------------------------------------------------------------------------
(* A cause is counted for every sender but t, up to Tries.                 *)
LEMMA CauseCounts ==
  ASSUME TypeInv, NEW t, Cause(t)
  PROVE  /\ causes' \in [Senders -> 0..Tries]
         /\ \A s \in Senders : /\ causes'[s] >= causes[s]
                               /\ s # t => causes'[s] > causes[s] \/ causes'[s] = Tries
<1>1. causes \in [Senders -> 0..4]
  BY DEF TypeInv, Tries
<1>q. QED
  BY SMTT(30), <1>1 DEF Cause, Tries

(* A fault is taken from the budget of the plan, whose rest stays.         *)
LEMMA FaultCosts ==
  ASSUME TypeInv, Fault
  PROVE  /\ plan' \in Planned
         /\ plan'.verify = plan.verify /\ plan'.ca = plan.ca /\ plan'.trusted = plan.trusted
<1>1. plan.faults - 1 \in Nat
  BY SMTT(30) DEF TypeInv, Fault, Planned
<1>q. QED
  BY <1>1 DEF TypeInv, Fault, Planned

(* RemoveCA leaves the configuration without its file.                     *)
LEMMA RemovedCA ==
  ASSUME TypeInv, RemoveCA
  PROVE  /\ plan' \in Planned
         /\ plan'.verify = plan.verify /\ plan'.ca = "wrong"
<1>1. plan.faults - 1 \in Nat
  BY SMTT(30) DEF TypeInv, RemoveCA, Planned
<1>2. plan' = [verify |-> plan.verify, ca |-> "wrong", trusted |-> plan.trusted,
               faults |-> plan.faults - 1, senders |-> plan.senders]
  BY DEF TypeInv, RemoveCA, Planned
<1>q. QED
  BY <1>1, <1>2 DEF TypeInv, Planned

(* A new connection comes last, is open, and leaves the others as they are. *)
LEMMA Created ==
  ASSUME TypeInv, conns' = Append(conns, "open")
  PROVE  /\ conns' \in Seq({"open", "lost", "closed"})
         /\ Len(conns') = Len(conns) + 1
         /\ conns'[Len(conns')] = "open"
BY SMTT(30) DEF TypeInv

(* A connection that is lost or closed stays in its place.                 *)
LEMMA Updated ==
  ASSUME TypeInv, NEW c \in 1..Len(conns), NEW v \in {"lost", "closed"}, conns' = [conns EXCEPT ![c] = v]
  PROVE  /\ conns' \in Seq({"open", "lost", "closed"})
         /\ Len(conns') = Len(conns)
         /\ conns'[c] = v
BY SMTT(30) DEF TypeInv

(* The steps that only move the receiver.                                  *)
LEMMA ReceiverMoves ==
  ASSUME TypeInv, Recv \/ StreamClosed \/ EndReceive \/ Hear
  PROVE  /\ UNCHANGED <<plan, conns, ws, attempts, written, causes>>
         /\ reading' \in 0..Len(conns)
         /\ pc' \in [Threads -> Labels]
         /\ \A t \in Threads \ {Receiver} : pc'[t] = pc[t]
BY SMTT(30) DEF TypeInv, Recv, StreamClosed, EndReceive, Hear, Goto, Threads, Labels

(* What a step can do to each variable.                                    *)
LEMMA StepShape ==
  ASSUME [Next]_vars
  PROVE  /\ plan' = plan \/ Fault \/ RemoveCA
         /\ causes' = causes \/ \E t \in Threads : Cause(t)
         /\ \/ conns' = conns /\ ws' \in {ws, 0}
            \/ conns' = Append(conns, "open") /\ ws' = Len(conns')
            \/ \E c \in {ws, reading} \ {0} : \E v \in {"lost", "closed"} :
                 conns' = [conns EXCEPT ![c] = v] /\ ws' = ws
         /\ reading' \in {reading, ws, 0}
         /\ \/ attempts' = attempts
            \/ \E x \in Senders : attempts' = [attempts EXCEPT ![x] = 1]
            \/ \E x \in Senders : SendFails(x) /\ attempts' = [attempts EXCEPT ![x] = @]
            \/ \E x \in Senders : pc[x] = "failed" /\ attempts' = [attempts EXCEPT ![x] = @ + 1]
         /\ written' = written \/ \E x \in Senders : written' = [written EXCEPT ![x] = @ + 1]
<1> USE DEF Next, vars, Constructing, receive, send, connect_soc, create_connection, Begin, Recv, StreamClosed,
    EndReceive, CloseAndEnd, CloseAndRetry, close, Hear, Lose, RemoveCA, Sent, Takes, Retry
<1>1. plan' = plan \/ Fault \/ RemoveCA
  BY DEF SendFails
<1>2. causes' = causes \/ \E t \in Threads : Cause(t)
  BY DEF SendFails, Threads
<1>3. \/ conns' = conns /\ ws' \in {ws, 0}
      \/ conns' = Append(conns, "open") /\ ws' = Len(conns')
      \/ \E c \in {ws, reading} \ {0} : \E v \in {"lost", "closed"} :
           conns' = [conns EXCEPT ![c] = v] /\ ws' = ws
  BY DEF SendFails
<1>4. reading' \in {reading, ws, 0}
  BY DEF SendFails
<1>5. \/ attempts' = attempts
      \/ \E x \in Senders : attempts' = [attempts EXCEPT ![x] = 1]
      \/ \E x \in Senders : SendFails(x) /\ attempts' = [attempts EXCEPT ![x] = @]
      \/ \E x \in Senders : pc[x] = "failed" /\ attempts' = [attempts EXCEPT ![x] = @ + 1]
  <2>1. ASSUME NEW x \in Senders, SendFails(x)
        PROVE  attempts' = [attempts EXCEPT ![x] = 1] \/ attempts' = [attempts EXCEPT ![x] = @]
    BY <2>1 DEF SendFails
  <2>q. QED
    BY <2>1
<1>6. written' = written \/ \E x \in Senders : written' = [written EXCEPT ![x] = @ + 1]
  BY DEF SendFails
<1>q. QED
  BY <1>1, <1>2, <1>3, <1>4, <1>5, <1>6

(* Every step keeps the types; the count of attempts stays below Tries.    *)
LEMMA TypeStep == TypeInv /\ AttemptsInv /\ [Next]_vars => TypeInv'
<1> SUFFICES ASSUME TypeInv, AttemptsInv, [Next]_vars PROVE TypeInv'
  OBVIOUS
<1>1. plan' \in Planned
  BY StepShape, FaultCosts, RemovedCA DEF TypeInv
<1>2. causes' \in [Senders -> 0..Tries]
  BY StepShape, CauseCounts DEF TypeInv
<1>3. /\ conns' \in Seq({"open", "lost", "closed"})
      /\ ws' \in 0..Len(conns') /\ reading' \in 0..Len(conns')
  <2>1. Len(conns) \in Nat /\ reading' \in 0..Len(conns)
    BY SMTT(30), StepShape DEF TypeInv
  <2>2. CASE conns' = conns /\ ws' \in {ws, 0}
    BY SMTT(30), <2>1, <2>2 DEF TypeInv
  <2>3. CASE conns' = Append(conns, "open") /\ ws' = Len(conns')
    BY SMTT(30), <2>1, <2>3, Created
  <2>4. ASSUME NEW c \in {ws, reading} \ {0}, NEW v \in {"lost", "closed"},
               conns' = [conns EXCEPT ![c] = v], ws' = ws
        PROVE  <1>3!:
    <3>1. c \in 1..Len(conns)
      BY SMTT(30) DEF TypeInv
    <3>q. QED
      BY <2>1, <2>4, <3>1, Updated DEF TypeInv
  <2>q. QED
    BY <2>2, <2>3, <2>4, StepShape
<1>4. attempts' \in [Senders -> 0..Tries]
  <2>1. \A x \in Senders : pc[x] = "failed" => attempts[x] + 1 \in 0..4
    BY SMTT(30) DEF AttemptsInv
  <2>q. QED
    BY SMTT(30), <2>1, StepShape DEF TypeInv, Tries
<1>5. written' \in [Senders -> Nat]
  BY SMTT(30), StepShape DEF TypeInv
<1>6. pc' \in [Threads -> Labels]
  BY SMTT(30) DEF TypeInv, Goto, Threads, Main, Receiver, Labels, ConnectFails, Next, vars, Constructing, receive, send,
    connect_soc, create_connection, Begin, Recv, StreamClosed, EndReceive, CloseAndEnd, CloseAndRetry, close,
    Hear, Lose, RemoveCA, Sent, SendFails, Retry
<1>q. QED
  BY <1>1, <1>2, <1>3, <1>4, <1>5, <1>6 DEF TypeInv

(* Every step keeps the order of the phases and what send has counted: a   *)
(* message is taken by the step that makes send return, and by no other.   *)
LEMMA CountStep == TypeInv /\ CountInv /\ [Next]_vars => CountInv'
<1> SUFFICES ASSUME TypeInv, CountInv, [Next]_vars PROVE CountInv'
  OBVIOUS
<1> USE WebSocketAssumption DEF TypeInv, CountInv, PhaseInv, AttemptsInv, WrittenInv, Threads, Main, Receiver, Tries
<1>1. CASE connect_soc(Main)
  BY <1>1 DEF connect_soc, ConnectFails, Goto
<1>2. CASE create_connection(Main)
  BY <1>2 DEF create_connection, ConnectFails, Goto
<1>3. CASE Begin
  BY <1>3 DEF Begin
<1>4. CASE Recv \/ StreamClosed \/ EndReceive \/ Hear
  BY <1>4, ReceiverMoves
<1>5. CASE CloseAndEnd
  BY <1>5 DEF CloseAndEnd, close, Goto
<1>6. CASE Lose
  BY <1>6 DEF Lose
<1>7. CASE RemoveCA
  BY <1>7 DEF RemoveCA
<1>8. ASSUME NEW x \in Senders, Sent(x) PROVE CountInv'
  BY SMTT(30), <1>8 DEF Sent, Takes, Goto
<1>9. ASSUME NEW x \in Senders, SendFails(x) PROVE CountInv'
  BY SMTT(30), <1>9 DEF SendFails, Goto
<1>10. ASSUME NEW x \in Senders, Retry(x) PROVE CountInv'
  BY SMTT(30), <1>10 DEF Retry, Goto
<1>11. ASSUME NEW x \in Senders, CloseAndRetry(x) PROVE CountInv'
  BY SMTT(30), <1>11 DEF CloseAndRetry, close, Goto
<1>12. ASSUME NEW x \in Senders, connect_soc(x) PROVE CountInv'
  BY ZenonT(60), <1>12 DEF connect_soc, ConnectFails, Goto
<1>13. ASSUME NEW x \in Senders, create_connection(x) PROVE CountInv'
  BY ZenonT(60), <1>13 DEF create_connection, ConnectFails, Goto
<1>14. CASE UNCHANGED vars
  BY <1>14 DEF vars
<1>q. QED
  BY <1>1, <1>2, <1>3, <1>4, <1>5, <1>6, <1>7, <1>8, <1>9, <1>10, <1>11, <1>12, <1>13, <1>14
     DEF Next, Constructing, receive, send

(* The configuration changes only by RemoveCA.                             *)
LEMMA PlanStep ==
  ASSUME TypeInv, [Next]_vars, (Configured /\ Verified)'
  PROVE  Configured /\ Verified
<1>1. plan' = plan \/ Fault \/ RemoveCA
  BY StepShape
<1>2. CASE plan' = plan
  BY <1>2 DEF Configured, Verified
<1>3. CASE Fault
  BY <1>3, FaultCosts DEF Configured, Verified
<1>4. CASE RemoveCA
  <2>1. plan.verify
    BY <1>4 DEF RemoveCA
  <2>2. plan'.verify = plan.verify /\ plan'.ca = "wrong"
    BY <1>4, RemovedCA
  <2>q. QED
    BY <2>1, <2>2 DEF Configured
<1>q. QED
  BY <1>1, <1>2, <1>3, <1>4

(* A sender that does not move stays accounted for, when what takes the    *)
(* open connection away counts as a cause for it.                          *)
LEMMA Stays ==
  ASSUME TypeInv, TypeInv', AttemptsInv, NEW s \in Senders, Accounted(s),
         pc'[s] = pc[s], pc'[Main] = pc[Main], attempts'[s] = attempts[s], causes'[s] >= causes[s],
         Open' \/ ~Open \/ causes'[s] > causes[s] \/ causes'[s] = Tries
  PROVE  Accounted(s)'
<1>1. attempts[s] \in 0..4 /\ causes[s] \in 0..4 /\ causes'[s] \in 0..4
  BY DEF TypeInv, Tries
<1>2. pc[s] \in {"first", "send"} => attempts[s] < 4
  BY SMTT(30), <1>1 DEF AttemptsInv
<1>q. QED
  BY SMTT(30), <1>1, <1>2 DEF Accounted, Tries

(* Every failed try is accounted for by an event of its own.               *)
LEMMA CausesStep ==
  TypeInv /\ CountInv /\ CausesInv /\ [Next]_vars => CausesInv'
<1> SUFFICES ASSUME TypeInv, CountInv, CausesInv, [Next]_vars,
                    (Configured /\ Verified)', NEW s \in Senders
             PROVE  Accounted(s)'
  BY DEF CausesInv
<1>a. TypeInv' /\ PhaseInv /\ AttemptsInv
  BY TypeStep DEF CountInv
<1>b. Configured /\ Verified /\ Accounted(s)
  BY PlanStep DEF CausesInv
<1>c. /\ s \in Threads /\ Main \in Threads /\ Receiver \in Threads /\ s # Main /\ s # Receiver /\ Main # Receiver
      /\ DOMAIN pc = Threads /\ attempts[s] \in 0..4 /\ causes[s] \in 0..4 /\ causes'[s] \in 0..4
  BY <1>a, WebSocketAssumption DEF TypeInv, Threads, Main, Receiver, Tries
<1> USE <1>a, <1>b, <1>c
<1>1. CASE connect_soc(Main)
  <2>1. pc[s] = "idle" /\ attempts[s] = 0
    BY <1>1 DEF PhaseInv, AttemptsInv, connect_soc
  <2>2. pc'[s] = "idle" /\ pc'[Main] # "up"
    BY <1>1, <2>1 DEF connect_soc, ConnectFails, Goto
  <2>q. QED
    BY <2>2 DEF Accounted
<1>2. CASE create_connection(Main)
  <2>1. pc[s] = "idle" /\ attempts[s] = 0
    BY <1>2 DEF PhaseInv, AttemptsInv, create_connection
  <2>2. pc'[s] = "idle" /\ (pc'[Main] = "up" => Open')
    BY SMTT(30), <1>2, <2>1, Created DEF create_connection, ConnectFails, Goto, Open
  <2>q. QED
    BY <2>2 DEF Accounted
<1>3. CASE Begin
  <2>1. pc[s] = "idle" /\ attempts[s] = 0
    BY <1>3 DEF PhaseInv, AttemptsInv, Begin
  <2>2. pc'[s] \in {"first", "idle"} /\ pc'[Main] = "done"
    <3>0. Main \notin plan.senders
      BY WebSocketAssumption DEF TypeInv, Planned
    <3>1. pc'[Main] = "done"
      BY <1>3, <3>0 DEF Begin
    <3>2. CASE s \in plan.senders
      BY <1>3, <3>2, <3>1 DEF Begin
    <3>3. CASE s \notin plan.senders
      BY <1>3, <3>3, <3>1 DEF Begin
    <3>q. QED
      BY <3>1, <3>2, <3>3
  <2>4. UNCHANGED <<attempts, causes, ws, conns>>
    BY <1>3 DEF Begin
  <2>3. ~Open => causes[s] > 0
    BY <1>3 DEF Begin, Accounted
  <2>q. QED
    BY SMTT(30), <2>1, <2>2, <2>3, <2>4 DEF Accounted, Open
<1>4. CASE Recv \/ StreamClosed \/ EndReceive \/ Hear
  BY SMTT(30), <1>4, ReceiverMoves, Stays DEF Open
<1>8. CASE CloseAndEnd
  <2>1. pc'[Main] = pc[Main] /\ attempts' = attempts /\ ws' = ws
    BY <1>8 DEF CloseAndEnd, close, Goto
  <2>2. CASE ws = 0
    BY SMTT(30), <1>8, <2>1, <2>2, Stays DEF Open, CloseAndEnd, close, Goto
  <2>3. CASE ws # 0
    <3>1. Cause(Receiver)
      BY <1>8, <2>3 DEF CloseAndEnd, close, Goto
    <3>q. QED
      BY <1>8, <2>1, <3>1, CauseCounts, Stays DEF CloseAndEnd, close, Goto
  <2>q. QED
    BY <2>2, <2>3
<1>9. CASE Lose
  <2>1. causes'[s] > causes[s] \/ causes'[s] = Tries
    BY <1>9, CauseCounts DEF Lose
  <2>q. QED
    BY <1>9, <2>1, CauseCounts, Stays DEF Lose
<1>10. CASE RemoveCA
  <2>1. Open' <=> Open
    BY <1>10 DEF RemoveCA, Open
  <2>q. QED
    BY SMTT(30), <1>10, <2>1, Stays DEF RemoveCA
<1>11. ASSUME NEW x \in Senders, Sent(x) PROVE Accounted(s)'
  <2>0. x \in Threads /\ x # Main
    BY WebSocketAssumption DEF Threads, Main
  <2>m. pc[Main] # "up"
    BY <1>11, <2>0 DEF PhaseInv, Sent, Takes
  <2>1. CASE s # x
    <3>1. /\ UNCHANGED <<ws, conns, causes>> /\ pc'[s] = pc[s] /\ pc'[Main] = pc[Main]
          /\ attempts'[s] = attempts[s]
      BY <1>11, <2>0, <2>1 DEF Sent, Takes, Goto, TypeInv
    <3>q. QED
      BY SMTT(30), <3>1, Stays DEF Open
  <2>2. CASE s = x
    BY <1>11, <2>0, <2>m, <2>2 DEF Sent, Takes, Goto, Accounted
  <2>q. QED
    BY <2>1, <2>2
<1>12. ASSUME NEW x \in Senders, SendFails(x) PROVE Accounted(s)'
  <2>0. x \in Threads /\ x # Main
    BY WebSocketAssumption DEF Threads, Main
  <2>m. pc[Main] # "up"
    BY <1>12, <2>0 DEF PhaseInv, SendFails
  <2>1. CASE s # x
    <3>1. /\ UNCHANGED <<ws, conns, causes>> /\ pc'[s] = pc[s] /\ pc'[Main] = pc[Main]
          /\ attempts'[s] = attempts[s]
      BY <1>12, <2>0, <2>1 DEF SendFails, Goto, TypeInv
    <3>q. QED
      BY SMTT(30), <3>1, Stays DEF Open
  <2>2. CASE s = x
    <3>1. pc[s] = "first" => attempts[s] = 0
      BY DEF AttemptsInv
    <3>2. causes' = causes /\ causes[s] > attempts[s] /\ pc'[Main] # "up"
      BY <1>12, <2>0, <2>m, <2>2 DEF SendFails, Goto, Accounted
    <3>3. CASE pc[s] = "first"
      BY SMTT(30), <1>12, <2>0, <2>2, <3>1, <3>2, <3>3 DEF SendFails, Goto, Accounted, TypeInv
    <3>4. CASE pc[s] = "send"
      BY <1>12, <2>0, <2>2, <3>2, <3>4 DEF SendFails, Goto, Accounted, TypeInv
    <3>q. QED
      BY <1>12, <2>2, <3>3, <3>4 DEF SendFails
  <2>q. QED
    BY <2>1, <2>2
<1>13. ASSUME NEW x \in Senders, Retry(x) PROVE Accounted(s)'
  <2>0. x \in Threads /\ x # Main
    BY WebSocketAssumption DEF Threads, Main
  <2>m. pc[Main] # "up"
    BY <1>13, <2>0 DEF PhaseInv, Retry
  <2>1. CASE s # x
    <3>1. /\ UNCHANGED <<ws, conns, causes>> /\ pc'[s] = pc[s] /\ pc'[Main] = pc[Main]
          /\ attempts'[s] = attempts[s]
      BY <1>13, <2>0, <2>1 DEF Retry, Goto, TypeInv
    <3>q. QED
      BY SMTT(30), <3>1, Stays DEF Open
  <2>2. CASE s = x
    <3>1. causes' = causes /\ causes[s] > attempts[s] /\ pc'[Main] # "up" /\ attempts'[s] = attempts[s] + 1
      BY <1>13, <2>0, <2>m, <2>2 DEF Retry, Goto, Accounted, TypeInv
    <3>2. /\ pc'[s] \in {"close", "connect", "raised"}
          /\ pc'[s] = "raised" => attempts'[s] = Tries
      BY <1>13, <2>0, <2>2 DEF Retry, Goto
    <3>q. QED
      BY SMTT(30), <3>1, <3>2 DEF Accounted, Tries
  <2>q. QED
    BY <2>1, <2>2
<1>14. ASSUME NEW x \in Senders, CloseAndRetry(x) PROVE Accounted(s)'
  <2>0. x \in Threads /\ x # Main
    BY WebSocketAssumption DEF Threads, Main
  <2>m. pc[Main] # "up"
    BY <1>14, <2>0 DEF PhaseInv, CloseAndRetry, close
  <2>1. CASE s # x
    <3>1. ws' = ws /\ pc'[s] = pc[s] /\ pc'[Main] = pc[Main] /\ attempts' = attempts
      BY <1>14, <2>0, <2>1 DEF CloseAndRetry, close, Goto
    <3>2. CASE ws = 0
      BY SMTT(30), <1>14, <3>1, <3>2, Stays DEF CloseAndRetry, close, Goto, Open
    <3>3. CASE ws # 0
      <4>1. Cause(x)
        BY <1>14, <3>3 DEF CloseAndRetry, close, Goto
      <4>q. QED
        BY <2>1, <3>1, <4>1, CauseCounts, Stays
    <3>q. QED
      BY <3>2, <3>3
  <2>2. CASE s = x
    <3>1. causes'[s] >= causes[s] /\ causes[s] >= attempts[s] /\ pc'[Main] # "up" /\ attempts' = attempts
      BY SMTT(30), <1>14, <2>0, <2>m, <2>2, CauseCounts DEF CloseAndRetry, close, Goto, Accounted
    <3>2. /\ pc'[s] \in {"broken", "connect", "raised"}
          /\ pc'[s] = "raised" => attempts[s] = Tries
      BY <1>14, <2>0, <2>2 DEF CloseAndRetry, close, Goto
    <3>q. QED
      BY SMTT(30), <3>1, <3>2 DEF Accounted, Tries
  <2>q. QED
    BY <2>1, <2>2
<1>15. ASSUME NEW x \in Senders, connect_soc(x) PROVE Accounted(s)'
  <2>0. x \in Threads /\ x # Main
    BY WebSocketAssumption DEF Threads, Main
  <2>m. pc[Main] # "up"
    BY <1>15, <2>0 DEF PhaseInv, connect_soc
  <2>1. CASE s # x
    <3>1. pc'[s] = pc[s] /\ pc'[Main] = pc[Main] /\ attempts' = attempts
      BY <1>15, <2>0, <2>1 DEF connect_soc, ConnectFails, Goto
    <3>2. Cause(x)
      BY <1>15, <2>0 DEF connect_soc
    <3>q. QED
      BY <2>1, <3>1, <3>2, CauseCounts, Stays
  <2>2. CASE s = x
    <3>1. causes'[s] >= causes[s] /\ causes[s] >= attempts[s] /\ pc'[Main] # "up" /\ attempts' = attempts
      BY <1>15, <2>0, <2>m, <2>2, CauseCounts DEF connect_soc, ConnectFails, Goto, Accounted
    <3>2. pc'[s] = "create"
      BY <1>15, <2>0, <2>2 DEF connect_soc, Goto
    <3>q. QED
      BY SMTT(30), <3>1, <3>2 DEF Accounted
  <2>q. QED
    BY <2>1, <2>2
<1>16. ASSUME NEW x \in Senders, create_connection(x) PROVE Accounted(s)'
  <2>0. x \in Threads /\ x # Main
    BY WebSocketAssumption DEF Threads, Main
  <2>m. pc[Main] # "up"
    BY <1>16, <2>0 DEF PhaseInv, create_connection
  <2>1. CASE s # x
    <3>1. pc'[s] = pc[s] /\ pc'[Main] = pc[Main] /\ attempts' = attempts
      BY <1>16, <2>0, <2>1 DEF create_connection, ConnectFails, Goto
    <3>2. CASE conns' = Append(conns, "open") /\ ws' = Len(conns') /\ causes' = causes
      <4>1. Open'
        BY SMTT(30), <3>2, Created DEF Open, TypeInv
      <4>q. QED
        BY SMTT(30), <3>1, <3>2, <4>1, Stays
    <3>3. CASE Cause(Main) /\ UNCHANGED <<conns, ws>>
      BY <3>1, <3>3, CauseCounts, Stays DEF Open
    <3>q. QED
      BY <1>16, <3>2, <3>3 DEF create_connection
  <2>2. CASE s = x
    <3>1. causes[s] >= attempts[s] /\ pc'[Main] # "up" /\ attempts' = attempts
      BY <1>16, <2>0, <2>m, <2>2 DEF create_connection, ConnectFails, Goto, Accounted
    <3>2. CASE conns' = Append(conns, "open") /\ ws' = Len(conns') /\ Goto(x, "send") /\ causes' = causes
      <4>1. Open'
        BY SMTT(30), <3>2, Created DEF Open, TypeInv
      <4>q. QED
        BY <2>0, <2>2, <3>1, <3>2, <4>1 DEF Accounted, Goto
    <3>3. CASE Cause(Main) /\ Goto(x, "failed")
      <4>1. causes'[s] > causes[s] \/ causes'[s] = Tries
        BY <3>3, CauseCounts
      <4>2. attempts[s] \in 1..3
        BY <1>16, <2>2 DEF create_connection, AttemptsInv
      <4>q. QED
        BY SMTT(30), <2>0, <2>2, <3>1, <3>3, <4>1, <4>2 DEF Accounted, Goto, Tries
    <3>q. QED
      BY <1>16, <2>0, <3>2, <3>3 DEF create_connection, ConnectFails
  <2>q. QED
    BY <2>1, <2>2
<1>17. CASE UNCHANGED vars
  BY SMTT(30), <1>17, Stays DEF vars, Open
<1>q. QED
  BY <1>1, <1>2, <1>3, <1>4, <1>8, <1>9, <1>10, <1>11, <1>12, <1>13, <1>14, <1>15, <1>16, <1>17
     DEF Next, Constructing, receive, send

(* No step takes a sender back out of its loop.                            *)
LEMMA OtherStays ==
  ASSUME TypeInv, AttemptsInv, [Next]_vars, NEW r \in Senders, attempts[r] > 0
  PROVE  attempts'[r] > 0
<1>1. ASSUME NEW x \in Senders, SendFails(x) PROVE attempts'[r] > 0
  BY SMTT(30), <1>1 DEF SendFails, TypeInv
<1>2. ASSUME NEW x \in Senders, Retry(x) PROVE attempts'[r] > 0
  BY SMTT(30), <1>2 DEF Retry, TypeInv, Tries
<1>3. CASE attempts' = attempts
  BY <1>3
<1>q. QED
  BY <1>1, <1>2, <1>3 DEF Next, vars, Constructing, receive, send, connect_soc, create_connection, Begin, Recv,
    StreamClosed, EndReceive, CloseAndEnd, CloseAndRetry, close, Hear, Lose, RemoveCA, Sent, Takes

(* self.ws becomes None under a close only by another sender.              *)
LEMMA BrokenStep == TypeInv /\ CountInv /\ BrokenInv /\ [Next]_vars => BrokenInv'
<1> SUFFICES ASSUME TypeInv, CountInv, BrokenInv, [Next]_vars, NEW s \in Senders,
                    (pc[s] = "broken" \/ (pc[s] = "close" /\ ws = 0))'
             PROVE  Other(s)'
  BY DEF BrokenInv
<1>a. PhaseInv /\ AttemptsInv /\ (Other(s) => Other(s)')
  BY OtherStays DEF Other, CountInv
<1>b. pc[s] = "broken" \/ (pc[s] = "close" /\ ws = 0) => Other(s)
  BY DEF BrokenInv
<1> USE WebSocketAssumption, <1>a, <1>b DEF TypeInv, Threads, Main, Receiver
<1>1. CASE connect_soc(Main)
  BY <1>1 DEF PhaseInv, connect_soc, ConnectFails, Goto
<1>2. CASE create_connection(Main)
  BY <1>2, Created DEF PhaseInv, create_connection, ConnectFails, Goto
<1>3. CASE Begin
  BY <1>3 DEF PhaseInv, Begin
<1>4. CASE Recv \/ StreamClosed \/ EndReceive \/ Hear
  BY <1>4, ReceiverMoves
<1>7. CASE CloseAndEnd
  BY <1>7 DEF CloseAndEnd, close, Goto
<1>9. CASE Lose
  BY <1>9 DEF Lose
<1>10. CASE RemoveCA
  BY <1>10 DEF RemoveCA
<1>11. ASSUME NEW x \in Senders, Sent(x) PROVE Other(s)'
  BY <1>11 DEF Sent, Takes, Goto
<1>12. ASSUME NEW x \in Senders, SendFails(x) PROVE Other(s)'
  BY <1>12 DEF SendFails, Goto
<1>13. ASSUME NEW x \in Senders, Retry(x) PROVE Other(s)'
  BY <1>13 DEF Retry, Goto
<1>14. ASSUME NEW x \in Senders, CloseAndRetry(x) PROVE Other(s)'
  <2>1. CASE x = s
    BY <1>14, <2>1 DEF CloseAndRetry, close, Goto
  <2>2. CASE x # s
    BY <1>14, <2>2 DEF CloseAndRetry, close, Goto
  <2>q. QED
    BY <2>1, <2>2
<1>15. ASSUME NEW x \in Senders, connect_soc(x) PROVE Other(s)'
  <2>1. x # s
    BY <1>15 DEF connect_soc, ConnectFails, Goto
  <2>2. attempts[x] > 0 /\ attempts' = attempts
    <3>1. pc[x] = "connect" /\ attempts' = attempts
      BY <1>15 DEF connect_soc
    <3>2. attempts[x] \in 1..3
      BY <3>1 DEF AttemptsInv
    <3>q. QED
      BY SMTT(30), <3>1, <3>2
  <2>q. QED
    BY <2>1, <2>2 DEF Other
<1>16. ASSUME NEW x \in Senders, create_connection(x) PROVE Other(s)'
  BY SMTT(30), <1>16, Created DEF create_connection, ConnectFails, Goto
<1>17. CASE UNCHANGED vars
  BY <1>17 DEF vars
<1>q. QED
  BY <1>1, <1>2, <1>3, <1>4, <1>7, <1>9, <1>10, <1>11, <1>12, <1>13, <1>14, <1>15, <1>16, <1>17
     DEF Next, Constructing, receive, send

(* The initial state satisfies the invariant.                              *)
LEMMA InitInv == Init => IInv
<1> SUFFICES ASSUME Init PROVE IInv
  OBVIOUS
<1> USE WebSocketAssumption DEF Init, Threads, Main, Receiver, Tries
<1>1. TypeInv
  BY SMTT(30) DEF TypeInv, Labels
<1>2. CountInv /\ BrokenInv
  BY DEF CountInv, PhaseInv, AttemptsInv, WrittenInv, BrokenInv
<1>3. CausesInv
  BY DEF CausesInv, Accounted
<1>q. QED
  BY <1>1, <1>2, <1>3 DEF IInv

(* The invariant is inductive, so every reachable state satisfies it.      *)
THEOREM Invariance == Spec => []IInv
<1>1. IInv /\ [Next]_vars => IInv'
  BY TypeStep, CountStep, CausesStep, BrokenStep DEF IInv, CountInv
<1>q. QED
  BY InitInv, <1>1, PTL DEF Spec

(* A send that returned was taken by exactly one socket, one that raised   *)
(* or broke off by none, whatever the other threads do to self.ws.         *)
THEOREM TakenOnce == Spec => []ReturnedOnce
<1>1. IInv => ReturnedOnce
  BY DEF IInv, CountInv, WrittenInv, ReturnedOnce
<1>q. QED
  BY <1>1, Invariance, PTL

(* Two senders in their loops make a set of more than one.                 *)
LEMMA TwoInLoop ==
  ASSUME NEW s \in Senders, attempts[s] > 0, Other(s)
  PROVE  Cardinality({r \in Senders : attempts[r] > 0}) > 1
<1> DEFINE S == {r \in Senders : attempts[r] > 0}
<1>1. PICK r \in Senders : r # s /\ attempts[r] > 0
  BY DEF Other
<1>2. IsFiniteSet(S)
  BY WebSocketAssumption, FS_Subset
<1>3. {s, r} \subseteq S /\ IsFiniteSet({s, r}) /\ Cardinality({s, r}) = 2
  <2>1. IsFiniteSet({s}) /\ Cardinality({s}) = 1
    BY FS_Singleton
  <2>2. {s} \cup {r} = {s, r} /\ r \notin {s} /\ {s, r} \subseteq S
    BY <1>1
  <2>3. IsFiniteSet({s} \cup {r}) /\ Cardinality({s} \cup {r}) = Cardinality({s}) + 1
    BY <2>1, <2>2, FS_AddElement
  <2>q. QED
    BY SMTT(30), <2>1, <2>2, <2>3
<1>q. QED
  BY SMTT(30), <1>2, <1>3, FS_Subset, FS_CardinalityType

(* A send raises only after four causes of its own, and breaks off only    *)
(* when another sender is in its loop.                                     *)
THEOREM GivesUpOnlyLate == Spec => []GivesUpLate
<1>1. IInv => GivesUpLate
  <2> SUFFICES ASSUME IInv, NEW s \in Senders
               PROVE  /\ pc[s] = "raised" /\ Configured /\ Verified => causes[s] = Tries
                      /\ pc[s] = "broken" => Cardinality({r \in Senders : attempts[r] > 0}) > 1
    BY DEF GivesUpLate
  <2>1. pc[s] = "raised" /\ Configured /\ Verified => causes[s] = Tries
    BY DEF IInv, CausesInv, Accounted
  <2>2. pc[s] = "broken" => attempts[s] > 0 /\ Other(s)
    BY SMTT(30) DEF IInv, CountInv, AttemptsInv, BrokenInv
  <2>q. QED
    BY <2>1, <2>2, TwoInLoop
<1>q. QED
  BY <1>1, Invariance, PTL
=============================================================================
