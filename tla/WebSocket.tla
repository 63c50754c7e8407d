----------------------------- MODULE WebSocket -----------------------------
(***************************************************************************)
(* The WebSocket transport (liota/lib/transports/web_socket.py) as its     *)
(* users share it: threads that send, each with the reconnection loop of   *)
(* send, and the one thread that receives.  They all work on the attribute *)
(* self.ws without a lock.  A connection is a position in conns.           *)
(***************************************************************************)
EXTENDS Naturals, Sequences, FiniteSets

CONSTANTS
    Senders,     \* the threads that send one message each
    Plans,       \* what is configured and what may go wrong: see Init
    MaxHeard     \* how many messages the server sends

VARIABLES
    plan,        \* [verify, ca, trusted, faults, senders]
    conns,       \* the connections created so far: "open", "lost" or "closed"
    ws,          \* self.ws, 0 for None
    pc,          \* where each thread is
    attempts,    \* the local variable of send
    written,     \* how often the message of a sender was accepted by a socket
    over,        \* the connection that took it last
    reading,     \* the connection receive() is blocked on
    heard,       \* how many messages receive() put into its queue
    causes       \* ghost: what happened that can make a try of a sender fail

vars == <<plan, conns, ws, pc, attempts, written, over, reading, heard, causes>>

Main == "main"          \* the thread that constructs the WebSocket
Receiver == "receiver"  \* the thread that calls receive()
Threads == Senders \cup {Main, Receiver}

(* The path of the CA certificate is unset, not there, wrong, no file or a *)
(* file.                                                                   *)
Planned == [verify : BOOLEAN, ca : {"none", "missing", "wrong", "dir", "file"}, trusted : BOOLEAN,
            faults : Nat, senders : SUBSET Senders]

(* Main and Receiver are threads of their own.                             *)
ASSUME WebSocketAssumption ==
    /\ IsFiniteSet(Senders) /\ Senders \cap {Main, Receiver} = {}
    /\ Plans \subseteq Planned

Init ==
    /\ plan \in Plans
    /\ conns = <<>> /\ ws = 0
    /\ pc = [t \in Threads |-> IF t = Main THEN "connect" ELSE "idle"]
    /\ attempts = [s \in Senders |-> 0]
    /\ written = [s \in Senders |-> 0]
    /\ over = [s \in Senders |-> 0]
    /\ reading = 0 /\ heard = 0
    /\ causes = [s \in Senders |-> 0]

Goto(t, l) == pc' = [pc EXCEPT ![t] = l]

(* How often send tries: at first, and in three passes of its loop.        *)
Tries == 4

(* Something that can make the next try of every sender but t fail; causes *)
(* are counted up to Tries.                                                *)
Cause(t) == causes' = [s \in Senders |-> IF s = t \/ causes[s] = Tries
                                        THEN causes[s] ELSE causes[s] + 1]

(* What happens in the network costs one of the faults of the plan.        *)
Fault ==
    /\ plan.faults > 0
    /\ plan' = [plan EXCEPT !.faults = @ - 1]

---------------------------------------------------------------------------
(* The configuration lets a connection be tried at all.                    *)
Configured == plan.verify => plan.ca = "file"

(* Whether the handshake accepts the certificate of the server.            *)
Verified == plan.verify => plan.trusted

(* Where a failed connect_soc leads: the constructor raises, a send closes *)
(* what is there and tries again.                                          *)
ConnectFails(t) == IF t = Main THEN Goto(t, "raised") ELSE Goto(t, "failed")

(* The first half of WebSocketConnection: self.ws is None from here on.    *)
connect_soc(t) ==
    /\ pc[t] = "connect"
    /\ ws' = 0
    /\ IF Configured THEN Goto(t, "create") ELSE ConnectFails(t)
    /\ IF t = Main THEN UNCHANGED causes ELSE Cause(t)
    /\ UNCHANGED <<plan, conns, attempts, written, over, reading, heard>>

(* create_connection returns a connection, or raises.                      *)
create_connection(t) ==
    /\ pc[t] = "create"
    /\ \/ /\ Verified
          /\ conns' = Append(conns, "open")
          /\ ws' = Len(conns')
          /\ Goto(t, IF t = Main THEN "up" ELSE "send")
          /\ UNCHANGED <<plan, causes>>
       \/ /\ IF Verified THEN Fault /\ Cause(Main) ELSE UNCHANGED <<plan, causes>>
          /\ ConnectFails(t)
          /\ UNCHANGED <<conns, ws>>
    /\ UNCHANGED <<attempts, written, over, reading, heard>>

(* The constructor is over and the threads begin.                          *)
Begin ==
    /\ pc[Main] = "up"
    /\ pc' = [t \in Threads |-> CASE t = Main -> "done"
                                  [] t = Receiver -> "recv"
                                  [] t \in plan.senders -> "first"
                                  [] OTHER -> "idle"]
    /\ UNCHANGED <<plan, conns, ws, attempts, written, over, reading, heard, causes>>

---------------------------------------------------------------------------
Open == ws # 0 /\ conns[ws] = "open"

(* ws.send takes the message: always on an open connection, possibly on    *)
(* one that is lost without the socket knowing.                            *)
Takes(s) ==
    /\ pc[s] \in {"first", "send"}
    /\ ws # 0 /\ conns[ws] \in {"open", "lost"}
    /\ written' = [written EXCEPT ![s] = @ + 1]
    /\ over' = [over EXCEPT ![s] = ws]
    /\ UNCHANGED <<plan, conns, ws, reading, heard, causes>>

Sent_nobreak(s) ==
    /\ Takes(s)
    /\ IF pc[s] = "send" /\ attempts[s] < 3
       THEN /\ attempts' = [attempts EXCEPT ![s] = @ + 1]
            /\ Goto(s, "connect")
       ELSE Goto(s, "returned") /\ UNCHANGED attempts

(* send returns, from the first try or through the break of the loop.      *)
Sent(s) ==
    /\ Takes(s)
    /\ Goto(s, "returned")
    /\ UNCHANGED attempts

(* ws.send raises: no connection, a closed one, or one that is lost.  The  *)
(* first failure starts the loop.                                          *)
SendFails(s) ==
    /\ pc[s] \in {"first", "send"}
    /\ ~ Open
    /\ attempts' = [attempts EXCEPT ![s] = IF pc[s] = "first" THEN 1 ELSE @]
    /\ Goto(s, IF pc[s] = "first" THEN "connect" ELSE "failed")
    /\ UNCHANGED <<plan, conns, ws, written, over, reading, heard, causes>>

Retry_two(s) ==
    /\ pc[s] = "failed"
    /\ attempts' = [attempts EXCEPT ![s] = @ + 1]
    /\ Goto(s, IF ws # 0 THEN "close"
               ELSE IF attempts'[s] = 3 THEN "raised" ELSE "connect")
    /\ UNCHANGED <<plan, conns, ws, written, over, reading, heard, causes>>

(* The handler of the loop counts the attempt and calls close, whose test  *)
(* of self.ws is this step.                                                *)
Retry(s) ==
    /\ pc[s] = "failed"
    /\ attempts' = [attempts EXCEPT ![s] = @ + 1]
    /\ Goto(s, IF ws # 0 THEN "close"
               ELSE IF attempts'[s] = Tries THEN "raised" ELSE "connect")
    /\ UNCHANGED <<plan, conns, ws, written, over, reading, heard, causes>>

(* The second half of close: it closes what self.ws is now, and raises out *)
(* of the handler when another thread has set it to None in between.       *)
close(t, after) ==
    /\ pc[t] = "close"
    /\ IF ws = 0
       THEN /\ Goto(t, "broken")
            /\ UNCHANGED <<conns, causes>>
       ELSE /\ conns' = [conns EXCEPT ![ws] = "closed"]
            /\ Cause(t)
            /\ Goto(t, after)
    /\ UNCHANGED <<plan, ws, attempts, written, over, reading, heard>>

CloseAndRetry(s) == close(s, IF attempts[s] = Tries THEN "raised" ELSE "connect")

---------------------------------------------------------------------------
(* receive() blocks on the connection that self.ws is now.                 *)
Recv ==
    /\ pc[Receiver] = "recv"
    /\ reading' = ws
    /\ Goto(Receiver, IF ws = 0 THEN "ending" ELSE "blocked")
    /\ UNCHANGED <<plan, conns, ws, attempts, written, over, heard, causes>>

(* A message arrives.                                                      *)
Hear ==
    /\ pc[Receiver] = "blocked"
    /\ conns[reading] = "open" /\ heard < MaxHeard
    /\ heard' = heard + 1
    /\ reading' = 0
    /\ Goto(Receiver, "recv")
    /\ UNCHANGED <<plan, conns, ws, attempts, written, over, causes>>

StreamClosed_ignored ==
    /\ pc[Receiver] = "blocked"
    /\ conns[reading] # "open"
    /\ UNCHANGED vars

(* The connection is over: recv raises, or returns the empty string, which *)
(* the loop turns into an exception.                                       *)
StreamClosed ==
    /\ pc[Receiver] = "blocked"
    /\ conns[reading] # "open"
    /\ reading' = 0
    /\ Goto(Receiver, "ending")
    /\ UNCHANGED <<plan, conns, ws, attempts, written, over, heard, causes>>

(* The handler of receive() calls close; the thread ends, for good.        *)
EndReceive ==
    /\ pc[Receiver] = "ending"
    /\ Goto(Receiver, IF ws = 0 THEN "ended" ELSE "close")
    /\ UNCHANGED <<plan, conns, ws, attempts, written, over, reading, heard, causes>>

CloseAndEnd == close(Receiver, "ended")

(* The network loses a connection in use (external).                       *)
Lose ==
    /\ \E c \in {ws, reading} \ {0} :
          /\ conns[c] = "open"
          /\ conns' = [conns EXCEPT ![c] = "lost"]
    /\ Fault /\ Cause(Main)
    /\ UNCHANGED <<ws, pc, attempts, written, over, reading, heard>>

(* The file with the CA certificate is removed (external).                 *)
RemoveCA ==
    /\ plan.verify /\ plan.ca = "file" /\ plan.faults > 0
    /\ plan' = [plan EXCEPT !.ca = "wrong", !.faults = @ - 1]
    /\ UNCHANGED <<conns, ws, pc, attempts, written, over, reading, heard, causes>>

---------------------------------------------------------------------------
Constructing == connect_soc(Main) \/ create_connection(Main) \/ Begin

send(s) ==
    \/ Sent(s) \/ SendFails(s) \/ Retry(s) \/ CloseAndRetry(s)
    \/ connect_soc(s) \/ create_connection(s)

receive == Recv \/ StreamClosed \/ EndReceive \/ CloseAndEnd

Next == Constructing \/ receive \/ Hear \/ Lose \/ RemoveCA \/ \E s \in Senders : send(s)

Spec == Init /\ [][Next]_vars

(* The threads run.  Nothing obliges the server to send or the network to  *)
(* fail.                                                                   *)
FairSpec ==
    /\ Spec
    /\ WF_vars(Constructing) /\ WF_vars(receive)
    /\ \A s \in Senders : WF_vars(send(s))

---------------------------------------------------------------------------
Ends == {"returned", "raised", "broken"}

(* A send that returned has handed its message to exactly one socket, and  *)
(* one that raised to none: the loop neither sends a message twice nor     *)
(* reports as failed what was taken.                                       *)
ReturnedOnce ==
    \A s \in Senders :
        pc[s] \in Ends => written[s] = (IF pc[s] = "returned" THEN 1 ELSE 0)

(* A send gives up only when four of its tries failed, and no single event *)
(* fails two of them: at least four losses, refusals, reconnections or     *)
(* closes by others have happened.  It breaks off early, through the       *)
(* unguarded close, only when another sender reconnects at that moment.    *)
GivesUpLate ==
    \A s \in Senders :
        /\ pc[s] = "raised" /\ Configured /\ Verified => causes[s] = Tries
        /\ pc[s] = "broken" => Cardinality({r \in Senders : attempts[r] > 0}) > 1

(* An answer to a message sent over a connection can be heard: the         *)
(* receiver comes to read that connection, unless the connection is over,  *)
(* the receiver has ended, or several senders reconnected at once: then    *)
(* the receiver may be left on a connection that nobody uses any more.     *)
DeafOnlyByRace ==
    \A s \in Senders :
        pc[s] = "returned" ~>
            \/ over[s] \notin {c \in DOMAIN conns : conns[c] = "open"}
            \/ reading = over[s]
            \/ pc[Receiver] \in {"ended", "broken"}
            \/ Cardinality({r \in Senders : attempts[r] > 0}) > 1
=============================================================================
