---------------------------- MODULE IoTCCProofs ----------------------------
(***************************************************************************)
(* The requests and the dispatcher of IotControlCenter implement           *)
(* RequestReply, for any number of threads, requests, faults and restarts  *)
(* and any size of the id space: races in _next_id, ids that wrap and      *)
(* answers that come late or twice included.  And unless two calls of      *)
(* _next_id race, ids differ as long as fewer than IdSpace requests lie    *)
(* between them.                                                           *)
(*                                                                         *)
(* The second half prepares for IoTCCRecords.  A method of the API calls   *)
(* others (register calls set_properties, and both call get_properties),   *)
(* so a thread has a stack of frames.  TInv says what the stacks and the   *)
(* records look like, and Effect(t) what a step of thread t does to them.  *)
(***************************************************************************)
EXTENDS IoTCC, SequenceTheorems, TLAPS

USE ZenonT(30)

-----------------------------------------------------------------------------
(* Sequences whose elements are of no particular type.                     *)
Elems(q) == {q[i] : i \in DOMAIN q}
IsSeq(q) == q \in Seq(Elems(q))

(* A sequence over any set is one over its elements.                       *)
LEMMA SeqIsSeq == ASSUME NEW S, NEW q \in Seq(S) PROVE IsSeq(q)
<1>1. Len(q) \in Nat /\ q \in [1..Len(q) -> S] /\ DOMAIN q = 1..Len(q)
  BY LenProperties
<1>2. q \in [1..Len(q) -> Elems(q)]
  BY <1>1 DEF Elems
<1> QED
  BY SMTT(30), <1>1, <1>2 DEF IsSeq

(* A sequence is a function on 1..Len.                                     *)
LEMMA SeqLen ==
  ASSUME NEW q, IsSeq(q)
  PROVE  Len(q) \in Nat /\ DOMAIN q = 1..Len(q) /\ q = [i \in 1..Len(q) |-> q[i]]
  BY LenProperties DEF IsSeq

(* And a function on 1..n is a sequence.                                   *)
LEMMA FunIsSeq ==
  ASSUME NEW n \in Nat, NEW q, DOMAIN q = 1..n, q = [i \in 1..n |-> q[i]]
  PROVE  IsSeq(q) /\ Len(q) = n
<1>1. q \in [1..n -> Elems(q)]
  BY DEF Elems
<1>2. ASSUME NEW S, q \in [1..n -> S] PROVE q \in Seq(S) /\ Len(q) = n
  BY SMTT(30), <1>2
<1> QED
  BY <1>1, <1>2 DEF IsSeq

(* What Append returns.                                                    *)
LEMMA AppendSeq ==
  ASSUME NEW q, IsSeq(q), NEW e
  PROVE  /\ IsSeq(Append(q, e))
         /\ Len(Append(q, e)) = Len(q) + 1
         /\ \A i \in 1..Len(q) : Append(q, e)[i] = q[i]
         /\ Append(q, e)[Len(q) + 1] = e
<1> DEFINE S == Elems(q) \cup {e}
<1>1. q \in Seq(S) /\ e \in S
  BY SeqMonotonic DEF IsSeq
<1> HIDE DEF S
<1>2. Append(q, e) \in Seq(S)
  BY SMTT(30), <1>1
<1>3. Len(Append(q, e)) = Len(q) + 1
  BY SMTT(30), <1>1
<1>4. \A i \in 1..Len(q) : Append(q, e)[i] = q[i]
  BY SMTT(30), <1>1
<1>5. Append(q, e)[Len(q) + 1] = e
  BY SMTT(30), <1>1
<1> QED
  BY <1>2, <1>3, <1>4, <1>5, SeqIsSeq

(* What Head and Tail return.                                              *)
LEMMA TailSeq ==
  ASSUME NEW q, IsSeq(q), q # <<>>
  PROVE  /\ IsSeq(Tail(q)) /\ Len(Tail(q)) = Len(q) - 1 /\ Len(q) \in Nat \ {0}
         /\ \A i \in 1..Len(Tail(q)) : Tail(q)[i] = q[i + 1]
         /\ Head(q) = q[1]
<1> DEFINE S == Elems(q)
<1>1. q \in Seq(S)
  BY DEF IsSeq
<1> HIDE DEF S
<1>2. /\ Tail(q) \in Seq(S) /\ Len(Tail(q)) = Len(q) - 1
      /\ \A i \in 1..Len(Tail(q)) : Tail(q)[i] = q[i + 1]
  BY <1>1, HeadTailProperties
<1>3. Len(q) \in Nat \ {0}
  BY <1>1, EmptySeq, LenProperties
<1>4. Head(q) = q[1]
  BY SMTT(30), <1>1
<1> QED
  BY <1>2, <1>3, <1>4, SeqIsSeq

(* What concatenation returns.                                             *)
LEMMA ConcatSeq ==
  ASSUME NEW q, IsSeq(q), NEW r, IsSeq(r)
  PROVE  /\ IsSeq(q \o r) /\ Len(q \o r) = Len(q) + Len(r)
         /\ \A i \in 1..Len(q) + Len(r) : (q \o r)[i] = IF i <= Len(q) THEN q[i] ELSE r[i - Len(q)]
<1> DEFINE S == Elems(q) \cup Elems(r)
<1>1. q \in Seq(S) /\ r \in Seq(S)
  BY SeqMonotonic DEF IsSeq
<1> HIDE DEF S
<1>2. q \o r \in Seq(S)
  BY <1>1, ConcatProperties
<1> QED
  BY <1>1, <1>2, ConcatProperties, SeqIsSeq

-----------------------------------------------------------------------------
(* The invariant.                                                          *)
Ids == 0..(IdSpace - 1)

(* A request has the fields that Ask gives it.                             *)
IsCall(r) ==
  r = [op |-> r.op, ent |-> r.ent, props |-> r.props, id |-> r.id, epoch |-> r.epoch,
       got |-> r.got, fate |-> r.fate]

CounterInv == counter \in Ids /\ old \in [Threads -> Nat]

CallsInv ==
  /\ IsSeq(calls)
  /\ \A c \in 1..Len(calls) : IsCall(calls[c]) /\ calls[c].id \in Ids
  /\ wire \subseteq 1..Len(calls)

QueueInv ==
  /\ IsSeq(recv_msg_queue)
  /\ \A i \in 1..Len(recv_msg_queue) : recv_msg_queue[i].id \in Ids

(* Request c of q waits under id i, and nothing was delivered to it.       *)
Waits(q, c, i) == c \in 1..Len(q) /\ q[c].id = i /\ q[c].got = <<>>

(* What _req_dict holds waits under its key.                               *)
DictInv ==
  /\ req_dict \in [Ids -> Nat]
  /\ \A i \in Ids : req_dict[i] # 0 => Waits(calls, req_dict[i], i)

(* So does the request the dispatcher has looked up, though its entry in   *)
(* _req_dict may have been replaced since.                                 *)
DispInv == disp # None => disp.msg.id \in Ids /\ Waits(calls, disp.req, disp.msg.id)

RInv == CounterInv /\ CallsInv /\ QueueInv /\ DictInv /\ DispInv

vars_seen == <<counter, old, requests, net>>

(* What a request is stays as it is.                                       *)
SameCall(q, r) ==
  IsCall(r) /\ r.op = q.op /\ r.ent = q.ent /\ r.props = q.props /\ r.id = q.id /\ r.epoch = q.epoch

(* Its queue or its fate changes, and nothing else of it or of another.    *)
LEMMA CallUpdate ==
  ASSUME CallsInv, NEW d \in 1..Len(calls), NEW x, SameCall(calls[d], x),
         calls' = [calls EXCEPT ![d] = x]
  PROVE  /\ IsSeq(calls') /\ Len(calls') = Len(calls) /\ Len(calls) \in Nat
         /\ DOMAIN calls = 1..Len(calls) /\ DOMAIN calls' = 1..Len(calls)
         /\ calls'[d] = x
         /\ \A c \in 1..Len(calls) : c # d => calls'[c] = calls[c]
         /\ \A c \in 1..Len(calls) : SameCall(calls[c], calls'[c])
<1>1. /\ Len(calls) \in Nat /\ DOMAIN calls = 1..Len(calls)
      /\ calls = [i \in 1..Len(calls) |-> calls[i]]
  BY SeqLen DEF CallsInv
<1>2. /\ DOMAIN calls' = 1..Len(calls) /\ calls'[d] = x
      /\ \A c \in 1..Len(calls) : c # d => calls'[c] = calls[c]
  BY <1>1
<1>3. IsSeq(calls') /\ Len(calls') = Len(calls)
  <2>1. calls' = [i \in 1..Len(calls) |-> calls'[i]]
    BY <1>1, <1>2
  <2> QED
    BY <1>1, <1>2, <2>1, FunIsSeq
<1>4. \A c \in 1..Len(calls) : SameCall(calls[c], calls'[c])
  BY <1>2 DEF SameCall, CallsInv
<1> QED
  BY <1>1, <1>2, <1>3, <1>4

(* dispatch_put changes the queue of a request.                            *)
LEMMA GotUpdate ==
  ASSUME CallsInv, NEW d \in 1..Len(calls), NEW g, calls' = [calls EXCEPT ![d].got = g]
  PROVE  \E x : calls' = [calls EXCEPT ![d] = x] /\ SameCall(calls[d], x)
                /\ x.got = g /\ x.fate = calls[d].fate
<1> DEFINE r == calls[d]
           x == [op |-> r.op, ent |-> r.ent, props |-> r.props, id |-> r.id, epoch |-> r.epoch,
                 got |-> g, fate |-> r.fate]
<1>1. IsCall(r)
  BY DEF CallsInv
<1>2. [r EXCEPT !.got = g] = x
  <2> HIDE DEF r
  <2> QED BY SMTT(30), <1>1 DEF IsCall
<1>3. SameCall(r, x) /\ x.got = g /\ x.fate = r.fate
  BY DEF SameCall, IsCall
<1>4. calls' = [calls EXCEPT ![d] = [r EXCEPT !.got = g]]
  OBVIOUS
<1> HIDE DEF x
<1> QED
  BY <1>2, <1>3, <1>4

(* The control center settles its fate.                                    *)
LEMMA FateUpdate ==
  ASSUME CallsInv, NEW d \in 1..Len(calls), NEW f, calls' = [calls EXCEPT ![d].fate = f]
  PROVE  \E x : calls' = [calls EXCEPT ![d] = x] /\ SameCall(calls[d], x)
                /\ x.got = calls[d].got /\ x.fate = f
<1> DEFINE r == calls[d]
           x == [op |-> r.op, ent |-> r.ent, props |-> r.props, id |-> r.id, epoch |-> r.epoch,
                 got |-> r.got, fate |-> f]
<1>1. IsCall(r)
  BY DEF CallsInv
<1>2. [r EXCEPT !.fate = f] = x
  <2> HIDE DEF r
  <2> QED BY SMTT(30), <1>1 DEF IsCall
<1>3. SameCall(r, x) /\ x.got = r.got /\ x.fate = f
  BY DEF SameCall, IsCall
<1>4. calls' = [calls EXCEPT ![d] = [r EXCEPT !.fate = f]]
  OBVIOUS
<1> HIDE DEF x
<1> QED
  BY <1>2, <1>3, <1>4

(* Nothing is asked when the process starts.                               *)
LEMMA InitRInv == Init => RInv
<1> SUFFICES ASSUME Init PROVE RInv
  OBVIOUS
<1>1. IsSeq(calls) /\ Len(calls) = 0 /\ IsSeq(recv_msg_queue) /\ Len(recv_msg_queue) = 0
  BY EmptySeq, SeqIsSeq DEF Init
<1>2. CounterInv
  BY SMTT(30), IoTCCAssumption DEF Init, CounterInv, Ids
<1>3. CallsInv /\ QueueInv
  BY SMTT(30), <1>1 DEF Init, CallsInv, QueueInv
<1>4. DictInv
  BY DEF Init, DictInv, Ids
<1>5. DispInv
  BY DEF Init, DispInv
<1> QED
  BY <1>2, <1>3, <1>4, <1>5 DEF RInv

(* The invariant speaks of these variables only.                           *)
LEMMA SeenInv == RInv /\ UNCHANGED vars_seen => RInv'
  BY DEF vars_seen, requests, net, RInv, CounterInv, CallsInv, QueueInv, DictInv, DispInv, Waits, Ids

(* Every other step of a thread leaves them alone.                         *)
LEMMA QuietStep ==
  ASSUME NEW t \in Threads, Step(t) \/ Call(t)
  PROVE  \/ UNCHANGED vars_seen
         \/ next_id_read(t) \/ next_id_write(t) \/ \E sent \in BOOLEAN : Ask(t, sent)
<1> USE DEF vars_seen
<1>1. CASE Call(t)
  BY <1>1 DEF Call, register, unregister, create_relationship, set_properties, publish_unit, Start
<1>2. CASE Timeout(t)
  BY <1>2 DEF Timeout
<1>3. CASE FoundResource(t) \/ WaitAgain(t) \/ PropertiesSet(t) \/ PropertiesGot(t)
  BY <1>3 DEF FoundResource, WaitAgain, PropertiesSet, PropertiesGot, Answered
<1>4. CASE Unregistered(t) \/ Related(t) \/ Refused(t)
  BY <1>4 DEF Unregistered, Related, Refused, Answered
<1>5. CASE store_reg_entity_details(t) \/ store_reg_entity_attributes(t) \/ MakeRegisteredEntity(t)
  BY <1>5 DEF store_reg_entity_details, store_reg_entity_attributes, MakeRegisteredEntity
<1>6. CASE write_entity_file(t) \/ fill_entity_file(t)
  BY <1>6 DEF write_entity_file, fill_entity_file, StoreDone
<1>7. CASE remove_reg_entity_details(t) \/ store_device_removed(t)
  BY <1>7 DEF remove_reg_entity_details, store_device_removed
<1> QED
  BY <1>1, <1>2, <1>3, <1>4, <1>5, <1>6, <1>7 DEF Step

(* Counting preserves the invariant.                                       *)
LEMMA CountInv ==
  ASSUME RInv, NEW t \in Threads, next_id_read(t) \/ next_id_write(t)
  PROVE  RInv' /\ UNCHANGED calls
<1>1. UNCHANGED <<calls, req_dict, wire, recv_msg_queue, disp>>
  BY DEF next_id_read, next_id_write, requests, net
<1>2. CounterInv'
  <2>1. CASE next_id_read(t)
    BY SMTT(30), <2>1, IoTCCAssumption DEF next_id_read, RInv, CounterInv, Ids
  <2>2. CASE next_id_write(t)
    <3>1. old[t] + 1 \in Nat /\ IdSpace \in Nat \ {0}
      BY SMTT(30), IoTCCAssumption DEF RInv, CounterInv
    <3>2. (old[t] + 1) % IdSpace \in Ids
      BY SMTT(30), <3>1 DEF Ids
    <3> QED
      BY <2>2, <3>2 DEF next_id_write, RInv, CounterInv, Ids
  <2> QED
    BY <2>1, <2>2
<1>3. (CallsInv /\ QueueInv /\ DictInv /\ DispInv)'
  BY <1>1 DEF RInv, CallsInv, QueueInv, DictInv, DispInv, Waits, Ids
<1> QED
  BY <1>1, <1>2, <1>3 DEF RInv

(* A request is made: it waits under an id, in place of an older one that  *)
(* has the same.                                                           *)
LEMMA AskInv ==
  ASSUME RInv, NEW t \in Threads, NEW sent \in BOOLEAN, Ask(t, sent)
  PROVE  RInv' /\ Replies!Ask(counter)
<1> DEFINE n == Len(calls)
           r == [op |-> Top(t).op, ent |-> Top(t).ent, props |-> Top(t).props,
                 id |-> counter, epoch |-> epoch, got |-> <<>>,
                 fate |-> IF sent THEN "none" ELSE "unsent"]
<1>1. /\ calls' = Append(calls, r)
      /\ req_dict' = [req_dict EXCEPT ![counter] = n + 1]
      /\ wire' \in {wire, wire \cup {n + 1}}
      /\ UNCHANGED <<counter, old, recv_msg_queue, disp>>
  BY DEF Ask
<1>2. IsCall(r) /\ r.id = counter /\ r.got = <<>>
  BY DEF IsCall
<1> HIDE DEF r
<1>3. n \in Nat /\ counter \in Ids
  BY SeqLen DEF RInv, CallsInv, CounterInv
<1>4. /\ IsSeq(calls') /\ Len(calls') = n + 1
      /\ \A c \in 1..n : calls'[c] = calls[c]
      /\ calls'[n + 1] = r
  BY <1>1, AppendSeq DEF RInv, CallsInv
<1> HIDE DEF n
<1>5. \A c \in 1..(n + 1) : c \in 1..n \/ c = n + 1
  BY SMTT(30), <1>3
<1>6. ASSUME NEW c, NEW i, Waits(calls, c, i) PROVE Waits(calls', c, i)
  BY SMTT(30), <1>3, <1>4, <1>6 DEF Waits, n
<1>7. Waits(calls', n + 1, counter)
  <2>1. n + 1 \in 1..Len(calls')
    BY SMTT(30), <1>3, <1>4
  <2> QED
    BY <1>2, <1>4, <2>1, <1>1 DEF Waits
<1>8. CallsInv'
  <2>1. \A c \in 1..Len(calls') : IsCall(calls'[c]) /\ calls'[c].id \in Ids
    BY <1>2, <1>3, <1>4, <1>5 DEF RInv, CallsInv, n
  <2>2. wire' \subseteq 1..Len(calls')
    BY SMTT(30), <1>1, <1>3, <1>4 DEF RInv, CallsInv, n
  <2> QED
    BY <1>4, <2>1, <2>2 DEF CallsInv, Ids
<1>9. DictInv'
  <2>1. req_dict' \in [Ids -> Nat]
    BY SMTT(30), <1>1, <1>3 DEF RInv, DictInv
  <2>2. ASSUME NEW i \in Ids, req_dict'[i] # 0 PROVE Waits(calls', req_dict'[i], i)
    <3>1. CASE i = counter
      BY <1>1, <1>3, <1>7, <3>1 DEF RInv, DictInv
    <3>2. CASE i # counter
      <4>1. req_dict'[i] = req_dict[i]
        BY <1>1, <1>3, <3>2 DEF RInv, DictInv
      <4>2. Waits(calls, req_dict[i], i)
        BY <2>2, <4>1 DEF RInv, DictInv
      <4> QED
        BY <1>6, <4>1, <4>2
    <3> QED
      BY <3>1, <3>2
  <2> QED
    BY <2>1, <2>2 DEF DictInv, Ids
<1>10. (CounterInv /\ QueueInv /\ DispInv)'
  <2>1. (CounterInv /\ QueueInv)'
    BY <1>1 DEF RInv, CounterInv, QueueInv, Ids
  <2>2. DispInv'
    BY <1>1, <1>6 DEF RInv, DispInv, Ids, Waits
  <2> QED
    BY <2>1, <2>2
<1>11. Replies!Ask(counter)
  <2> DEFINE ident == [c \in DOMAIN calls |-> calls[c].id]
             reply == [c \in DOMAIN calls |-> calls[c].got]
  <2>1. DOMAIN calls = 1..n /\ DOMAIN calls' = 1..(n + 1)
    BY <1>4, SeqLen DEF RInv, CallsInv, n
  <2>2. ident \in Seq(Elems(ident)) /\ reply \in Seq(Elems(reply)) /\ Len(ident) = n /\ Len(reply) = n
    <3>1. ident \in [1..n -> Elems(ident)] /\ reply \in [1..n -> Elems(reply)]
      BY <2>1 DEF Elems
    <3> HIDE DEF ident, reply
    <3> QED
      BY SMTT(30), <1>3, <3>1
  <2>3. IsSeq(ident) /\ IsSeq(reply)
    BY <2>2 DEF IsSeq
  <2>4. /\ IsSeq(Append(ident, counter)) /\ Len(Append(ident, counter)) = n + 1
        /\ \A i \in 1..n : Append(ident, counter)[i] = ident[i]
        /\ Append(ident, counter)[n + 1] = counter
    BY SMTT(30), <2>2, <2>3, AppendSeq
  <2>5. /\ IsSeq(Append(reply, <<>>)) /\ Len(Append(reply, <<>>)) = n + 1
        /\ \A i \in 1..n : Append(reply, <<>>)[i] = reply[i]
        /\ Append(reply, <<>>)[n + 1] = <<>>
    BY SMTT(30), <2>2, <2>3, AppendSeq
  <2>6. Append(ident, counter) = [c \in 1..(n + 1) |-> calls'[c].id]
    <3>1. Append(ident, counter) = [i \in 1..(n + 1) |-> Append(ident, counter)[i]]
      BY <2>4, SeqLen
    <3>2. \A i \in 1..(n + 1) : Append(ident, counter)[i] = calls'[i].id
      BY <1>2, <1>4, <1>5, <2>1, <2>4
    <3> QED
      BY <3>1, <3>2
  <2>7. Append(reply, <<>>) = [c \in 1..(n + 1) |-> calls'[c].got]
    <3>1. Append(reply, <<>>) = [i \in 1..(n + 1) |-> Append(reply, <<>>)[i]]
      BY <2>5, SeqLen
    <3>2. \A i \in 1..(n + 1) : Append(reply, <<>>)[i] = calls'[i].got
      BY <1>2, <1>4, <1>5, <2>1, <2>5
    <3> QED
      BY <3>1, <3>2
  <2> QED
    BY <2>1, <2>6, <2>7 DEF Replies!Ask
<1> QED
  BY <1>8, <1>9, <1>10, <1>11 DEF RInv

(* The dispatcher looks a message up: what it finds still waits.           *)
LEMMA GetInv == ASSUME RInv, dispatch_get PROVE RInv' /\ UNCHANGED calls
<1> DEFINE q == recv_msg_queue
           m == Head(q)
<1>1. /\ q # <<>> /\ q' = Tail(q)
      /\ disp' = IF req_dict[m.id] = 0 THEN None ELSE [msg |-> m, req |-> req_dict[m.id]]
      /\ UNCHANGED <<calls, req_dict, wire, counter, old>>
  BY DEF dispatch_get, requests, threads
<1>2. /\ IsSeq(Tail(q)) /\ Len(Tail(q)) = Len(q) - 1 /\ Len(q) \in Nat \ {0}
      /\ \A i \in 1..Len(Tail(q)) : Tail(q)[i] = q[i + 1]
      /\ m = q[1]
  BY <1>1, TailSeq DEF RInv, QueueInv
<1> HIDE DEF m
<1>3. QueueInv'
  <2>1. \A i \in 1..Len(Tail(q)) : i + 1 \in 1..Len(q)
    BY SMTT(30), <1>2
  <2> QED
    BY <1>1, <1>2, <2>1 DEF RInv, QueueInv, Ids
<1>4. DispInv'
  <2>1. m.id \in Ids
    BY SMTT(30), <1>2 DEF RInv, QueueInv
  <2>2. CASE req_dict[m.id] = 0
    BY <1>1, <2>2 DEF DispInv
  <2>3. CASE req_dict[m.id] # 0
    <3>1. Waits(calls, req_dict[m.id], m.id)
      BY <2>1, <2>3 DEF RInv, DictInv
    <3>2. disp'.msg = m /\ disp'.req = req_dict[m.id]
      BY <1>1, <2>3
    <3> QED
      BY <1>1, <2>1, <3>1, <3>2 DEF DispInv, Ids
  <2> QED
    BY <2>2, <2>3
<1>5. (CounterInv /\ CallsInv /\ DictInv)'
  BY <1>1 DEF RInv, CounterInv, CallsInv, DictInv, Ids
<1> QED
  BY <1>1, <1>3, <1>4, <1>5 DEF RInv

(* The dispatcher puts it into the queue of the request, which is empty,   *)
(* and no other entry of _req_dict is this request.                        *)
LEMMA PutInv ==
  ASSUME RInv, dispatch_put
  PROVE  RInv' /\ \E c \in 1..Len(calls) : Replies!Deliver(c)
<1> DEFINE m == disp.msg
<1>1. /\ disp # None /\ disp' = None
      /\ req_dict' = [req_dict EXCEPT ![m.id] = 0]
      /\ calls' = [calls EXCEPT ![disp.req].got = Append(@, m)]
      /\ UNCHANGED <<counter, old, wire, recv_msg_queue>>
  BY DEF dispatch_put, threads
<1>2. PICK d \in 1..Len(calls) :
        d = disp.req /\ m.id \in Ids /\ calls[d].id = m.id /\ calls[d].got = <<>>
  BY <1>1 DEF RInv, DispInv, Waits
<1>3. IsSeq(calls) /\ Len(calls) \in Nat /\ DOMAIN calls = 1..Len(calls)
      /\ calls = [i \in 1..Len(calls) |-> calls[i]]
  BY SeqLen DEF RInv, CallsInv
<1>4. Append(<<>>, m) = <<m>>
  BY SMTT(30)
<1> HIDE DEF m
<1>5. PICK x : calls' = [calls EXCEPT ![d] = x] /\ SameCall(calls[d], x) /\ x.got = <<m>>
  <2>1. calls' = [calls EXCEPT ![d].got = <<m>>]
    BY <1>1, <1>2, <1>4
  <2> QED
    BY <2>1, GotUpdate DEF RInv
<1>6. IsCall(x) /\ x.id = calls[d].id /\ x.got = <<m>>
  BY <1>5 DEF SameCall
<1>7. /\ DOMAIN calls' = 1..Len(calls) /\ calls'[d] = x
      /\ \A c \in 1..Len(calls) : c # d => calls'[c] = calls[c]
      /\ IsSeq(calls') /\ Len(calls') = Len(calls)
  BY <1>2, <1>5, CallUpdate DEF RInv
<1>8. IsSeq(calls') /\ Len(calls') = Len(calls)
  BY <1>7
<1>9. CallsInv'
  BY <1>1, <1>2, <1>6, <1>7, <1>8 DEF RInv, CallsInv, Ids
<1>10. DictInv'
  <2>1. req_dict' \in [Ids -> Nat]
    BY <1>1 DEF RInv, DictInv
  <2>2. ASSUME NEW i \in Ids, req_dict'[i] # 0 PROVE Waits(calls', req_dict'[i], i)
    <3>1. i # m.id /\ req_dict'[i] = req_dict[i]
      BY <1>1, <1>2, <2>2 DEF RInv, DictInv
    <3>2. Waits(calls, req_dict[i], i)
      BY <2>2, <3>1 DEF RInv, DictInv
    <3>3. req_dict[i] # d
      BY <1>2, <3>1, <3>2 DEF Waits
    <3> QED
      BY <1>7, <1>8, <3>1, <3>2, <3>3 DEF Waits
  <2> QED
    BY <2>1, <2>2 DEF DictInv, Ids
<1>11. (CounterInv /\ QueueInv /\ DispInv)'
  BY <1>1 DEF RInv, CounterInv, QueueInv, DispInv, Ids
<1>12. Replies!Deliver(d)
  <2> DEFINE ident == [c \in DOMAIN calls |-> calls[c].id]
             reply == [c \in DOMAIN calls |-> calls[c].got]
             newid == [c \in DOMAIN calls' |-> calls'[c].id]
             newreply == [c \in DOMAIN calls' |-> calls'[c].got]
  <2>1. newid = ident
    BY <1>2, <1>3, <1>6, <1>7
  <2>2. newreply[d] = <<m>> /\ reply[d] = <<>> /\ ident[d] = m.id
    BY <1>2, <1>3, <1>6, <1>7
  <2>3. newreply = [reply EXCEPT ![d] = newreply[d]]
    BY <1>2, <1>3, <1>7
  <2>4. Len(<<m>>) = 1 /\ <<m>>[1] = m
    OBVIOUS
  <2> QED
    BY <2>1, <2>2, <2>3, <2>4 DEF Replies!Deliver
<1> QED
  BY <1>9, <1>10, <1>11, <1>12 DEF RInv

(* The control center handles a request: only its fate changes, and the    *)
(* answers carry its id.                                                   *)
LEMMA ServeInv ==
  ASSUME RInv, NEW c \in wire, NEW how, Serve(c, how)
  PROVE  /\ RInv'
         /\ [e \in DOMAIN calls |-> calls[e].id] = [e \in DOMAIN calls' |-> calls'[e].id]
         /\ [e \in DOMAIN calls |-> calls[e].got] = [e \in DOMAIN calls' |-> calls'[e].got]
<1> DEFINE copies == CASE how = "answered twice" -> 2 [] how = "answer lost" -> 0 [] OTHER -> 1
<1>1. PICK m : /\ m.id = calls[c].id
               /\ recv_msg_queue' = recv_msg_queue \o [i \in 1..copies |-> m]
               /\ calls' = [calls EXCEPT ![c].fate = how]
               /\ wire' = wire \ {c}
               /\ UNCHANGED <<counter, old, req_dict, disp>>
  <2> DEFINE a == [id |-> calls[c].id, to |-> c,
                   result |-> IF how \in Accepted THEN "succeeded" ELSE how,
                   props |-> IF calls[c].op = "get_properties" THEN Cloud(calls[c].ent) ELSE {}]
  <2>1. a.id = calls[c].id
    OBVIOUS
  <2>2. /\ recv_msg_queue' = recv_msg_queue \o [i \in 1..copies |-> a]
        /\ calls' = [calls EXCEPT ![c].fate = how]
        /\ wire' = wire \ {c}
        /\ UNCHANGED <<counter, old, req_dict, disp>>
    BY DEF Serve, threads
  <2> HIDE DEF a, copies
  <2> QED
    BY <2>1, <2>2
<1>2. copies \in Nat
  OBVIOUS
<1> HIDE DEF copies
<1>3. /\ IsSeq(calls) /\ Len(calls) \in Nat /\ DOMAIN calls = 1..Len(calls)
      /\ calls = [i \in 1..Len(calls) |-> calls[i]]
      /\ c \in 1..Len(calls) /\ calls[c].id \in Ids
  BY SeqLen DEF RInv, CallsInv
<1>5. PICK x : calls' = [calls EXCEPT ![c] = x] /\ SameCall(calls[c], x) /\ x.got = calls[c].got
  BY <1>1, <1>3, FateUpdate DEF RInv
<1>6. /\ DOMAIN calls' = 1..Len(calls) /\ calls'[c] = x
      /\ \A e \in 1..Len(calls) : e # c => calls'[e] = calls[e]
      /\ IsCall(x) /\ x.id = calls[c].id
  BY <1>3, <1>5, CallUpdate DEF RInv, SameCall
<1>7. IsSeq(calls') /\ Len(calls') = Len(calls)
  BY <1>3, <1>5, CallUpdate DEF RInv
<1>8. \A e \in 1..Len(calls) : calls'[e].id = calls[e].id /\ calls'[e].got = calls[e].got
  BY <1>5, <1>6
<1>9. CallsInv'
  BY <1>1, <1>3, <1>5, <1>6, <1>7 DEF RInv, CallsInv, Ids
<1>10. (CounterInv /\ DictInv /\ DispInv)'
  BY <1>1, <1>7, <1>8 DEF RInv, CounterInv, DictInv, DispInv, Waits, Ids
<1>11. QueueInv'
  <2> DEFINE q == recv_msg_queue
             r == [i \in 1..copies |-> m]
  <2>1. IsSeq(r) /\ Len(r) = copies /\ \A i \in 1..copies : r[i] = m
    <3>1. r \in Seq({m}) /\ Len(r) = copies
      BY SMTT(30), <1>2
    <3> QED
      BY <3>1, SeqIsSeq
  <2> HIDE DEF r
  <2>2. IsSeq(q) /\ Len(q) \in Nat /\ \A i \in 1..Len(q) : q[i].id \in Ids
    BY SeqLen DEF RInv, QueueInv
  <2>3. /\ IsSeq(q \o r) /\ Len(q \o r) = Len(q) + Len(r)
        /\ \A i \in 1..Len(q) + Len(r) : (q \o r)[i] = IF i <= Len(q) THEN q[i] ELSE r[i - Len(q)]
    BY <2>1, <2>2, ConcatSeq
  <2>4. ASSUME NEW i \in 1..Len(q \o r) PROVE (q \o r)[i].id \in Ids
    <3>1. CASE i <= Len(q)
      BY SMTT(30), <2>2, <2>3, <3>1
    <3>2. CASE ~ (i <= Len(q))
      <4>1. i - Len(q) \in 1..copies /\ (q \o r)[i] = r[i - Len(q)]
        BY SMTT(30), <1>2, <2>1, <2>2, <2>3, <3>2
      <4> QED
        BY <1>1, <1>3, <2>1, <4>1
    <3> QED
      BY <3>1, <3>2
  <2>5. recv_msg_queue' = q \o r
    BY <1>1 DEF r
  <2> QED
    BY <2>3, <2>4, <2>5 DEF QueueInv, Ids
<1> QED
  BY <1>3, <1>6, <1>8, <1>9, <1>10, <1>11 DEF RInv

(* After a restart nothing is waited for; the requests made stay as they   *)
(* are, and so do those on the way.                                        *)
LEMMA RestartInv == ASSUME RInv, Restart PROVE RInv' /\ UNCHANGED calls
<1>1. /\ counter' = 0 /\ old' = [t \in Threads |-> 0]
      /\ req_dict' = [i \in DOMAIN req_dict |-> 0]
      /\ recv_msg_queue' = <<>> /\ disp' = None /\ UNCHANGED <<calls, wire>>
  BY DEF Restart
<1>2. (CounterInv /\ CallsInv /\ DispInv)'
  BY SMTT(30), <1>1, IoTCCAssumption DEF RInv, CounterInv, CallsInv, DispInv, Ids
<1>3. DictInv'
  BY <1>1 DEF RInv, DictInv, Ids
<1>4. QueueInv'
  <2>1. IsSeq(<<>>) /\ Len(<<>>) = 0
    BY EmptySeq, SeqIsSeq
  <2> QED
    BY SMTT(30), <1>1, <2>1 DEF QueueInv
<1> QED
  BY <1>1, <1>2, <1>3, <1>4 DEF RInv

(* A step preserves the invariant, and is a step of RequestReply or leaves *)
(* its variables alone.                                                    *)
LEMMA StepSimulates == RInv /\ [Next]_vars => RInv' /\ [Replies!Next]_Replies!vars
<1> SUFFICES ASSUME RInv, [Next]_vars PROVE RInv' /\ [Replies!Next]_Replies!vars
  OBVIOUS
<1>1. ASSUME UNCHANGED calls PROVE UNCHANGED Replies!vars
  BY <1>1 DEF Replies!vars
<1>2. ASSUME NEW t \in Threads, Step(t) \/ Call(t)
      PROVE  RInv' /\ [Replies!Next]_Replies!vars
  <2>1. CASE UNCHANGED vars_seen
    <3>1. UNCHANGED calls
      BY <2>1 DEF vars_seen, requests
    <3> QED
      BY <1>1, <2>1, <3>1, SeenInv
  <2>2. CASE next_id_read(t) \/ next_id_write(t)
    BY <1>1, <2>2, CountInv
  <2>3. ASSUME NEW sent \in BOOLEAN, Ask(t, sent) PROVE RInv' /\ Replies!Next
    <3>1. RInv' /\ Replies!Ask(counter) /\ counter \in Ids
      BY <2>3, AskInv DEF RInv, CounterInv
    <3>2. PICK i \in Ids : i = counter
      BY <3>1
    <3>3. Replies!Ask(i)
      BY <3>1, <3>2 DEF Replies!Ask
    <3> QED
      BY <3>1, <3>3 DEF Replies!Next, Ids
  <2> QED
    BY <1>2, <2>1, <2>2, <2>3, QuietStep
<1>3. CASE dispatch_get
  BY <1>1, <1>3, GetInv
<1>4. CASE dispatch_put
  <2>1. RInv' /\ \E c \in 1..Len(calls) : Replies!Deliver(c)
    BY <1>4, PutInv
  <2>2. DOMAIN [c \in DOMAIN calls |-> calls[c].got] = 1..Len(calls)
    BY SeqLen DEF RInv, CallsInv
  <2> QED
    BY <2>1, <2>2 DEF Replies!Next
<1>5. ASSUME NEW c \in wire, NEW how, Serve(c, how)
      PROVE  RInv' /\ UNCHANGED Replies!vars
  BY <1>5, ServeInv DEF Replies!vars
<1>6. CASE Restart
  BY <1>1, <1>6, RestartInv
<1>7. CASE UNCHANGED vars
  <2>1. UNCHANGED vars_seen /\ UNCHANGED calls
    BY <1>7 DEF vars, vars_seen, threads, requests
  <2> QED
    BY <1>1, <2>1, SeenInv
<1> QED
  BY <1>2, <1>3, <1>4, <1>5, <1>6, <1>7 DEF Next

(* IotControlCenter implements RequestReply: a request has one transaction *)
(* id, and its queue receives at most one answer, under that id, however   *)
(* the threads interleave and whatever the control center and the network  *)
(* do.                                                                     *)
THEOREM OneReply == Spec => AtMostOneReply
<1>1. Init => Replies!Init
  BY SMTT(30), EmptySeq DEF Init, Replies!Init
<1> QED
  BY <1>1, InitRInv, StepSimulates, PTL DEF Spec, AtMostOneReply, Replies!Spec
-----------------------------------------------------------------------------
(* Transaction ids.                                                        *)

Labels == {"idle", "next_id", "incr", "double", "wait", "lock", "attributes", "write", "fill",
           "return", "forget", "remove"}

Counting(t) == pc[t] \in {"incr", "double"}
Doubling == \E t \in Threads : pc[t] = "double"

(* j is the id that comes k after i, for k up to the size of the id space. *)
Ahead(i, j, k) == j = i + k \/ j + IdSpace = i + k

(* How often the counter was incremented since request c got its id.       *)
Since(c) == Len(calls) - c + (IF Doubling THEN 1 ELSE 0)

(* As long as no two threads were inside _next_id at once, the counter     *)
(* advances by one for each request of this run of the process.            *)
CounterFollows ==
  /\ \A t, u \in Threads : Counting(t) /\ Counting(u) => t = u
  /\ \A t \in Threads : pc[t] = "incr" => old[t] = counter
  /\ \A c \in 1..Len(calls) :
       calls[c].epoch = epoch /\ Since(c) < IdSpace => Ahead(calls[c].id, counter, Since(c))

IdsAdvance ==
  \A c, d \in 1..Len(calls) :
    c <= d /\ d - c < IdSpace /\ calls[c].epoch = calls[d].epoch
    => Ahead(calls[c].id, calls[d].id, d - c)

IdInv ==
  /\ pc \in [Threads -> Labels]
  /\ DOMAIN history = {"raced", "overlapped", "mixed", "kept", "unwritten"}
  /\ epoch \in Nat /\ \A c \in 1..Len(calls) : calls[c].epoch \in 0..epoch
  /\ ~history.raced => CounterFollows /\ IdsAdvance

(* The next id.                                                            *)
LEMMA NextId ==
  ASSUME NEW i \in Ids, NEW j \in Ids, NEW k \in Nat, k + 1 < IdSpace, Ahead(i, j, k)
  PROVE  Ahead(i, (j + 1) % IdSpace, k + 1)
<1>1. (j + 1) % IdSpace = IF j + 1 = IdSpace THEN 0 ELSE j + 1
  BY SMTT(30), IoTCCAssumption DEF Ids
<1> QED
  BY SMTT(30), <1>1, IoTCCAssumption DEF Ids, Ahead

(* What every other step of a thread does to these.                        *)
Quiet(t) ==
  /\ UNCHANGED <<calls, counter, old, epoch>>
  /\ ~Counting(t)
  /\ \E l \in Labels \ {"incr", "double"} : pc' = [pc EXCEPT ![t] = l]
  /\ DOMAIN history' = DOMAIN history /\ history'.raced = history.raced

LEMMA QuietIds ==
  ASSUME IdInv, NEW t \in Threads, Step(t) \/ Call(t)
  PROVE  Quiet(t) \/ next_id_read(t) \/ next_id_write(t) \/ \E sent \in BOOLEAN : Ask(t, sent)
<1> USE DEF Quiet, Counting, Goto, Labels, Leave, Push, program, requests
<1>1. CASE Call(t)
  <2>1. \E f : Start(t, f)
    BY <1>1 DEF Call, register, unregister, create_relationship, set_properties, publish_unit
  <2> QED
    BY <2>1 DEF Start, IdInv
<1>2. CASE Timeout(t)
  BY <1>2 DEF Timeout
<1>3. CASE FoundResource(t) \/ PropertiesSet(t) \/ PropertiesGot(t)
  BY <1>3 DEF FoundResource, PropertiesSet, PropertiesGot, Answered
<1>4. CASE WaitAgain(t)
  <2>1. pc[t] = "wait" /\ UNCHANGED <<pc, calls, counter, old, epoch, history>>
    BY <1>4 DEF WaitAgain, Answered
  <2>2. pc' = [pc EXCEPT ![t] = "wait"]
    BY <2>1 DEF IdInv
  <2> QED
    BY <2>1, <2>2
<1>5. CASE Unregistered(t) \/ Related(t) \/ Refused(t)
  <2>1. pc[t] = "wait" /\ UNCHANGED <<calls, counter, old, epoch, history>>
    BY <1>5 DEF Unregistered, Related, Refused, Answered
  <2>2. \E l \in {"forget", "remove", "idle"} : pc' = [pc EXCEPT ![t] = l]
    BY <1>5 DEF Unregistered, Related, Refused
  <2> QED
    BY <2>1, <2>2
<1>6. CASE store_reg_entity_details(t) \/ store_reg_entity_attributes(t) \/ MakeRegisteredEntity(t)
  <2>1. /\ pc[t] \in {"lock", "attributes", "return"}
        /\ UNCHANGED <<calls, counter, old, epoch>>
    BY <1>6 DEF store_reg_entity_details, store_reg_entity_attributes, MakeRegisteredEntity
  <2>2. \E l \in {"idle", "attributes", "next_id", "write"} : pc' = [pc EXCEPT ![t] = l]
    BY <1>6 DEF store_reg_entity_details, store_reg_entity_attributes, MakeRegisteredEntity
  <2>3. UNCHANGED history \/ \E b : history' = [history EXCEPT !.mixed = b]
    BY <1>6 DEF store_reg_entity_details, store_reg_entity_attributes, MakeRegisteredEntity
  <2>4. DOMAIN history' = DOMAIN history /\ history'.raced = history.raced
    BY <2>3 DEF IdInv
  <2> QED
    BY <2>1, <2>2, <2>4
<1>7. CASE remove_reg_entity_details(t) \/ store_device_removed(t)
  BY <1>7 DEF remove_reg_entity_details, store_device_removed
<1>8. CASE write_entity_file(t) \/ fill_entity_file(t)
  <2>1. /\ pc[t] \in {"write", "fill"} /\ UNCHANGED <<calls, counter, old, epoch>>
        /\ \E l \in {"fill", "idle", "return"} : pc' = [pc EXCEPT ![t] = l]
    BY <1>8 DEF write_entity_file, fill_entity_file, StoreDone
  <2>2. UNCHANGED history \/ \E a, b : history' = [history EXCEPT !.kept = a, !.unwritten = b]
    BY <1>8 DEF write_entity_file, fill_entity_file, StoreDone
  <2>3. DOMAIN history' = DOMAIN history /\ history'.raced = history.raced
    BY <2>2 DEF IdInv
  <2> QED
    BY <2>1, <2>3
<1> QED
  BY <1>1, <1>2, <1>3, <1>4, <1>5, <1>6, <1>7, <1>8 DEF Step

(* A thread that is not inside _next_id leaves the ids alone.              *)
LEMMA QuietIdStep == ASSUME IdInv, NEW t \in Threads, Quiet(t) PROVE IdInv'
<1>1. /\ pc' \in [Threads -> Labels] /\ ~Counting(t)'
      /\ \A u \in Threads : Counting(u)' => Counting(u) /\ pc'[u] = pc[u]
      /\ \A u \in Threads : pc'[u] = "double" <=> pc[u] = "double"
  BY DEF IdInv, Quiet, Counting, Labels
<1>2. Doubling' <=> Doubling
  BY <1>1 DEF Doubling
<1>3. \A c : Since(c)' = Since(c)
  BY <1>2 DEF Since, Quiet
<1>4. UNCHANGED <<calls, counter, old, epoch>> /\ DOMAIN history' = DOMAIN history /\ history'.raced = history.raced
  BY DEF Quiet
<1>5. ASSUME CounterFollows PROVE CounterFollows'
  <2>1. \A u, v \in Threads : Counting(u)' /\ Counting(v)' => u = v
    BY <1>1, <1>5 DEF CounterFollows
  <2>2. \A u \in Threads : pc'[u] = "incr" => old'[u] = counter'
    BY <1>1, <1>4, <1>5 DEF CounterFollows, Counting
  <2> QED
    BY <1>3, <1>4, <1>5, <2>1, <2>2 DEF CounterFollows, Ahead
<1> QED
  BY <1>1, <1>4, <1>5 DEF IdInv, IdsAdvance, Ahead

(* _next_id reads the counter: only one thread is there.                   *)
LEMMA ReadIdStep == ASSUME RInv, IdInv, NEW t \in Threads, next_id_read(t) PROVE IdInv'
<1>1. /\ pc[t] = "next_id" /\ pc' = [pc EXCEPT ![t] = "incr"] /\ old' = [old EXCEPT ![t] = counter]
      /\ UNCHANGED <<counter, calls, epoch>>
  BY DEF next_id_read, Goto, requests, program
<1>2. /\ DOMAIN history' = DOMAIN history
      /\ history'.raced = (history.raced \/ \E u \in Threads \ {t} : Counting(u))
  BY DEF next_id_read, IdInv, Counting
<1>3. /\ pc' \in [Threads -> Labels] /\ pc'[t] = "incr" /\ old'[t] = counter
      /\ \A u \in Threads : u # t => pc'[u] = pc[u] /\ old'[u] = old[u]
  BY <1>1 DEF IdInv, RInv, CounterInv, Labels
<1>4. Doubling' <=> Doubling
  BY <1>1, <1>3 DEF Doubling
<1>5. \A c : Since(c)' = Since(c)
  BY <1>1, <1>4 DEF Since
<1>6. ASSUME ~history'.raced PROVE CounterFollows'
  <2>1. CounterFollows /\ \A u \in Threads : u # t => ~Counting(u)
    BY <1>2, <1>6 DEF IdInv
  <2>2. \A u \in Threads : u # t => ~Counting(u)'
    BY <1>3, <2>1 DEF Counting
  <2> QED
    BY <1>1, <1>3, <1>5, <2>1, <2>2 DEF CounterFollows, Ahead, Counting
<1> QED
  BY <1>1, <1>2, <1>3, <1>6 DEF IdInv, IdsAdvance, Ahead

(* _next_id increments it by one: it is what this thread has read.         *)
LEMMA WriteIdStep == ASSUME RInv, IdInv, NEW t \in Threads, next_id_write(t) PROVE IdInv'
<1>1. /\ pc[t] = "incr" /\ pc' = [pc EXCEPT ![t] = "double"] /\ old' = [old EXCEPT ![t] = 0]
      /\ counter' = (old[t] + 1) % IdSpace
      /\ UNCHANGED <<calls, epoch, history>>
  BY DEF next_id_write, Goto, requests, program
<1>2. /\ pc' \in [Threads -> Labels] /\ pc'[t] = "double"
      /\ \A u \in Threads : u # t => pc'[u] = pc[u]
  BY <1>1 DEF IdInv, Labels
<1>3. ASSUME CounterFollows PROVE CounterFollows'
  <2>1. Counting(t) /\ counter = old[t]
    BY <1>1, <1>3 DEF CounterFollows, Counting
  <2>2. \A u \in Threads : Counting(u)' => u = t
    BY <1>2, <1>3, <2>1 DEF CounterFollows, Counting
  <2>3. ~Doubling /\ Doubling'
    BY <1>1, <1>2, <1>3, <2>1 DEF Doubling, CounterFollows, Counting
  <2>4. \A u \in Threads : pc'[u] # "incr"
    BY <1>2, <2>2 DEF Counting
  <2>5. ASSUME NEW c \in 1..Len(calls), calls[c].epoch = epoch, Since(c)' < IdSpace
        PROVE  Ahead(calls[c].id, counter', Since(c)')
    <3>1. Len(calls) \in Nat /\ counter \in Ids /\ calls[c].id \in Ids
      BY SeqLen DEF RInv, CallsInv, CounterInv
    <3>2. Since(c) = Len(calls) - c /\ Since(c)' = Len(calls) - c + 1
      BY SMTT(30), <1>1, <2>3, <3>1 DEF Since
    <3>3. Since(c) \in Nat /\ Since(c)' = Since(c) + 1 /\ Since(c) < IdSpace
      BY SMTT(30), <2>5, <3>1, <3>2, IoTCCAssumption
    <3>4. Ahead(calls[c].id, counter, Since(c))
      BY <1>3, <2>5, <3>3 DEF CounterFollows
    <3> HIDE DEF Since
    <3>5. Ahead(calls[c].id, (counter + 1) % IdSpace, Since(c) + 1)
      BY <2>5, <3>1, <3>3, <3>4, NextId
    <3> QED
      BY <1>1, <2>1, <3>3, <3>5 DEF Ahead
  <2> QED
    BY <1>1, <2>2, <2>4, <2>5 DEF CounterFollows, Ahead
<1> QED
  BY <1>1, <1>2, <1>3 DEF IdInv, IdsAdvance, Ahead

(* The request gets the counter as its id.                                 *)
LEMMA AskIdStep ==
  ASSUME RInv, IdInv, NEW t \in Threads, NEW sent \in BOOLEAN, Ask(t, sent) PROVE IdInv'
<1> DEFINE n == Len(calls)
<1>1. PICK r : /\ calls' = Append(calls, r) /\ r.id = counter /\ r.epoch = epoch
               /\ pc[t] = "double"
               /\ UNCHANGED <<counter, old, epoch, history>>
  BY DEF Ask, program
<1>2. /\ n \in Nat /\ Len(calls') = n + 1 /\ calls'[n + 1] = r
      /\ \A c \in 1..n : calls'[c] = calls[c]
  <2>1. IsSeq(calls) /\ n \in Nat
    BY SeqLen DEF RInv, CallsInv
  <2> QED
    BY <1>1, <2>1, AppendSeq
<1> HIDE DEF n
<1>3. \A c : c \in 1..(n + 1) <=> c \in 1..n \/ c = n + 1
  BY SMTT(30), <1>2
<1>4. /\ pc' \in [Threads -> Labels] /\ ~Counting(t)'
      /\ \A u \in Threads : u # t => pc'[u] = pc[u]
  <2>1. \E l \in {"wait", "idle"} : pc' = [pc EXCEPT ![t] = l]
    BY DEF Ask, Goto, Leave
  <2> QED
    BY <2>1 DEF IdInv, Labels, Counting
<1>5. \A c \in 1..(n + 1) : calls'[c].epoch \in 0..epoch'
  <2>1. epoch \in 0..epoch
    BY SMTT(30) DEF IdInv
  <2> QED
    BY <1>1, <1>2, <1>3, <2>1 DEF IdInv, n
<1>6. ASSUME CounterFollows, IdsAdvance PROVE CounterFollows' /\ IdsAdvance'
  <2>1. Counting(t) /\ \A u \in Threads : ~Counting(u)'
    BY <1>1, <1>4, <1>6 DEF CounterFollows, Counting
  <2>2. Doubling /\ ~Doubling'
    BY <1>1, <2>1 DEF Doubling, Counting
  <2>3. \A c \in 1..n : Since(c) = n + 1 - c
    BY SMTT(30), <1>2, <2>2 DEF Since, n
  <2>4. \A c \in 1..(n + 1) : Since(c)' = n + 1 - c
    BY SMTT(30), <1>2, <2>2 DEF Since
  <2>5. \A c \in 1..n : calls[c].epoch = epoch /\ n + 1 - c < IdSpace => Ahead(calls[c].id, counter, n + 1 - c)
    BY <1>6, <2>3 DEF CounterFollows, n
  <2>6. Ahead(counter, counter, n + 1 - (n + 1))
    BY SMTT(30), <1>2, IoTCCAssumption DEF Ahead, RInv, CounterInv, Ids
  <2>7. \A c \in 1..(n + 1) : calls'[c].epoch = epoch /\ n + 1 - c < IdSpace
                              => Ahead(calls'[c].id, counter, n + 1 - c)
    BY <1>1, <1>2, <1>3, <2>5, <2>6
  <2>8. CounterFollows'
    BY <1>1, <1>2, <2>1, <2>4, <2>7 DEF CounterFollows, Ahead, Counting
  <2>9. IdsAdvance'
    <3> SUFFICES ASSUME NEW c \in 1..(n + 1), NEW d \in 1..(n + 1), c <= d, d - c < IdSpace,
                        calls'[c].epoch = calls'[d].epoch
                 PROVE  Ahead(calls'[c].id, calls'[d].id, d - c)
      BY <1>2 DEF IdsAdvance, Ahead
    <3>1. CASE d = n + 1
      <4>1. calls'[d].id = counter /\ calls'[c].epoch = epoch
        BY <1>1, <1>2, <3>1
      <4>2. Ahead(calls'[c].id, counter, n + 1 - c)
        BY SMTT(30), <1>2, <2>7, <3>1, <4>1 DEF Ahead
      <4> QED
        BY SMTT(30), <1>2, <3>1, <4>1, <4>2 DEF Ahead
    <3>2. CASE d # n + 1
      <4>1. c \in 1..n /\ d \in 1..n
        BY SMTT(30), <1>2, <3>2
      <4> QED
        BY <1>2, <1>6, <4>1 DEF IdsAdvance, n
    <3> QED
      BY <3>1, <3>2
  <2> QED
    BY <2>8, <2>9
<1> QED
  BY <1>1, <1>2, <1>4, <1>5, <1>6 DEF IdInv

(* The dispatcher and the control center change no id.                     *)
LEMMA OtherIdStep ==
  ASSUME IdInv, UNCHANGED <<counter, old, pc, epoch, history>>, Len(calls') = Len(calls),
         \A c \in 1..Len(calls) : calls'[c].id = calls[c].id /\ calls'[c].epoch = calls[c].epoch
  PROVE  IdInv'
<1>1. \A c : Since(c)' = Since(c)
  BY DEF Since, Doubling
<1>2. CounterFollows => CounterFollows'
  BY <1>1 DEF CounterFollows, Counting, Ahead
<1>3. IdsAdvance => IdsAdvance'
  BY DEF IdsAdvance, Ahead
<1> QED
  BY <1>2, <1>3 DEF IdInv

(* No request is of the new run.                                           *)
LEMMA RestartIdStep == ASSUME RInv, IdInv, Restart PROVE IdInv'
<1>1. /\ epoch' = epoch + 1 /\ pc' = [t \in Threads |-> "idle"]
      /\ UNCHANGED <<calls, history>>
  BY DEF Restart
<1>2. epoch' \in Nat /\ \A c \in 1..Len(calls) : calls[c].epoch \in 0..epoch' /\ calls[c].epoch # epoch'
  BY SMTT(30), <1>1 DEF IdInv
<1>3. CounterFollows'
  BY <1>1, <1>2 DEF CounterFollows, Counting
<1>4. pc' \in [Threads -> Labels]
  BY <1>1 DEF Labels
<1> QED
  BY <1>1, <1>2, <1>3, <1>4 DEF IdInv, IdsAdvance, Ahead

(* Every step keeps the ids apart.                                         *)
LEMMA IdStep == RInv /\ IdInv /\ [Next]_vars => IdInv'
<1> SUFFICES ASSUME RInv, IdInv, [Next]_vars PROVE IdInv'
  OBVIOUS
<1>1. ASSUME NEW t \in Threads, Step(t) \/ Call(t) PROVE IdInv'
  BY <1>1, QuietIds, QuietIdStep, ReadIdStep, WriteIdStep, AskIdStep
<1>2. CASE dispatch_get
  BY <1>2, OtherIdStep DEF dispatch_get, requests, threads, program
<1>3. CASE dispatch_put
  <2>1. UNCHANGED <<counter, old, pc, epoch, history>>
    BY <1>3 DEF dispatch_put, threads, program
  <2>2. disp.req \in 1..Len(calls) /\ CallsInv
    BY <1>3 DEF dispatch_put, RInv, DispInv, Waits
  <2>3. \E x : calls' = [calls EXCEPT ![disp.req] = x] /\ SameCall(calls[disp.req], x)
    <3>1. \E g : calls' = [calls EXCEPT ![disp.req].got = g]
      BY <1>3 DEF dispatch_put
    <3> QED
      BY <2>2, <3>1, GotUpdate
  <2> QED
    BY <2>1, <2>2, <2>3, CallUpdate, OtherIdStep DEF SameCall
<1>4. ASSUME NEW c \in wire, NEW how, Serve(c, how) PROVE IdInv'
  <2>1. UNCHANGED <<counter, old, pc, epoch, history>> /\ calls' = [calls EXCEPT ![c].fate = how]
    BY <1>4 DEF Serve, threads, program
  <2>2. c \in 1..Len(calls) /\ CallsInv
    BY DEF RInv, CallsInv
  <2>3. \E x : calls' = [calls EXCEPT ![c] = x] /\ SameCall(calls[c], x)
    BY <2>1, <2>2, FateUpdate
  <2> QED
    BY <2>1, <2>2, <2>3, CallUpdate, OtherIdStep DEF SameCall
<1>5. CASE Restart
  BY <1>5, RestartIdStep
<1>6. CASE UNCHANGED vars
  BY <1>6, OtherIdStep DEF vars, threads, requests, program
<1> QED
  BY <1>1, <1>2, <1>3, <1>4, <1>5, <1>6 DEF Next

(* Nothing has an id at the start.                                         *)
LEMMA InitIdInv == Init => IdInv
<1> SUFFICES ASSUME Init PROVE IdInv
  OBVIOUS
<1>1. calls = <<>> /\ Len(calls) = 0 /\ \A c : c \notin 1..Len(calls)
  BY SMTT(30) DEF Init
<1>2. pc \in [Threads -> Labels] /\ \A t \in Threads : ~Counting(t)
  BY DEF Init, Labels, Counting
<1>3. epoch \in Nat /\ DOMAIN history = {"raced", "overlapped", "mixed", "kept", "unwritten"}
  BY DEF Init
<1> QED
  BY <1>1, <1>2, <1>3 DEF IdInv, CounterFollows, IdsAdvance, Counting

(* Two requests of one run of the process, less than 2^24 apart, have      *)
(* different transaction ids unless two threads were inside _next_id at    *)
(* once: for any number of threads, through failed sends and restarts.     *)
THEOREM IdsDiffer == Spec => []IdsDifferUnlessRaced
<1>1. RInv /\ IdInv => IdsDifferUnlessRaced
  <2> SUFFICES ASSUME RInv, IdInv, ~history.raced, NEW c \in DOMAIN calls, NEW d \in DOMAIN calls,
                      c < d, d - c < IdSpace, calls[c].epoch = calls[d].epoch
               PROVE  calls[c].id # calls[d].id
    BY DEF IdsDifferUnlessRaced
  <2>1. DOMAIN calls = 1..Len(calls) /\ Len(calls) \in Nat /\ calls[c].id \in Ids
    BY SeqLen DEF RInv, CallsInv
  <2>2. Ahead(calls[c].id, calls[d].id, d - c)
    BY SMTT(30), <2>1 DEF IdInv, IdsAdvance
  <2> QED
    BY SMTT(30), <2>1, <2>2, IoTCCAssumption DEF Ahead, Ids
<1>2. RInv /\ [Next]_vars => RInv'
  BY StepSimulates
<1> QED
  BY <1>1, <1>2, InitRInv, InitIdInv, IdStep, PTL DEF Spec

-----------------------------------------------------------------------------
(* The calls of a thread.                                                  *)

Ops == {"register", "unregister", "relate", "set_properties", "get_properties"}

(* The fields of a file and of a frame.                                    *)
IsFile(f) == f = [name |-> f.name, props |-> f.props, fresh |-> f.fresh]

IsFrame(f) ==
  /\ f = [op |-> f.op, ent |-> f.ent, uuid |-> f.uuid, props |-> f.props, ret |-> f.ret,
          call |-> f.call, seen |-> f.seen, dict |-> f.dict]
  /\ f.op \in Ops /\ f.ent \in Entities /\ IsFile(f.dict) /\ f.seen \in Nat
  /\ f.op # "register" => f.uuid \in Entities
  /\ f.op # "set_properties" => f.props = {}

(* register calls set_properties, and both call get_properties, for the    *)
(* entity they are about.                                                  *)
Above(f, g) ==
  /\ f.ent = g.ent
  /\ \/ f.op = "get_properties" /\ g.op \in {"register", "set_properties"}
     \/ f.op = "set_properties" /\ g.op = "register"

Stack(s) ==
  /\ IsSeq(s)
  /\ \A i \in 1..Len(s) : IsFrame(s[i])
  /\ \A i \in 1..Len(s) : s[i].op = "get_properties" => i < Len(s)
  /\ \A i \in 1..Len(s) : i < Len(s) => Above(s[i], s[i + 1])

OpsAt(l) ==
  CASE l \in {"lock", "write", "fill"} -> {"register", "set_properties"}
    [] l \in {"attributes", "return"} -> {"register"}
    [] l \in {"forget", "remove"} -> {"unregister"}
    [] OTHER -> Ops

StackOK(t) ==
  /\ Stack(frames[t])
  /\ pc[t] = "idle" <=> frames[t] = <<>>
  /\ pc[t] # "idle" => Top(t).op \in OpsAt(pc[t])

StackInv ==
  /\ DOMAIN frames = Threads /\ pc \in [Threads -> Labels]
  /\ plan \in [Threads -> Seq({"register", "unregister", "create_relationship", "set_properties"} \X Entities)]
  /\ \A t \in Threads : StackOK(t)

(* r is s with f pushed, with f in place of its first frame, without it.   *)
Pushed(s, f, r) ==
  IsSeq(r) /\ Len(r) = Len(s) + 1 /\ r[1] = f /\ \A i \in 1..Len(s) : r[i + 1] = s[i]

Topped(s, f, r) ==
  IsSeq(r) /\ Len(r) = Len(s) /\ r[1] = f /\ \A i \in 2..Len(s) : r[i] = s[i]

Popped(s, r) ==
  IsSeq(r) /\ Len(r) = Len(s) - 1 /\ \A i \in 1..Len(r) : r[i] = s[i + 1]

(* A stack is empty, or has a first frame.                                 *)
LEMMA NotEmpty ==
  ASSUME NEW s, IsSeq(s)
  PROVE  Len(s) \in Nat /\ (s = <<>> <=> Len(s) = 0) /\ (s # <<>> => 1 \in 1..Len(s))
<1>1. Len(s) \in Nat
  BY SeqLen
<1>2. s = <<>> <=> Len(s) = 0
  BY EmptySeq DEF IsSeq
<1> QED
  BY SMTT(30), <1>1, <1>2

(* A stack of one frame.                                                   *)
LEMMA OneIs == ASSUME NEW f PROVE IsSeq(<<f>>) /\ Len(<<f>>) = 1 /\ <<f>>[1] = f
<1>1. <<f>> \in Seq({f})
  BY SMTT(30)
<1> QED
  BY <1>1, SeqIsSeq

(* What the calls and the returns of the code make of the frames.          *)
LEMMA PushIs == ASSUME NEW s, IsSeq(s), NEW f PROVE Pushed(s, f, <<f>> \o s)
<1> DEFINE q == <<f>>
<1>1. IsSeq(q) /\ Len(q) = 1 /\ q[1] = f /\ Len(s) \in Nat
  BY OneIs, SeqLen
<1> HIDE DEF q
<1>2. /\ IsSeq(q \o s) /\ Len(q \o s) = Len(q) + Len(s)
      /\ \A i \in 1..Len(q) + Len(s) : (q \o s)[i] = IF i <= Len(q) THEN q[i] ELSE s[i - Len(q)]
  BY <1>1, ConcatSeq
<1>3. Len(q \o s) = Len(s) + 1 /\ (q \o s)[1] = f
  BY SMTT(30), <1>1, <1>2
<1>4. ASSUME NEW i \in 1..Len(s) PROVE (q \o s)[i + 1] = s[i]
  <2>1. i + 1 \in 1..Len(q) + Len(s) /\ ~(i + 1 <= Len(q)) /\ i + 1 - Len(q) = i
    BY SMTT(30), <1>1
  <2>2. PICK j \in 1..Len(q) + Len(s) : j = i + 1
    BY <2>1
  <2>3. (q \o s)[j] = IF j <= Len(q) THEN q[j] ELSE s[j - Len(q)]
    BY <1>2
  <2>4. ~(j <= Len(q)) /\ j - Len(q) = i
    BY SMTT(30), <1>1, <2>2
  <2>5. (q \o s)[j] = s[i]
    BY <2>3, <2>4
  <2> QED
    BY <2>2, <2>5
<1> QED
  BY <1>2, <1>3, <1>4 DEF Pushed, q

(* A return drops the first frame.                                         *)
LEMMA PopIs == ASSUME NEW s, IsSeq(s), s # <<>> PROVE Popped(s, Tail(s))
  BY TailSeq DEF Popped

(* An assignment to a local variable changes the first frame.              *)
LEMMA TopIs ==
  ASSUME NEW s, IsSeq(s), s # <<>>, NEW f PROVE Topped(s, f, [s EXCEPT ![1] = f])
<1>1. /\ Len(s) \in Nat /\ DOMAIN s = 1..Len(s) /\ s = [i \in 1..Len(s) |-> s[i]]
      /\ 1 \in 1..Len(s)
  BY SeqLen, NotEmpty
<1> DEFINE r == [s EXCEPT ![1] = f]
<1>2. DOMAIN r = 1..Len(s) /\ r = [i \in 1..Len(s) |-> r[i]] /\ r[1] = f
  BY <1>1
<1>3. \A i \in 2..Len(s) : i \in 1..Len(s) /\ i # 1
  BY SMTT(30), <1>1
<1>4. \A i \in 2..Len(s) : r[i] = s[i]
  BY <1>1, <1>3
<1> HIDE DEF r
<1>5. IsSeq(r) /\ Len(r) = Len(s)
  BY <1>1, <1>2, FunIsSeq
<1> QED
  BY <1>2, <1>4, <1>5 DEF Topped, r

(* What _store_reg_entity_attributes makes of the frames.                  *)
LEMMA TailTopIs ==
  ASSUME NEW s, IsSeq(s), s # <<>>, NEW f PROVE Topped(s, f, <<f>> \o Tail(s))
<1>1. Popped(s, Tail(s)) /\ Len(s) \in Nat
  BY PopIs, SeqLen
<1>2. Pushed(Tail(s), f, <<f>> \o Tail(s))
  BY <1>1, PushIs DEF Popped
<1> DEFINE p == Tail(s)
           r == <<f>> \o p
<1>3. /\ IsSeq(r) /\ Len(r) = Len(p) + 1 /\ r[1] = f /\ \A i \in 1..Len(p) : r[i + 1] = p[i]
      /\ Len(p) = Len(s) - 1 /\ \A i \in 1..Len(p) : p[i] = s[i + 1]
  BY <1>1, <1>2 DEF Pushed, Popped
<1> HIDE DEF r, p
<1>4. Len(r) = Len(s)
  BY SMTT(30), <1>1, <1>3
<1>5. ASSUME NEW i \in 2..Len(s) PROVE r[i] = s[i]
  <2>1. PICK j \in 1..Len(p) : i = j + 1
    <3>1. i - 1 \in 1..Len(p) /\ i = (i - 1) + 1
      BY SMTT(30), <1>1, <1>3
    <3> QED BY <3>1
  <2> QED
    BY <1>3, <2>1
<1> QED
  BY <1>3, <1>4, <1>5 DEF Topped, r, p

(* What these do to a stack of calls.                                      *)
LEMMA PushedStack ==
  ASSUME NEW s, NEW f, NEW r, Stack(s), Pushed(s, f, r), IsFrame(f), s # <<>>, Above(f, s[1])
  PROVE  Stack(r) /\ r # <<>> /\ r[1] = f /\ r[2] = s[1]
<1>1. Len(s) \in Nat /\ 1 \in 1..Len(s) /\ IsSeq(r) /\ Len(r) = Len(s) + 1 /\ r[1] = f
  BY NotEmpty DEF Stack, Pushed
<1>2. r # <<>> /\ r[2] = s[1]
  <2>1. r[1 + 1] = s[1] /\ Len(r) # 0
    BY SMTT(30), <1>1 DEF Pushed
  <2> QED
    BY SMTT(30), <1>1, <2>1, NotEmpty
<1>3. ASSUME NEW i \in 1..Len(r)
      PROVE  /\ IsFrame(r[i]) /\ (r[i].op = "get_properties" => i < Len(r))
             /\ i < Len(r) => Above(r[i], r[i + 1])
  <2>1. CASE i = 1
    BY SMTT(30), <1>1, <1>2, <2>1
  <2>2. CASE i # 1
    <3>1. PICK j \in 1..Len(s) : i = j + 1
      <4>1. i - 1 \in 1..Len(s) /\ i = (i - 1) + 1
        BY SMTT(30), <1>1, <2>2
      <4> QED BY <4>1
    <3>2. r[i] = s[j] /\ (i < Len(r) <=> j < Len(s)) /\ (j < Len(s) => j + 1 \in 1..Len(s))
      BY SMTT(30), <1>1, <3>1 DEF Pushed
    <3>3. j < Len(s) => r[i + 1] = s[j + 1]
      BY <3>1, <3>2 DEF Pushed
    <3> QED
      BY <3>2, <3>3 DEF Stack
  <2> QED
    BY <2>1, <2>2
<1> QED
  BY <1>1, <1>2, <1>3 DEF Stack

(* A change of the first frame that keeps its method and entity.           *)
LEMMA ToppedStack ==
  ASSUME NEW s, NEW f, NEW r, Stack(s), Topped(s, f, r), IsFrame(f), s # <<>>,
         f.op = s[1].op, f.ent = s[1].ent
  PROVE  Stack(r) /\ r # <<>> /\ r[1] = f /\ (f.op = "get_properties" => r[2] = s[2])
<1>1. Len(s) \in Nat /\ 1 \in 1..Len(s) /\ IsSeq(r) /\ Len(r) = Len(s) /\ r[1] = f
  BY NotEmpty DEF Stack, Topped
<1>2. r # <<>>
  BY SMTT(30), <1>1, NotEmpty
<1>3. ASSUME NEW i \in 1..Len(r)
      PROVE  /\ IsFrame(r[i]) /\ (r[i].op = "get_properties" => i < Len(r))
             /\ i < Len(r) => Above(r[i], r[i + 1])
  <2>1. i \in 1..Len(s) /\ (i < Len(s) => i + 1 \in 2..Len(s))
    BY SMTT(30), <1>1
  <2>2. i < Len(s) => r[i + 1] = s[i + 1]
    BY <2>1 DEF Topped
  <2>3. CASE i = 1
    BY <1>1, <2>1, <2>2, <2>3 DEF Stack, Above
  <2>4. CASE i # 1
    <3>1. r[i] = s[i]
      BY SMTT(30), <1>1, <2>1, <2>4 DEF Topped
    <3> QED
      BY <1>1, <2>1, <2>2, <3>1 DEF Stack
  <2> QED
    BY <2>3, <2>4
<1>4. f.op = "get_properties" => r[2] = s[2]
  <2>1. f.op = "get_properties" => 1 < Len(s)
    BY <1>1 DEF Stack
  <2>2. 1 < Len(s) => 2 \in 2..Len(s)
    BY SMTT(30), <1>1
  <2> QED
    BY <2>1, <2>2 DEF Topped
<1> QED
  BY <1>1, <1>2, <1>3, <1>4 DEF Stack

(* get_properties is never the outermost call.                             *)
LEMMA PoppedStack ==
  ASSUME NEW s, NEW r, Stack(s), Popped(s, r), s # <<>>, s[1].op = "get_properties"
  PROVE  /\ Stack(r) /\ r # <<>> /\ r[1] = s[2]
         /\ Above(s[1], s[2]) /\ IsFrame(s[2])
<1>1. /\ Len(s) \in Nat /\ 1 \in 1..Len(s) /\ IsSeq(r) /\ Len(r) = Len(s) - 1 /\ 1 < Len(s)
  BY NotEmpty DEF Stack, Popped
<1>2. r # <<>> /\ r[1] = s[2]
  <2>1. 1 \in 1..Len(r)
    BY SMTT(30), <1>1
  <2>2. r[1] = s[1 + 1] /\ Len(r) # 0
    BY SMTT(30), <1>1, <2>1 DEF Popped
  <2> QED
    BY SMTT(30), <1>1, <2>2, NotEmpty
<1>3. ASSUME NEW i \in 1..Len(r)
      PROVE  /\ IsFrame(r[i]) /\ (r[i].op = "get_properties" => i < Len(r))
             /\ i < Len(r) => Above(r[i], r[i + 1])
  <2>1. /\ i + 1 \in 1..Len(s) /\ (i + 1 < Len(s) <=> i < Len(r))
        /\ (i < Len(r) => i + 1 \in 1..Len(r))
    BY SMTT(30), <1>1
  <2>2. r[i] = s[i + 1] /\ (i < Len(r) => r[i + 1] = s[(i + 1) + 1])
    BY <2>1 DEF Popped
  <2>3. PICK j \in 1..Len(s) : j = i + 1
    BY <2>1
  <2> QED
    BY <2>1, <2>2, <2>3 DEF Stack
<1>4. Above(s[1], s[2]) /\ IsFrame(s[2])
  <2>1. 1 + 1 = 2 /\ 2 \in 1..Len(s)
    BY SMTT(30), <1>1
  <2> QED
    BY <1>1, <2>1 DEF Stack
<1> QED
  BY <1>1, <1>2, <1>3, <1>4 DEF Stack

(* The program calls a method of the API.                                  *)
LEMMA OneStack ==
  ASSUME NEW f, IsFrame(f), f.op # "get_properties" PROVE Stack(<<f>>) /\ <<f>> # <<>>
<1>1. IsSeq(<<f>>) /\ Len(<<f>>) = 1 /\ <<f>>[1] = f
  BY OneIs
<1>2. \A i \in 1..1 : i = 1 /\ ~(i < 1)
  BY SMTT(30)
<1> QED
  BY SMTT(30), <1>1, <1>2 DEF Stack

(* No method is in progress.                                               *)
LEMMA NoStack == Stack(<<>>)
<1>1. IsSeq(<<>>) /\ Len(<<>>) = 0
  BY EmptySeq, SeqIsSeq
<1>2. \A i : i \notin 1..0
  BY SMTT(30)
<1> QED
  BY <1>1, <1>2 DEF Stack

-----------------------------------------------------------------------------
(* Where a thread is in its call.  Base(t) is the call that stores, also   *)
(* while it waits for get_properties.                                      *)
Getting(t) == pc[t] # "idle" /\ Top(t).op = "get_properties"
Base(t) == IF Getting(t) THEN frames[t][2] ELSE Top(t)

Found(t) == pc[t] \in {"lock", "attributes", "write", "fill", "return"} \/ Getting(t)
Read(t) == pc[t] \in {"write", "fill"} \/ Getting(t)
Holding(t) == pc[t] = "attributes" \/ Read(t)

UuidKnown(t) ==
  /\ Found(t) /\ Base(t).op = "register" => reg_entity_id \in Entities
  /\ Read(t) => Base(t).uuid \in Entities

RecordTypes ==
  /\ DOMAIN files = Entities /\ \A u \in Entities : IsFile(files[u])
  /\ reg \in [Entities -> Entities \cup {None}]
  /\ \A c \in 1..Len(calls) : calls[c].ent \in Entities
  /\ DOMAIN history = {"raced", "overlapped", "mixed", "kept", "unwritten"}

TInv == StackInv /\ RecordTypes /\ \A t \in Threads : UuidKnown(t)

(* What the steps of a thread do to its frames and to the records.         *)
Recs == <<files, reg, reg_entity_id>>

SameHistory ==
  /\ DOMAIN history' = DOMAIN history
  /\ history'.mixed = history.mixed /\ history'.kept = history.kept
  /\ history'.unwritten = history.unwritten /\ history'.overlapped = history.overlapped

Moved(t, l) ==
  /\ DOMAIN frames' = Threads /\ \A u \in Threads : u # t => frames'[u] = frames[u]
  /\ l \in Labels /\ pc' = [pc EXCEPT ![t] = l]

SameFrame(f, g) ==
  /\ IsFrame(g) /\ g.op = f.op /\ g.ent = f.ent /\ g.uuid = f.uuid /\ g.props = f.props
  /\ g.ret = f.ret /\ g.dict = f.dict

(* It returns or raises.                                                   *)
Gone(t) ==
  /\ Moved(t, "idle") /\ frames'[t] = <<>>
  /\ file_ops_lock' = IF file_ops_lock = t THEN None ELSE file_ops_lock
  /\ UNCHANGED Recs /\ SameHistory

(* It goes on with its request, or with the removal of the entity.         *)
Goes(t) ==
  \E f, l :
    /\ pc[t] \in {"next_id", "incr", "double", "wait", "forget"}
    /\ l \in {"incr", "double", "wait", "forget", "remove"} /\ Top(t).op \in OpsAt(l)
    /\ Moved(t, l) /\ Topped(frames[t], f, frames'[t]) /\ SameFrame(Top(t), f)
    /\ UNCHANGED <<Recs, file_ops_lock>> /\ SameHistory

(* A method of the API is called.                                          *)
Starts(t) ==
  \E f :
    /\ pc[t] = "idle" /\ Moved(t, "next_id") /\ frames'[t] = <<f>>
    /\ IsFrame(f) /\ f.op # "get_properties" /\ (f.op # "register" => f.uuid = reg[f.ent])
    /\ UNCHANGED <<Recs, file_ops_lock>>
    /\ DOMAIN history' = DOMAIN history
    /\ history'.mixed = history.mixed /\ history'.kept = history.kept
    /\ history'.unwritten = history.unwritten
    /\ history'.overlapped =
         (history.overlapped \/ (f.op = "register" /\ \E u \in Threads \ {t} : Registering(u)))

(* The answer that it waits for is there.                                  *)
Answers(t) ==
  /\ pc[t] = "wait" /\ Top(t).op \in {"register", "set_properties"}
  /\ Moved(t, "lock") /\ frames'[t] = frames[t]
  /\ UNCHANGED <<files, reg, file_ops_lock>> /\ SameHistory
  /\ IF Top(t).op = "register" THEN reg_entity_id' = Top(t).ent ELSE UNCHANGED reg_entity_id

(* The rest of the actions, unless they raise.                             *)
Stores(t) ==
  \/ PropertiesGot(t) \/ write_entity_file(t) \/ fill_entity_file(t) \/ MakeRegisteredEntity(t)
  \/ store_reg_entity_details(t) /\ edge # "gone"
  \/ store_reg_entity_attributes(t) /\ files[UuidOf(t)] # Broken

(* A thread that is in a call has a first frame.                           *)
LEMMA HasTop ==
  ASSUME TInv, NEW t \in Threads, pc[t] # "idle"
  PROVE  /\ Stack(frames[t]) /\ frames[t] # <<>> /\ IsSeq(frames[t])
         /\ IsFrame(Top(t)) /\ Top(t).op \in OpsAt(pc[t]) /\ Top(t).op \in Ops
         /\ Topped(frames[t], Top(t), frames[t])
<1>1. Stack(frames[t]) /\ frames[t] # <<>> /\ Top(t).op \in OpsAt(pc[t]) /\ IsSeq(frames[t])
  BY DEF TInv, StackInv, StackOK, Stack
<1>2. IsFrame(Top(t))
  BY <1>1, NotEmpty DEF Stack, Top
<1>3. Topped(frames[t], Top(t), frames[t])
  <2>1. \A i \in 2..Len(frames[t]) : frames[t][i] = frames[t][i]
    OBVIOUS
  <2> QED
    BY <1>1 DEF Topped, Top
<1> QED
  BY <1>1, <1>2, <1>3 DEF IsFrame

(* Leave ends the call.                                                    *)
LEMMA LeaveIsGone ==
  ASSUME TInv, NEW t \in Threads, Leave(t), UNCHANGED Recs, SameHistory PROVE Gone(t)
<1>1. /\ frames' = [frames EXCEPT ![t] = <<>>] /\ pc' = [pc EXCEPT ![t] = "idle"]
      /\ file_ops_lock' = IF file_ops_lock = t THEN None ELSE file_ops_lock
  BY DEF Leave, Goto
<1>2. Moved(t, "idle") /\ frames'[t] = <<>>
  BY <1>1 DEF TInv, StackInv, Moved, Labels
<1> QED
  BY <1>1, <1>2 DEF Gone

(* Frames stay as they are.                                                *)
LEMMA StayIsGoes ==
  ASSUME TInv, NEW t \in Threads, UNCHANGED <<frames, Recs, file_ops_lock>>, SameHistory,
         pc[t] \in {"next_id", "incr", "double", "wait", "forget"},
         NEW l \in {"incr", "double", "wait", "forget", "remove"}, Top(t).op \in OpsAt(l),
         pc' = [pc EXCEPT ![t] = l]
  PROVE  Goes(t)
<1>1. IsFrame(Top(t)) /\ Topped(frames[t], Top(t), frames[t])
  BY HasTop
<1>2. Moved(t, l) /\ Topped(frames[t], Top(t), frames'[t]) /\ SameFrame(Top(t), Top(t))
  BY <1>1 DEF TInv, StackInv, Moved, Labels, SameFrame
<1>3. UNCHANGED <<Recs, file_ops_lock>>
  BY DEF Recs
<1> QED
  BY SMTT(30), <1>2, <1>3 DEF Goes

(* Each step of a thread is one of these.                                  *)
LEMMA SendEffects ==
  ASSUME TInv, NEW t \in Threads,
         next_id_read(t) \/ next_id_write(t) \/ Timeout(t) \/ \E sent \in BOOLEAN : Ask(t, sent)
  PROVE  Gone(t) \/ Goes(t)
<1>1. CASE next_id_read(t) \/ next_id_write(t)
  <2>1. /\ pc[t] \in {"next_id", "incr"} /\ UNCHANGED <<frames, Recs, file_ops_lock>> /\ SameHistory
        /\ \E l \in {"incr", "double"} : pc' = [pc EXCEPT ![t] = l]
    BY <1>1 DEF next_id_read, next_id_write, Goto, Recs, records, SameHistory, TInv, RecordTypes
  <2>2. Top(t).op \in OpsAt("incr") /\ Top(t).op \in OpsAt("double")
    BY <2>1, HasTop DEF OpsAt
  <2> QED
    BY <2>1, <2>2, StayIsGoes
<1>2. CASE Timeout(t)
  BY <1>2, LeaveIsGone DEF Timeout, Recs, records, SameHistory
<1>3. ASSUME NEW sent \in BOOLEAN, Ask(t, sent) PROVE Gone(t) \/ Goes(t)
  <2>1. pc[t] = "double" /\ UNCHANGED Recs /\ SameHistory
    BY <1>3 DEF Ask, Recs, records, SameHistory
  <2>2. CASE ~sent
    BY <1>3, <2>1, <2>2, LeaveIsGone DEF Ask
  <2>3. CASE sent
    <3> DEFINE n == Len(calls) + 1
               f == [Top(t) EXCEPT !.call = n]
    <3>1. /\ frames' = [frames EXCEPT ![t][1].call = n] /\ pc' = [pc EXCEPT ![t] = "wait"]
          /\ UNCHANGED file_ops_lock
      BY <1>3, <2>3 DEF Ask, Goto
    <3> HIDE DEF n
    <3>2. frames'[t] = [frames[t] EXCEPT ![1] = f] /\ \A u \in Threads : u # t => frames'[u] = frames[u]
      BY <3>1 DEF TInv, StackInv, Top
    <3>3. SameFrame(Top(t), f)
      BY SMTT(30), <2>1, HasTop DEF IsFrame, SameFrame
    <3> HIDE DEF f
    <3>4. Topped(frames[t], f, frames'[t])
      <4>1. IsSeq(frames[t]) /\ frames[t] # <<>>
        BY <2>1, HasTop
      <4>2. Topped(frames[t], f, [frames[t] EXCEPT ![1] = f])
        BY <4>1, TopIs
      <4> QED
        BY <3>2, <4>2
    <3>5. Moved(t, "wait")
      BY <3>1, <3>2 DEF Moved, TInv, StackInv, Labels
    <3>6. Top(t).op \in OpsAt("wait")
      BY <2>1, HasTop DEF OpsAt
    <3>7. UNCHANGED <<Recs, file_ops_lock>>
      BY <2>1, <3>1
    <3> QED
      BY <2>1, <3>3, <3>4, <3>5, <3>6, <3>7 DEF Goes
  <2> QED
    BY <2>2, <2>3
<1> QED
  BY <1>1, <1>2, <1>3

(* What a waiting thread does with an answer.                              *)
LEMMA AnswerEffects ==
  ASSUME TInv, NEW t \in Threads,
         FoundResource(t) \/ WaitAgain(t) \/ PropertiesSet(t) \/ Unregistered(t) \/ Related(t) \/ Refused(t)
  PROVE  Gone(t) \/ Goes(t) \/ Answers(t)
<1>1. pc[t] = "wait" /\ UNCHANGED <<files, reg>> /\ SameHistory
  BY DEF FoundResource, WaitAgain, PropertiesSet, Unregistered, Related, Refused, Answered, records,
     SameHistory
<1>2. CASE FoundResource(t)
  <2>1. /\ Top(t).op = "register" /\ reg_entity_id' = Top(t).ent
        /\ pc' = [pc EXCEPT ![t] = "lock"] /\ UNCHANGED <<frames, file_ops_lock>>
    BY <1>2 DEF FoundResource, Answered, AboutMine, Goto
  <2>2. Moved(t, "lock")
    BY <2>1 DEF Moved, TInv, StackInv, Labels
  <2> QED
    BY <1>1, <2>1, <2>2 DEF Answers
<1>3. CASE PropertiesSet(t)
  <2>1. /\ Top(t).op = "set_properties" /\ UNCHANGED reg_entity_id
        /\ pc' = [pc EXCEPT ![t] = "lock"] /\ UNCHANGED <<frames, file_ops_lock>>
    BY <1>3 DEF PropertiesSet, Answered, Goto
  <2>2. Moved(t, "lock")
    BY <2>1 DEF Moved, TInv, StackInv, Labels
  <2> QED
    BY <1>1, <2>1, <2>2 DEF Answers
<1>4. CASE Unregistered(t)
  <2>1. /\ Top(t).op = "unregister" /\ UNCHANGED <<frames, Recs, file_ops_lock>>
        /\ \E l \in {"forget", "remove"} : pc' = [pc EXCEPT ![t] = l]
    BY <1>1, <1>4 DEF Unregistered, Answered, Goto, Recs
  <2>2. Top(t).op \in OpsAt("forget") /\ Top(t).op \in OpsAt("remove")
    BY <2>1 DEF OpsAt
  <2> QED
    BY <1>1, <2>1, <2>2, StayIsGoes
<1>5. CASE WaitAgain(t)
  <2> DEFINE n == Top(t).seen + 1
             f == [Top(t) EXCEPT !.seen = n]
  <2>1. frames' = [frames EXCEPT ![t][1].seen = n] /\ UNCHANGED <<pc, Recs, file_ops_lock>>
    BY <1>1, <1>5 DEF WaitAgain, Top, Recs
  <2>8. n \in Nat
    BY SMTT(30), <1>1, HasTop DEF IsFrame
  <2> HIDE DEF n
  <2>2. frames'[t] = [frames[t] EXCEPT ![1] = f] /\ \A u \in Threads : u # t => frames'[u] = frames[u]
    BY <2>1 DEF TInv, StackInv, Top
  <2>3. SameFrame(Top(t), f)
    BY SMTT(30), <1>1, <2>8, HasTop DEF IsFrame, SameFrame
  <2> HIDE DEF f
  <2>4. Topped(frames[t], f, frames'[t])
    <3>1. IsSeq(frames[t]) /\ frames[t] # <<>>
      BY <1>1, HasTop
    <3>2. Topped(frames[t], f, [frames[t] EXCEPT ![1] = f])
      BY <3>1, TopIs
    <3> QED
      BY <2>2, <3>2
  <2>5. Moved(t, "wait")
    BY <1>1, <2>1, <2>2 DEF Moved, TInv, StackInv, Labels
  <2>6. Top(t).op \in OpsAt("wait")
    BY <1>1, HasTop DEF OpsAt
  <2>7. UNCHANGED <<Recs, file_ops_lock>>
    BY <2>1
  <2> QED
    BY <1>1, <2>3, <2>4, <2>5, <2>6, <2>7 DEF Goes
<1>6. CASE Related(t) \/ Refused(t)
  BY <1>1, <1>6, LeaveIsGone DEF Related, Refused, Recs
<1> QED
  BY <1>2, <1>3, <1>4, <1>5, <1>6

(* unregister removes the record of the entity.                            *)
LEMMA RemoveEffects ==
  ASSUME TInv, NEW t \in Threads, remove_reg_entity_details(t) \/ store_device_removed(t)
  PROVE  Gone(t) \/ Goes(t)
<1>1. UNCHANGED Recs /\ SameHistory
  BY DEF remove_reg_entity_details, store_device_removed, Recs, SameHistory
<1>2. CASE Leave(t)
  BY <1>1, <1>2, LeaveIsGone
<1>3. CASE /\ pc[t] = "forget" /\ pc' = [pc EXCEPT ![t] = "remove"]
           /\ UNCHANGED <<frames, file_ops_lock>>
  <2>1. Top(t).op \in OpsAt("remove")
    BY <1>3, HasTop DEF OpsAt
  <2>2. UNCHANGED <<frames, Recs, file_ops_lock>>
    BY <1>1, <1>3
  <2> QED
    BY <1>1, <1>3, <2>1, <2>2, StayIsGoes
<1> QED
  BY <1>2, <1>3 DEF remove_reg_entity_details, store_device_removed, Goto

(* The calls that the program makes are about entities, and use what       *)
(* register has returned for them.                                         *)
LEMMA CallEffects ==
  ASSUME TInv, NEW t \in Threads, Call(t)
  PROVE  Starts(t) /\ plan' \in [Threads -> Seq({"register", "unregister", "create_relationship", "set_properties"} \X Entities)]
<1> DEFINE Calls == {"register", "unregister", "create_relationship", "set_properties"} \X Entities
           e == plan[t][1][2]
<1>1. plan[t] \in Seq(Calls) /\ plan[t] # <<>>
  BY DEF Call, TInv, StackInv
<1>2. e \in Entities /\ Tail(plan[t]) \in Seq(Calls)
  <2> HIDE DEF Calls, e
  <2>1. plan[t][1] \in Calls /\ Tail(plan[t]) \in Seq(Calls)
    BY SMTT(30), <1>1
  <2> QED
    BY <2>1 DEF Calls, e
<1> HIDE DEF e
<1>3. reg[e] \in Entities \cup {None}
  BY <1>2 DEF TInv, RecordTypes
<1>4. PICK op, u, ps :
        /\ op \in Ops /\ Start(t, Frame(op, e, u, ps, FALSE)) /\ op # "get_properties"
        /\ op # "register" => u = reg[e] /\ u # None
        /\ op # "set_properties" => ps = {}
  BY DEF Call, register, unregister, create_relationship, publish_unit, set_properties, Ops, e
<1> DEFINE f == Frame(op, e, u, ps, FALSE)
<1>5. /\ f.op = op /\ f.ent = e /\ f.uuid = u /\ f.props = ps /\ f.dict = NoFile /\ f.seen = 0
      /\ f = [op |-> f.op, ent |-> f.ent, uuid |-> f.uuid, props |-> f.props, ret |-> f.ret,
              call |-> f.call, seen |-> f.seen, dict |-> f.dict]
  BY DEF Frame
<1>6. IsFile(NoFile)
  BY DEF IsFile, NoFile
<1>0. 0 \in Nat
  BY SMTT(30)
<1>7. Start(t, f)
  BY <1>4
<1> HIDE DEF f
<1>8. IsFrame(f) /\ f.op # "get_properties" /\ (f.op # "register" => f.uuid = reg[f.ent])
  BY <1>0, <1>2, <1>3, <1>4, <1>5, <1>6 DEF IsFrame
<1>9. /\ pc[t] = "idle" /\ plan' = [plan EXCEPT ![t] = Tail(@)]
      /\ frames' = [frames EXCEPT ![t] = <<f>> \o @] /\ pc' = [pc EXCEPT ![t] = "next_id"]
      /\ UNCHANGED <<Recs, file_ops_lock>>
      /\ history' = [history EXCEPT !.overlapped =
           @ \/ (f.op = "register" /\ \E v \in Threads \ {t} : Registering(v))]
  BY <1>7 DEF Start, Push, Goto, Recs, records
<1>10. frames[t] = <<>>
  BY <1>9 DEF TInv, StackInv, StackOK
<1>11. <<f>> \o <<>> = <<f>>
  BY ConcatEmptySeq, OneIs DEF IsSeq
<1>12. Moved(t, "next_id") /\ frames'[t] = <<f>>
  BY <1>9, <1>10, <1>11 DEF TInv, StackInv, Moved, Labels
<1>13. /\ DOMAIN history' = DOMAIN history
       /\ history'.mixed = history.mixed /\ history'.kept = history.kept
       /\ history'.unwritten = history.unwritten
       /\ history'.overlapped =
            (history.overlapped \/ (f.op = "register" /\ \E v \in Threads \ {t} : Registering(v)))
  BY <1>9 DEF TInv, RecordTypes
<1>14. Starts(t)
  BY SMTT(30), <1>8, <1>9, <1>12, <1>13 DEF Starts
<1>15. plan' \in [Threads -> Seq(Calls)]
  <2> HIDE DEF Calls
  <2>1. plan \in [Threads -> Seq(Calls)]
    BY DEF TInv, StackInv, Calls
  <2> QED
    BY <1>2, <1>9, <2>1
<1> QED
  BY <1>14, <1>15

(* All steps of a thread.                                                  *)
LEMMA Effects ==
  ASSUME TInv, NEW t \in Threads, Step(t) \/ Call(t)
  PROVE  Gone(t) \/ Goes(t) \/ Starts(t) \/ Answers(t) \/ Stores(t)
<1>1. CASE store_reg_entity_details(t) /\ edge = "gone"
  <2>1. Leave(t) /\ UNCHANGED Recs /\ SameHistory
    BY <1>1 DEF store_reg_entity_details, Recs, SameHistory
  <2> QED
    BY <2>1, LeaveIsGone
<1>2. CASE store_reg_entity_attributes(t) /\ files[UuidOf(t)] = Broken
  <2>1. Leave(t) /\ UNCHANGED Recs /\ SameHistory
    BY <1>2 DEF store_reg_entity_attributes, Recs, records, SameHistory
  <2> QED
    BY <2>1, LeaveIsGone
<1>3. CASE next_id_read(t) \/ next_id_write(t) \/ Timeout(t) \/ \E sent \in BOOLEAN : Ask(t, sent)
  BY <1>3, SendEffects
<1>4. CASE FoundResource(t) \/ WaitAgain(t) \/ PropertiesSet(t) \/ Unregistered(t) \/ Related(t) \/ Refused(t)
  BY <1>4, AnswerEffects
<1>5. CASE remove_reg_entity_details(t) \/ store_device_removed(t)
  BY <1>5, RemoveEffects
<1>6. CASE Call(t)
  BY <1>6, CallEffects
<1> QED
  BY <1>1, <1>2, <1>3, <1>4, <1>5, <1>6 DEF Step, Stores

(* get_properties returns to the call that stores.                         *)
Gets(t) ==
  \E g, ps :
    /\ pc[t] = "wait" /\ Getting(t) /\ Moved(t, "write") /\ UNCHANGED <<Recs, file_ops_lock, history>>
    /\ \E p : Popped(frames[t], p) /\ Topped(p, g, frames'[t])
    /\ IsFrame(g) /\ g.op = frames[t][2].op /\ g.ent = frames[t][2].ent /\ g.uuid = frames[t][2].uuid
    /\ g.props = frames[t][2].props /\ g.dict.name = frames[t][2].dict.name
    /\ g.dict.props = frames[t][2].dict.props \cup ps
    /\ ps = IF AboutMine(t) THEN Answer(t).props ELSE {}

(* The action for the answer of get_properties does so.                    *)
LEMMA GotEffects == ASSUME TInv, NEW t \in Threads, PropertiesGot(t) PROVE Gets(t)
<1> DEFINE s == frames[t]
           p == Tail(s)
           ps == IF AboutMine(t) THEN Answer(t).props ELSE {}
           g == [p[1] EXCEPT !.dict.props = @ \cup ps]
<1>1. /\ pc[t] = "wait" /\ Top(t).op = "get_properties"
      /\ frames' = [frames EXCEPT ![t] = [Tail(frames[t]) EXCEPT ![1].dict.props = @ \cup ps]]
      /\ pc' = [pc EXCEPT ![t] = "write"] /\ UNCHANGED <<Recs, file_ops_lock, history>>
  BY DEF PropertiesGot, Answered, Goto, Recs, records
<1>2. Getting(t) /\ Stack(s) /\ s # <<>> /\ IsSeq(s) /\ s[1].op = "get_properties"
  BY <1>1, HasTop DEF Getting, Top
<1>3. Popped(s, p)
  BY <1>2, PopIs
<1>4. Stack(p) /\ p # <<>> /\ p[1] = s[2] /\ IsFrame(s[2])
  BY <1>2, <1>3, PoppedStack
<1> HIDE DEF ps
<1>5. frames'[t] = [p EXCEPT ![1] = g] /\ \A u \in Threads : u # t => frames'[u] = frames[u]
  <2>1. PICK x : x = [Tail(frames[t]) EXCEPT ![1].dict.props = @ \cup ps]
    OBVIOUS
  <2>2. frames' = [frames EXCEPT ![t] = x]
    BY <1>1, <2>1
  <2>3. frames'[t] = x /\ \A u \in Threads : u # t => frames'[u] = frames[u]
    BY <2>2 DEF TInv, StackInv
  <2>4. x = [p EXCEPT ![1].dict.props = @ \cup ps]
    BY <2>1
  <2> HIDE DEF p
  <2> QED
    BY <2>3, <2>4
<1> HIDE DEF p
<1>6. /\ IsFrame(g) /\ g.op = s[2].op /\ g.ent = s[2].ent /\ g.uuid = s[2].uuid
      /\ g.props = s[2].props /\ g.dict.name = s[2].dict.name /\ g.dict.props = s[2].dict.props \cup ps
  <2>1. PICK h : h = s[2]
    OBVIOUS
  <2>2. PICK d : d = [h.dict EXCEPT !.props = @ \cup ps]
    OBVIOUS
  <2>3. g = [h EXCEPT !.dict = d]
    BY <1>4, <2>1, <2>2
  <2>4. IsFile(h.dict) /\ IsFrame(h)
    BY <1>4, <2>1 DEF IsFrame
  <2>5. IsFile(d) /\ d.name = h.dict.name /\ d.props = h.dict.props \cup ps
    BY SMTT(30), <2>2, <2>4 DEF IsFile
  <2>6. /\ IsFrame(g) /\ g.op = h.op /\ g.ent = h.ent /\ g.uuid = h.uuid /\ g.props = h.props /\ g.dict = d
    <3> HIDE DEF g
    <3> QED
      BY SMTT(30), <2>3, <2>4, <2>5 DEF IsFrame
  <2> QED
    BY <2>1, <2>5, <2>6
<1> HIDE DEF g
<1>7. Topped(p, g, frames'[t])
  <2>1. IsSeq(p)
    BY <1>4 DEF Stack
  <2>2. Topped(p, g, [p EXCEPT ![1] = g])
    BY <1>4, <2>1, TopIs
  <2> QED
    BY <1>5, <2>2
<1>8. Moved(t, "write")
  BY <1>1, <1>5 DEF Moved, TInv, StackInv, Labels
<1>9. \E r : Popped(s, r) /\ Topped(r, g, frames'[t])
  BY <1>3, <1>7
<1> HIDE DEF s
<1> QED
  BY <1>1, <1>2, <1>6, <1>8, <1>9 DEF Gets, s, ps

(* The file is opened for writing, and written.                            *)
Writes(t) ==
  /\ pc[t] = "write" /\ Moved(t, "fill") /\ UNCHANGED <<frames, reg, reg_entity_id, file_ops_lock, history>>
  /\ files' = [files EXCEPT ![Top(t).uuid] = Broken]

Kept(t) == [ent |-> Top(t).ent, uuid |-> Top(t).uuid, props |-> Top(t).props]

(* The file is written, or an error leaves it as it is.                    *)
Filled(t) ==
  /\ files' = [files EXCEPT ![Top(t).uuid] = Merged(Top(t))]
  /\ history'.unwritten = history.unwritten /\ history'.kept \subseteq history.kept \cup {Kept(t)}

Unfilled(t) ==
  /\ UNCHANGED files
  /\ history'.unwritten = history.unwritten \cup {Top(t).uuid} /\ history'.kept = history.kept

Fills(t) ==
  /\ pc[t] \in {"write", "fill"} /\ UNCHANGED reg_entity_id
  /\ DOMAIN history' = DOMAIN history
  /\ history'.mixed = history.mixed /\ history'.overlapped = history.overlapped
  /\ Filled(t) \/ Unfilled(t)
  /\ \/ /\ Top(t).op = "register" /\ Moved(t, "return") /\ frames'[t] = frames[t]
        /\ file_ops_lock' = None /\ UNCHANGED reg
     \/ /\ Top(t).op = "set_properties" /\ Moved(t, "idle") /\ frames'[t] = <<>>
        /\ file_ops_lock' = IF file_ops_lock = t THEN None ELSE file_ops_lock
        /\ reg' = IF Top(t).ret THEN [reg EXCEPT ![Top(t).ent] = Top(t).uuid] ELSE reg

(* After the write, or its error, register goes on and set_properties      *)
(* returns.                                                                *)
LEMMA DoneEffects ==
  ASSUME TInv, NEW t \in Threads, pc[t] \in {"write", "fill"}, NEW wrote \in BOOLEAN, StoreDone(t, wrote),
         files' = IF wrote THEN [files EXCEPT ![Top(t).uuid] = Merged(Top(t))] ELSE files
  PROVE  Fills(t)
<1>1. Top(t).op \in {"register", "set_properties"} /\ UNCHANGED reg_entity_id
  BY HasTop DEF OpsAt, StoreDone
<1>2. /\ DOMAIN history' = DOMAIN history
      /\ history'.mixed = history.mixed /\ history'.overlapped = history.overlapped
      /\ Filled(t) \/ Unfilled(t)
  <2>1. PICK ks, us : /\ history' = [history EXCEPT !.kept = ks, !.unwritten = us]
                      /\ ks = IF wrote /\ Top(t).op # "register"
                              THEN history.kept \cup {Kept(t)} ELSE history.kept
                      /\ us = IF wrote THEN history.unwritten ELSE history.unwritten \cup {Top(t).uuid}
    BY DEF StoreDone, Kept
  <2>2. /\ DOMAIN history' = DOMAIN history /\ history'.kept = ks /\ history'.unwritten = us
        /\ history'.mixed = history.mixed /\ history'.overlapped = history.overlapped
    BY <2>1 DEF TInv, RecordTypes
  <2>3. CASE wrote
    BY <2>1, <2>2, <2>3 DEF Filled
  <2>4. CASE ~wrote
    BY <2>1, <2>2, <2>4 DEF Unfilled
  <2> QED
    BY <2>2, <2>3, <2>4
<1>3. CASE Top(t).op = "register"
  <2>1. /\ pc' = [pc EXCEPT ![t] = "return"] /\ file_ops_lock' = None /\ UNCHANGED <<frames, reg>>
    BY <1>3 DEF StoreDone, Goto
  <2>2. Moved(t, "return")
    BY <2>1 DEF Moved, TInv, StackInv, Labels
  <2> QED
    BY <1>1, <1>2, <1>3, <2>1, <2>2 DEF Fills
<1>4. CASE Top(t).op = "set_properties"
  <2>1. /\ pc' = [pc EXCEPT ![t] = "idle"] /\ frames' = [frames EXCEPT ![t] = <<>>]
        /\ file_ops_lock' = IF file_ops_lock = t THEN None ELSE file_ops_lock
        /\ reg' = IF Top(t).ret THEN [reg EXCEPT ![Top(t).ent] = Top(t).uuid] ELSE reg
    BY <1>4 DEF StoreDone, Leave, Goto
  <2>2. Moved(t, "idle") /\ frames'[t] = <<>>
    BY <2>1 DEF Moved, TInv, StackInv, Labels
  <2> QED
    BY <1>1, <1>2, <1>4, <2>1, <2>2 DEF Fills
<1> QED
  BY <1>1, <1>3, <1>4

(* open with mode w empties the file, or raises.                           *)
LEMMA WriteEffects == ASSUME TInv, NEW t \in Threads, write_entity_file(t) PROVE Writes(t) \/ Fills(t)
<1>1. CASE /\ files' = [files EXCEPT ![Top(t).uuid] = Broken] /\ Goto(t, "fill")
           /\ UNCHANGED <<frames, reg, reg_entity_id, file_ops_lock, history>>
  BY <1>1 DEF write_entity_file, Writes, Moved, Goto, TInv, StackInv, Labels
<1>2. CASE UNCHANGED files /\ StoreDone(t, FALSE)
  BY <1>2, DoneEffects DEF write_entity_file
<1> QED
  BY <1>1, <1>2 DEF write_entity_file

(* The dictionary is written to it, or not.                                *)
LEMMA FillEffects == ASSUME TInv, NEW t \in Threads, fill_entity_file(t) PROVE Fills(t)
<1>1. CASE files' = [files EXCEPT ![Top(t).uuid] = Merged(Top(t))] /\ StoreDone(t, TRUE)
  BY <1>1, DoneEffects DEF fill_entity_file
<1>2. CASE UNCHANGED files /\ StoreDone(t, FALSE)
  BY <1>2, DoneEffects DEF fill_entity_file
<1> QED
  BY <1>1, <1>2 DEF fill_entity_file

(* register writes iotcc.json.                                             *)
Registers(t) ==
  /\ pc[t] = "lock" /\ Top(t).op = "register" /\ Moved(t, "attributes") /\ frames'[t] = frames[t]
  /\ file_ops_lock = None /\ file_ops_lock' = t /\ UNCHANGED Recs
  /\ history' = [history EXCEPT !.mixed = @ \/ reg_entity_id # Top(t).ent]

(* The action for store_reg_entity_details does so.                        *)
LEMMA DetailsEffects ==
  ASSUME TInv, NEW t \in Threads, store_reg_entity_details(t), edge # "gone" PROVE Registers(t)
<1>1. /\ pc[t] = "lock" /\ Top(t).op = "register" /\ pc' = [pc EXCEPT ![t] = "attributes"]
      /\ UNCHANGED <<frames, Recs>> /\ file_ops_lock = None /\ file_ops_lock' = t
      /\ history' = [history EXCEPT !.mixed = @ \/ reg_entity_id # Top(t).ent]
  BY DEF store_reg_entity_details, Details, Goto, Recs
<1>2. Moved(t, "attributes")
  BY <1>1 DEF Moved, TInv, StackInv, Labels
<1> QED
  BY <1>1, <1>2 DEF Registers

(* A call that has its answer and not yet the file is not get_properties.  *)
LEMMA KnownUuid ==
  ASSUME TInv, NEW t \in Threads, pc[t] \in {"lock", "attributes", "return"}
  PROVE  ~Getting(t) /\ UuidOf(t) \in Entities /\ IsFile(files[UuidOf(t)])
<1>1. IsFrame(Top(t)) /\ Top(t).op \in {"register", "set_properties"}
  BY HasTop DEF OpsAt
<1>2. ~Getting(t) /\ Found(t) /\ Base(t) = Top(t)
  BY <1>1 DEF Getting, Found, Base
<1>3. UuidOf(t) \in Entities
  BY <1>1, <1>2 DEF UuidOf, IsFrame, TInv, UuidKnown
<1> QED
  BY <1>2, <1>3 DEF TInv, RecordTypes

(* Two calls, one from the other, push two frames.                         *)
LEMMA TwoIs ==
  ASSUME NEW p, IsSeq(p), NEW g, NEW f PROVE <<g>> \o <<f>> \o p = <<g>> \o (<<f>> \o p)
<1>1. PICK S : p \in Seq(S) /\ f \in S /\ g \in S
  <2>1. p \in Seq(Elems(p) \cup {f, g})
    BY SeqMonotonic DEF IsSeq
  <2>2. f \in Elems(p) \cup {f, g} /\ g \in Elems(p) \cup {f, g}
    OBVIOUS
  <2> QED
    BY <2>1, <2>2
<1>2. <<g>> \in Seq(S) /\ <<f>> \in Seq(S)
  BY SMTT(30), <1>1
<1> QED
  BY SMTT(30), <1>1, <1>2, ConcatAssociative

(* The entity file is read, and get_properties called if it is from before *)
(* a restart.                                                              *)
Fetches(t) ==
  \E f, r :
    /\ pc[t] \in {"lock", "attributes"} /\ (pc[t] = "lock" => file_ops_lock = None)
    /\ file_ops_lock' = t /\ UNCHANGED Recs /\ files[UuidOf(t)] # Broken
    /\ IsFrame(f) /\ f.op = Top(t).op /\ f.ent = Top(t).ent /\ f.props = Top(t).props
    /\ f.uuid = UuidOf(t) /\ f.dict = files[UuidOf(t)] /\ Topped(frames[t], f, r)
    /\ \/ Moved(t, "write") /\ frames'[t] = r
       \/ Moved(t, "next_id") /\ Pushed(r, Frame("get_properties", f.ent, f.uuid, {}, FALSE), frames'[t])
    /\ history' = [history EXCEPT !.mixed = @ \/ f.uuid # f.ent]

(* The action for store_reg_entity_attributes does so.                     *)
LEMMA FetchEffects ==
  ASSUME TInv, NEW t \in Threads, store_reg_entity_attributes(t), files[UuidOf(t)] # Broken
  PROVE  Fetches(t)
<1> DEFINE s == frames[t]
           u == UuidOf(t)
           f == [Top(t) EXCEPT !.uuid = u, !.dict = files[u]]
           g == Frame("get_properties", f.ent, u, {}, FALSE)
           r == <<f>> \o Tail(s)
           stale == conf.enable_reboot_getprop /\ files[u] # NoFile /\ ~files[u].fresh
<1>1. /\ pc[t] \in {"lock", "attributes"} /\ (pc[t] = "lock" => file_ops_lock = None)
      /\ frames' = [frames EXCEPT ![t] = (IF stale THEN <<g>> ELSE <<>>) \o <<f>> \o Tail(@)]
      /\ pc' = [pc EXCEPT ![t] = IF stale THEN "next_id" ELSE "write"]
      /\ file_ops_lock' = t /\ UNCHANGED Recs
      /\ history' = [history EXCEPT !.mixed = @ \/ u # f.ent]
  BY DEF store_reg_entity_attributes, Goto, Recs, records
<1> HIDE DEF stale
<1>2. u \in Entities /\ IsFile(files[u]) /\ IsFrame(Top(t)) /\ IsSeq(s) /\ s # <<>>
  BY <1>1, KnownUuid, HasTop
<1> HIDE DEF u
<1>3. /\ f.op = Top(t).op /\ f.ent = Top(t).ent /\ f.props = Top(t).props
      /\ f.uuid = u /\ f.dict = files[u] /\ IsFrame(f)
  <2>1. PICK h, d : h = Top(t) /\ d = files[u]
    OBVIOUS
  <2>2. f = [h EXCEPT !.uuid = u, !.dict = d] /\ IsFrame(h) /\ IsFile(d)
    BY <1>2, <2>1
  <2>3. /\ f.op = h.op /\ f.ent = h.ent /\ f.props = h.props /\ f.uuid = u /\ f.dict = d
        /\ IsFrame(f)
    <3>1. PICK k : k = [h EXCEPT !.uuid = u]
      OBVIOUS
    <3>2. f = [k EXCEPT !.dict = d]
      BY <2>2, <3>1
    <3>3. IsFrame(k) /\ k.op = h.op /\ k.ent = h.ent /\ k.props = h.props /\ k.uuid = u
      BY SMTT(30), <1>2, <2>2, <3>1 DEF IsFrame
    <3>4. IsFile(d)
      BY <2>2
    <3> HIDE DEF f
    <3> QED
      BY SMTT(30), <3>2, <3>3, <3>4 DEF IsFrame
  <2> QED
    BY <2>1, <2>3
<1> HIDE DEF f
<1>4. Topped(s, f, r)
  BY <1>2, TailTopIs
<1>5. (IF stale THEN <<g>> ELSE <<>>) \o <<f>> \o Tail(s) = IF stale THEN <<g>> \o r ELSE r
  <2> HIDE DEF g
  <2>1. IsSeq(Tail(s)) /\ IsSeq(<<f>>) /\ IsSeq(<<g>>)
    BY <1>2, PopIs, OneIs DEF Popped
  <2>5. <<>> \o <<f>> = <<f>>
    BY <2>1, ConcatEmptySeq DEF IsSeq
  <2>6. <<g>> \o <<f>> \o Tail(s) = <<g>> \o (<<f>> \o Tail(s))
    BY <2>1, TwoIs
  <2> QED
    BY <2>5, <2>6
<1>6. frames'[t] = (IF stale THEN <<g>> \o r ELSE r) /\ \A v \in Threads : v # t => frames'[v] = frames[v]
  BY <1>1, <1>5 DEF TInv, StackInv
<1>7. \/ Moved(t, "write") /\ frames'[t] = r
      \/ Moved(t, "next_id") /\ Pushed(r, Frame("get_properties", f.ent, f.uuid, {}, FALSE), frames'[t])
  <2>1. CASE ~stale
    BY <1>1, <1>6, <2>1 DEF Moved, TInv, StackInv, Labels
  <2>2. CASE stale
    <3>1. Moved(t, "next_id")
      BY <1>1, <1>6, <2>2 DEF Moved, TInv, StackInv, Labels
    <3>2. frames'[t] = <<g>> \o r
      BY <1>6, <2>2
    <3> HIDE DEF r
    <3>3. Pushed(r, g, <<g>> \o r)
      BY <1>4, PushIs DEF Topped
    <3> QED
      BY <1>3, <3>1, <3>2, <3>3
  <2> QED
    BY <2>1, <2>2
<1> HIDE DEF r, s
<1> QED
  BY <1>1, <1>3, <1>4, <1>7 DEF Fetches, u, s

(* register returns the entity, or sets the system properties first.       *)
Finishes(t) ==
  /\ pc[t] = "return" /\ UNCHANGED <<files, reg_entity_id>>
  /\ history' = [history EXCEPT !.mixed = @ \/ reg_entity_id # Top(t).ent]
  /\ \/ /\ Moved(t, "idle") /\ frames'[t] = <<>>
        /\ file_ops_lock' = IF file_ops_lock = t THEN None ELSE file_ops_lock
        /\ reg' = [reg EXCEPT ![Top(t).ent] = reg_entity_id]
     \/ /\ Moved(t, "next_id") /\ UNCHANGED <<reg, file_ops_lock>>
        /\ \E ps : Pushed(frames[t], Frame("set_properties", Top(t).ent, reg_entity_id, ps, TRUE), frames'[t])

(* The action for the end of register does so.                             *)
LEMMA FinishEffects == ASSUME TInv, NEW t \in Threads, MakeRegisteredEntity(t) PROVE Finishes(t)
<1>1. /\ pc[t] = "return" /\ UNCHANGED <<files, reg_entity_id>>
      /\ history' = [history EXCEPT !.mixed = @ \/ reg_entity_id # Top(t).ent]
  BY DEF MakeRegisteredEntity
<1>2. CASE conf.system_properties = {}
  <2>1. /\ pc' = [pc EXCEPT ![t] = "idle"] /\ frames' = [frames EXCEPT ![t] = <<>>]
        /\ file_ops_lock' = IF file_ops_lock = t THEN None ELSE file_ops_lock
        /\ reg' = [reg EXCEPT ![Top(t).ent] = reg_entity_id]
    BY <1>2 DEF MakeRegisteredEntity, Leave, Goto
  <2>2. Moved(t, "idle") /\ frames'[t] = <<>>
    BY <2>1 DEF Moved, TInv, StackInv, Labels
  <2> QED
    BY <1>1, <2>1, <2>2 DEF Finishes
<1>3. CASE conf.system_properties # {}
  <2> DEFINE f == Frame("set_properties", Top(t).ent, reg_entity_id, conf.system_properties, TRUE)
  <2>1. /\ pc' = [pc EXCEPT ![t] = "next_id"] /\ frames' = [frames EXCEPT ![t] = <<f>> \o @]
        /\ UNCHANGED <<reg, file_ops_lock>>
    BY <1>3 DEF MakeRegisteredEntity, Push, Goto
  <2>2. Moved(t, "next_id") /\ frames'[t] = <<f>> \o frames[t]
    BY <2>1 DEF Moved, TInv, StackInv, Labels
  <2>3. Pushed(frames[t], f, <<f>> \o frames[t])
    <3> HIDE DEF f
    <3> QED
      BY <1>1, HasTop, PushIs
  <2>4. Pushed(frames[t], f, frames'[t])
    BY <2>2, <2>3
  <2> QED
    BY <1>1, <2>1, <2>2, <2>4 DEF Finishes
<1> QED
  BY <1>2, <1>3

(* The steps that touch a record are of these six kinds.                   *)
LEMMA StoreEffects ==
  ASSUME TInv, NEW t \in Threads, Stores(t)
  PROVE  Gets(t) \/ Writes(t) \/ Fills(t) \/ Registers(t) \/ Fetches(t) \/ Finishes(t)
  BY GotEffects, WriteEffects, FillEffects, DetailsEffects, FetchEffects, FinishEffects DEF Stores

-----------------------------------------------------------------------------
(* Types are kept.                                                         *)

(* A step of one thread leaves the others where they are.                  *)
LEMMA OtherThread ==
  ASSUME pc \in [Threads -> Labels], NEW t \in Threads, NEW l, Moved(t, l), NEW u \in Threads, u # t
  PROVE  /\ frames'[u] = frames[u] /\ pc'[u] = pc[u] /\ Top(u)' = Top(u) /\ Base(u)' = Base(u)
         /\ Getting(u)' = Getting(u) /\ Found(u)' = Found(u) /\ Read(u)' = Read(u)
         /\ Holding(u)' = Holding(u) /\ Registering(u)' = Registering(u) /\ StackOK(u)' = StackOK(u)
<1>1. frames'[u] = frames[u] /\ pc'[u] = pc[u]
  BY DEF Moved
<1> QED
  BY <1>1 DEF Top, Base, Getting, Found, Read, Holding, Registering, StackOK

(* It takes the thread itself to the label that it goes to.                *)
LEMMA MovedPc ==
  ASSUME pc \in [Threads -> Labels], NEW t \in Threads, NEW l, Moved(t, l)
  PROVE  DOMAIN frames' = Threads /\ pc' \in [Threads -> Labels] /\ pc'[t] = l
  BY DEF Moved

(* What holds of the thread that takes the step.                           *)
Typed(t) ==
  /\ StackOK(t)' /\ UuidKnown(t)'
  /\ reg_entity_id' = reg_entity_id \/ reg_entity_id' \in Entities

Left(t) == ~Getting(t)' /\ ~Found(t)' /\ ~Read(t)' /\ ~Holding(t)' /\ ~Registering(t)'

(* A thread that is idle is in no part of a call.                          *)
LEMMA LeftIs ==
  ASSUME pc \in [Threads -> Labels], NEW t \in Threads, Moved(t, "idle"), frames'[t] = <<>>
  PROVE  Left(t) /\ StackOK(t)' /\ UuidKnown(t)'
<1>1. pc'[t] = "idle" /\ frames'[t] = <<>>
  BY MovedPc
<1>2. ~Getting(t)' /\ ~Found(t)' /\ ~Read(t)' /\ ~Holding(t)'
  BY <1>1 DEF Getting, Found, Read, Holding
<1>3. ~Registering(t)'
  <2>1. DOMAIN <<>> = {}
    BY SMTT(30)
  <2> QED
    BY <1>1, <2>1 DEF Registering
<1>4. StackOK(t)'
  BY <1>1, NoStack DEF StackOK
<1> QED
  BY <1>2, <1>3, <1>4 DEF Left, UuidKnown

(* A call that ends leaves nothing behind.                                 *)
LEMMA GoneTyped == ASSUME TInv, NEW t \in Threads, Gone(t) PROVE Typed(t) /\ Left(t)
<1>1. Moved(t, "idle") /\ frames'[t] = <<>> /\ reg_entity_id' = reg_entity_id
  BY DEF Gone, Recs
<1> QED
  BY <1>1, LeftIs DEF Typed, TInv, StackInv

(* The frame on top is as before, but for the request and its answers.     *)
LEMMA GoesTop ==
  ASSUME TInv, NEW t \in Threads, Goes(t)
  PROVE  /\ StackOK(t)' /\ SameFrame(Top(t), Top(t)')
         /\ Getting(t)' = Getting(t) /\ Found(t)' = Found(t) /\ Read(t)' = Read(t)
         /\ Holding(t)' = Holding(t) /\ (Found(t) => Getting(t) /\ Base(t)' = Base(t))
<1>1. PICK f, l :
        /\ pc[t] \in {"next_id", "incr", "double", "wait", "forget"}
        /\ l \in {"incr", "double", "wait", "forget", "remove"} /\ Top(t).op \in OpsAt(l)
        /\ Moved(t, l) /\ Topped(frames[t], f, frames'[t]) /\ SameFrame(Top(t), f)
  BY SMTT(30) DEF Goes
<1>2. Stack(frames[t]) /\ frames[t] # <<>>
  BY <1>1, HasTop
<1>3. IsFrame(f) /\ f.op = frames[t][1].op /\ f.ent = frames[t][1].ent
  BY <1>1 DEF SameFrame, Top
<1>4. /\ Stack(frames'[t]) /\ frames'[t] # <<>> /\ frames'[t][1] = f
      /\ (f.op = "get_properties" => frames'[t][2] = frames[t][2])
  BY <1>1, <1>2, <1>3, ToppedStack
<1>5. pc'[t] = l /\ Top(t)' = f
  BY <1>1, <1>4, MovedPc DEF TInv, StackInv, Top
<1>6. StackOK(t)' /\ SameFrame(Top(t), Top(t)')
  BY <1>1, <1>3, <1>4, <1>5 DEF StackOK, Top
<1>7. Getting(t)' = Getting(t)
  BY <1>1, <1>3, <1>5 DEF Getting, Top
<1>8. Found(t)' = Found(t) /\ Read(t)' = Read(t) /\ Holding(t)' = Holding(t) /\ (Found(t) => Getting(t))
  BY <1>1, <1>5, <1>7 DEF Found, Read, Holding
<1>9. Getting(t) => Base(t)' = Base(t)
  BY <1>3, <1>4, <1>7 DEF Base, Getting, Top
<1> QED
  BY <1>6, <1>7, <1>8, <1>9

(* So the types hold of it.                                                *)
LEMMA GoesTyped == ASSUME TInv, NEW t \in Threads, Goes(t) PROVE Typed(t)
<1>1. UNCHANGED reg_entity_id
  BY DEF Goes, Recs
<1>2. UuidKnown(t) /\ (Read(t) => Found(t))
  BY DEF TInv, Read, Found
<1>3. (Found(t)' => Base(t)' = Base(t)) /\ Found(t)' = Found(t) /\ Read(t)' = Read(t) /\ StackOK(t)'
  BY GoesTop
<1>4. UuidKnown(t)'
  BY <1>1, <1>2, <1>3 DEF UuidKnown
<1> QED
  BY <1>1, <1>3, <1>4 DEF Typed

(* A call that begins has found and read nothing.                          *)
LEMMA StartsTyped ==
  ASSUME TInv, NEW t \in Threads, Starts(t)
  PROVE  Typed(t) /\ ~Getting(t)' /\ ~Found(t)' /\ ~Read(t)' /\ ~Holding(t)'
<1>1. PICK f : /\ Moved(t, "next_id") /\ frames'[t] = <<f>>
               /\ IsFrame(f) /\ f.op # "get_properties" /\ UNCHANGED Recs
  BY DEF Starts
<1>2. pc'[t] = "next_id" /\ frames'[t][1] = f
  <2>1. pc'[t] = "next_id"
    BY <1>1, MovedPc DEF TInv, StackInv
  <2> QED
    BY <1>1, <2>1, OneIs
<1>3. ~Getting(t)' /\ ~Found(t)' /\ ~Read(t)' /\ ~Holding(t)'
  BY <1>1, <1>2 DEF Getting, Found, Read, Holding, Top
<1>4. StackOK(t)'
  BY <1>1, <1>2, OneStack DEF StackOK, Top, OpsAt, IsFrame
<1>5. UNCHANGED reg_entity_id
  BY <1>1 DEF Recs
<1> QED
  BY <1>3, <1>4, <1>5 DEF Typed, UuidKnown

(* A call with its answer has the uuid, and not yet the file.              *)
LEMMA AnswersTyped ==
  ASSUME TInv, NEW t \in Threads, Answers(t)
  PROVE  /\ Typed(t) /\ ~Getting(t) /\ ~Getting(t)' /\ Found(t)' /\ ~Read(t)' /\ ~Holding(t)'
         /\ Base(t)' = Top(t)
<1>1. /\ pc[t] = "wait" /\ Top(t).op \in {"register", "set_properties"}
      /\ pc'[t] = "lock" /\ frames'[t] = frames[t] /\ Top(t)' = Top(t)
  BY MovedPc DEF Answers, TInv, StackInv, Top
<1>2. Stack(frames[t]) /\ frames[t] # <<>> /\ IsFrame(Top(t))
  BY <1>1, HasTop
<1>3. /\ ~Getting(t) /\ ~Getting(t)' /\ Found(t)' /\ ~Read(t)' /\ ~Holding(t)' /\ Base(t)' = Top(t)
  BY <1>1 DEF Getting, Found, Read, Holding, Base
<1>4. StackOK(t)'
  BY <1>1, <1>2 DEF StackOK, OpsAt
<1>5. /\ Top(t).op = "register" => reg_entity_id' \in Entities
      /\ reg_entity_id' = reg_entity_id \/ reg_entity_id' \in Entities
  BY <1>2 DEF Answers, IsFrame
<1> QED
  BY <1>3, <1>4, <1>5 DEF Typed, UuidKnown

(* The rest of the effects, with what they make of the call that stores.   *)
LEMMA GetsTyped ==
  ASSUME TInv, NEW t \in Threads, Gets(t)
  PROVE  /\ Typed(t) /\ Getting(t) /\ ~Getting(t)' /\ Found(t)' /\ Read(t)' /\ pc'[t] = "write"
         /\ IsFrame(Base(t)) /\ Base(t)' = Top(t)' /\ IsFrame(Base(t)')
         /\ (Base(t)').op = Base(t).op /\ (Base(t)').ent = Base(t).ent
         /\ (Base(t)').uuid = Base(t).uuid /\ (Base(t)').props = Base(t).props
         /\ (Base(t)').dict.name = Base(t).dict.name
         /\ (Base(t)').dict.props = Base(t).dict.props \cup IF AboutMine(t) THEN Answer(t).props ELSE {}
         /\ Top(t).ent = Base(t).ent
<1>1. PICK g, ps :
        /\ pc[t] = "wait" /\ Getting(t) /\ Moved(t, "write") /\ UNCHANGED <<Recs, file_ops_lock, history>>
        /\ \E p : Popped(frames[t], p) /\ Topped(p, g, frames'[t])
        /\ IsFrame(g) /\ g.op = frames[t][2].op /\ g.ent = frames[t][2].ent /\ g.uuid = frames[t][2].uuid
        /\ g.props = frames[t][2].props /\ g.dict.name = frames[t][2].dict.name
        /\ g.dict.props = frames[t][2].dict.props \cup ps
        /\ ps = IF AboutMine(t) THEN Answer(t).props ELSE {}
  BY DEF Gets
<1>2. PICK p : Popped(frames[t], p) /\ Topped(p, g, frames'[t])
  BY <1>1
<1>3. Stack(frames[t]) /\ frames[t] # <<>> /\ frames[t][1].op = "get_properties"
  BY <1>1, HasTop DEF Getting, Top
<1>4. /\ Stack(p) /\ p # <<>> /\ p[1] = frames[t][2] /\ Above(frames[t][1], frames[t][2])
      /\ IsFrame(frames[t][2])
  BY <1>2, <1>3, PoppedStack
<1>5. g.op = p[1].op /\ g.ent = p[1].ent /\ IsFrame(g)
  BY <1>1, <1>4
<1>6. Stack(frames'[t]) /\ frames'[t] # <<>> /\ frames'[t][1] = g
  BY <1>2, <1>4, <1>5, ToppedStack
<1>7. pc'[t] = "write" /\ Top(t)' = g /\ Base(t) = frames[t][2]
  BY <1>1, <1>6, MovedPc DEF TInv, StackInv, Top, Base
<1>8. /\ g.op \in {"register", "set_properties"} /\ Top(t).ent = Base(t).ent /\ g.op # "get_properties"
  BY <1>3, <1>4, <1>5, <1>7 DEF Above, Top
<1>9. ~Getting(t)' /\ Found(t)' /\ Read(t)' /\ Base(t)' = g
  BY <1>7, <1>8 DEF Getting, Found, Read, Base
<1>10. StackOK(t)'
  BY <1>6, <1>7, <1>8 DEF StackOK, OpsAt
<1>11. UuidKnown(t)' /\ reg_entity_id' = reg_entity_id
  <2>1. reg_entity_id' = reg_entity_id /\ UuidKnown(t) /\ Found(t) /\ Read(t)
    BY <1>1 DEF Recs, TInv, Found, Read
  <2>2. g.op = Base(t).op /\ g.uuid = Base(t).uuid
    BY <1>1, <1>7
  <2> QED
    BY <1>9, <2>1, <2>2 DEF UuidKnown
<1> QED
  BY <1>1, <1>4, <1>7, <1>8, <1>9, <1>10, <1>11 DEF Typed

(* Opening the file changes nothing of the call.                           *)
LEMMA WritesTyped ==
  ASSUME TInv, NEW t \in Threads, Writes(t)
  PROVE  /\ Typed(t) /\ ~Getting(t) /\ ~Getting(t)' /\ Found(t) /\ Read(t) /\ Found(t)' /\ Read(t)'
         /\ Base(t) = Top(t) /\ Base(t)' = Base(t) /\ Top(t)' = Top(t) /\ pc'[t] = "fill"
         /\ Base(t).uuid \in Entities /\ IsFrame(Top(t))
<1>1. pc[t] = "write" /\ pc'[t] = "fill" /\ frames'[t] = frames[t] /\ Top(t)' = Top(t)
  BY MovedPc DEF Writes, TInv, StackInv, Top
<1>2. Stack(frames[t]) /\ frames[t] # <<>> /\ IsFrame(Top(t)) /\ Top(t).op \in {"register", "set_properties"}
  BY <1>1, HasTop DEF OpsAt
<1>3. Top(t).op # "get_properties"
  BY <1>2
<1>4. /\ ~Getting(t) /\ ~Getting(t)' /\ Found(t)' /\ Read(t)' /\ Found(t) /\ Read(t)
      /\ Base(t) = Top(t) /\ Base(t)' = Base(t)
  BY <1>1, <1>3 DEF Getting, Found, Read, Base
<1>5. StackOK(t)'
  BY <1>1, <1>2 DEF StackOK, OpsAt
<1>6. UuidKnown(t) /\ reg_entity_id' = reg_entity_id
  BY DEF TInv, Writes
<1>7. UuidKnown(t)' /\ Base(t).uuid \in Entities
  BY <1>4, <1>6 DEF UuidKnown
<1> QED
  BY <1>1, <1>2, <1>4, <1>5, <1>6, <1>7 DEF Typed

(* After the file is written the lock is free.                             *)
LEMMA FillsTyped ==
  ASSUME TInv, NEW t \in Threads, Fills(t)
  PROVE  /\ Typed(t) /\ ~Getting(t) /\ Read(t) /\ Found(t) /\ Base(t) = Top(t) /\ IsFrame(Top(t))
         /\ Base(t).uuid \in Entities /\ ~Read(t)' /\ ~Holding(t)'
         /\ \/ Left(t)
            \/ Top(t).op = "register" /\ pc'[t] = "return" /\ Found(t)' /\ ~Getting(t)'
               /\ Base(t)' = Base(t) /\ Top(t)' = Top(t) /\ frames'[t] = frames[t]
<1>1. pc[t] \in {"write", "fill"} /\ reg_entity_id' = reg_entity_id /\ UuidKnown(t)
  BY DEF Fills, TInv
<1>2. Stack(frames[t]) /\ frames[t] # <<>> /\ IsFrame(Top(t)) /\ Top(t).op \in {"register", "set_properties"}
  BY <1>1, HasTop DEF OpsAt
<1>3. Top(t).op # "get_properties"
  BY <1>2
<1>4. ~Getting(t) /\ Read(t) /\ Found(t) /\ Base(t) = Top(t)
  BY <1>1, <1>3 DEF Getting, Found, Read, Base
<1>5. Base(t).uuid \in Entities
  BY <1>1, <1>4 DEF UuidKnown
<1>6. CASE Top(t).op = "register" /\ Moved(t, "return") /\ frames'[t] = frames[t]
  <2>1. pc'[t] = "return" /\ Top(t)' = Top(t)
    BY <1>6, MovedPc DEF TInv, StackInv, Top
  <2>2. ~Getting(t)' /\ Found(t)' /\ ~Read(t)' /\ ~Holding(t)' /\ Base(t)' = Base(t)
    BY <1>3, <1>4, <2>1 DEF Getting, Found, Read, Holding, Base
  <2>3. StackOK(t)'
    BY <1>2, <1>6, <2>1 DEF StackOK, OpsAt
  <2>4. UuidKnown(t)'
    BY <1>1, <1>4, <2>2 DEF UuidKnown
  <2> QED
    BY <1>1, <1>2, <1>4, <1>5, <1>6, <2>1, <2>2, <2>3, <2>4 DEF Typed
<1>7. CASE Moved(t, "idle") /\ frames'[t] = <<>>
  BY <1>1, <1>2, <1>4, <1>5, <1>7, LeftIs DEF Typed, Left, TInv, StackInv
<1> QED
  BY <1>6, <1>7 DEF Fills

(* Writing iotcc.json changes nothing of the call.                         *)
LEMMA RegistersTyped ==
  ASSUME TInv, NEW t \in Threads, Registers(t)
  PROVE  /\ Typed(t) /\ ~Getting(t) /\ ~Getting(t)' /\ Found(t) /\ ~Read(t) /\ Found(t)' /\ ~Read(t)'
         /\ Base(t) = Top(t) /\ Base(t)' = Base(t) /\ Top(t)' = Top(t) /\ pc'[t] = "attributes"
<1>1. /\ pc[t] = "lock" /\ pc'[t] = "attributes" /\ frames'[t] = frames[t] /\ Top(t)' = Top(t)
      /\ Top(t).op = "register"
  BY MovedPc DEF Registers, TInv, StackInv, Top
<1>2. Stack(frames[t]) /\ frames[t] # <<>>
  BY <1>1, HasTop
<1>3. /\ ~Getting(t) /\ ~Getting(t)' /\ Found(t)' /\ ~Read(t)' /\ Found(t) /\ ~Read(t)
      /\ Base(t) = Top(t) /\ Base(t)' = Base(t)
  BY <1>1 DEF Getting, Found, Read, Base
<1>4. StackOK(t)'
  BY <1>1, <1>2 DEF StackOK, OpsAt
<1>5. UuidKnown(t) /\ reg_entity_id' = reg_entity_id
  BY DEF TInv, Registers, Recs
<1>6. UuidKnown(t)'
  BY <1>3, <1>5 DEF UuidKnown
<1> QED
  BY <1>1, <1>3, <1>4, <1>5, <1>6 DEF Typed

(* Reading the file fixes the uuid that the call writes to.                *)
LEMMA FetchesTyped ==
  ASSUME TInv, NEW t \in Threads, Fetches(t)
  PROVE  /\ Typed(t) /\ ~Getting(t) /\ Found(t) /\ ~Read(t) /\ Found(t)' /\ Read(t)'
         /\ Base(t) = Top(t) /\ (Base(t)').op = Top(t).op /\ (Base(t)').ent = Top(t).ent
         /\ (Base(t)').props = Top(t).props /\ (Base(t)').uuid = UuidOf(t)
         /\ (Base(t)').dict = files[UuidOf(t)] /\ UuidOf(t) \in Entities
         /\ \/ pc'[t] = "write" /\ ~Getting(t)' /\ Base(t)' = Top(t)'
            \/ pc'[t] = "next_id" /\ Getting(t)' /\ (Top(t)').uuid = UuidOf(t) /\ (Top(t)').ent = Top(t).ent
<1>1. PICK f, r :
        /\ pc[t] \in {"lock", "attributes"} /\ (pc[t] = "lock" => file_ops_lock = None)
        /\ file_ops_lock' = t /\ UNCHANGED Recs /\ files[UuidOf(t)] # Broken
        /\ IsFrame(f) /\ f.op = Top(t).op /\ f.ent = Top(t).ent /\ f.props = Top(t).props
        /\ f.uuid = UuidOf(t) /\ f.dict = files[UuidOf(t)] /\ Topped(frames[t], f, r)
        /\ \/ Moved(t, "write") /\ frames'[t] = r
           \/ Moved(t, "next_id") /\ Pushed(r, Frame("get_properties", f.ent, f.uuid, {}, FALSE), frames'[t])
        /\ history' = [history EXCEPT !.mixed = @ \/ f.uuid # f.ent]
  BY DEF Fetches
<1>2. Stack(frames[t]) /\ frames[t] # <<>> /\ IsFrame(Top(t)) /\ Top(t).op \in {"register", "set_properties"}
  BY <1>1, HasTop DEF OpsAt
<1>3. Top(t).op # "get_properties" /\ UuidOf(t) \in Entities /\ f.op \in {"register", "set_properties"}
  BY <1>1, <1>2, KnownUuid
<1>4. ~Getting(t) /\ Found(t) /\ ~Read(t) /\ Base(t) = Top(t)
  BY <1>1, <1>3 DEF Getting, Found, Read, Base
<1>5. f.op = frames[t][1].op /\ f.ent = frames[t][1].ent
  BY <1>1 DEF Top
<1>6. Stack(r) /\ r # <<>> /\ r[1] = f
  BY <1>1, <1>2, <1>5, ToppedStack
<1>7. reg_entity_id' = reg_entity_id /\ (f.op = "register" => reg_entity_id \in Entities)
  <2>1. UuidKnown(t) /\ reg_entity_id' = reg_entity_id
    BY <1>1 DEF TInv, Recs
  <2> QED
    BY <1>1, <1>4, <2>1 DEF UuidKnown
<1>8. CASE Moved(t, "write") /\ frames'[t] = r
  <2>1. pc'[t] = "write" /\ Top(t)' = f
    BY <1>6, <1>8, MovedPc DEF TInv, StackInv, Top
  <2>2. ~Getting(t)' /\ Found(t)' /\ Read(t)' /\ Base(t)' = f
    BY <1>1, <1>3, <2>1 DEF Getting, Found, Read, Base
  <2>3. StackOK(t)'
    BY <1>3, <1>6, <1>8, <2>1 DEF StackOK, OpsAt
  <2>4. UuidKnown(t)'
    BY <1>1, <1>3, <1>7, <2>2 DEF UuidKnown
  <2> QED
    BY <1>1, <1>3, <1>4, <1>7, <2>1, <2>2, <2>3, <2>4 DEF Typed
<1>9. CASE Moved(t, "next_id") /\ Pushed(r, Frame("get_properties", f.ent, f.uuid, {}, FALSE), frames'[t])
  <2>1. PICK g : g = Frame("get_properties", f.ent, f.uuid, {}, FALSE)
    OBVIOUS
  <2>2. /\ g.op = "get_properties" /\ g.ent = f.ent /\ g.uuid = f.uuid /\ IsFrame(g)
    <3>1. /\ g = [op |-> g.op, ent |-> g.ent, uuid |-> g.uuid, props |-> g.props, ret |-> g.ret,
                  call |-> g.call, seen |-> g.seen, dict |-> g.dict]
          /\ g.op = "get_properties" /\ g.ent = f.ent /\ g.uuid = f.uuid /\ g.props = {} /\ g.dict = NoFile
          /\ g.seen \in Nat
      BY SMTT(30), <2>1 DEF Frame
    <3>2. IsFile(NoFile)
      BY SMTT(30) DEF NoFile, IsFile
    <3>3. f.ent \in Entities /\ f.uuid \in Entities
      BY <1>1, <1>3 DEF IsFrame
    <3> QED
      BY <3>1, <3>2, <3>3 DEF IsFrame, Ops
  <2>3. Pushed(r, g, frames'[t]) /\ Above(g, r[1])
    BY <1>3, <1>6, <1>9, <2>1, <2>2 DEF Above
  <2>4. Stack(frames'[t]) /\ frames'[t] # <<>> /\ frames'[t][1] = g /\ frames'[t][2] = f
    BY <1>6, <2>2, <2>3, PushedStack
  <2>5. pc'[t] = "next_id" /\ Top(t)' = g
    BY <1>9, <2>4, MovedPc DEF TInv, StackInv, Top
  <2>6. Getting(t)' /\ Found(t)' /\ Read(t)' /\ Base(t)' = f
    BY <2>2, <2>4, <2>5 DEF Getting, Found, Read, Base
  <2>7. StackOK(t)'
    BY <2>2, <2>4, <2>5 DEF StackOK, OpsAt, Ops
  <2>8. UuidKnown(t)'
    BY <1>1, <1>3, <1>7, <2>6 DEF UuidKnown
  <2> QED
    BY <1>1, <1>3, <1>4, <1>7, <2>2, <2>5, <2>6, <2>7, <2>8 DEF Typed
<1> QED
  BY <1>1, <1>8, <1>9

(* The end of register, which may call set_properties.                     *)
LEMMA FinishesTyped ==
  ASSUME TInv, NEW t \in Threads, Finishes(t)
  PROVE  /\ Typed(t) /\ ~Getting(t) /\ Found(t) /\ ~Read(t) /\ Base(t) = Top(t) /\ Top(t).op = "register"
         /\ IsFrame(Top(t)) /\ reg_entity_id \in Entities
         /\ ~Getting(t)' /\ ~Found(t)' /\ ~Read(t)' /\ ~Holding(t)'
         /\ \/ Left(t)
            \/ (Top(t)').op = "set_properties" /\ (Top(t)').uuid = reg_entity_id /\ (Top(t)').ent = Top(t).ent
<1>1. pc[t] = "return" /\ reg_entity_id' = reg_entity_id /\ UuidKnown(t)
  BY DEF Finishes, TInv
<1>2. Stack(frames[t]) /\ frames[t] # <<>> /\ IsFrame(Top(t)) /\ Top(t).op = "register"
  BY <1>1, HasTop DEF OpsAt
<1>3. ~Getting(t) /\ Found(t) /\ ~Read(t) /\ Base(t) = Top(t)
  BY <1>1, <1>2 DEF Getting, Found, Read, Base
<1>4. reg_entity_id \in Entities
  BY <1>1, <1>2, <1>3 DEF UuidKnown
<1>5. CASE Moved(t, "idle") /\ frames'[t] = <<>>
  BY <1>1, <1>2, <1>3, <1>4, <1>5, LeftIs DEF Typed, Left, TInv, StackInv
<1>6. CASE /\ Moved(t, "next_id")
           /\ \E ps : Pushed(frames[t], Frame("set_properties", Top(t).ent, reg_entity_id, ps, TRUE), frames'[t])
  <2>1. PICK ps : Pushed(frames[t], Frame("set_properties", Top(t).ent, reg_entity_id, ps, TRUE), frames'[t])
    BY <1>6
  <2>2. PICK g : g = Frame("set_properties", Top(t).ent, reg_entity_id, ps, TRUE)
    OBVIOUS
  <2>3. g.op = "set_properties" /\ g.ent = Top(t).ent /\ g.uuid = reg_entity_id /\ IsFrame(g)
    <3>1. /\ g = [op |-> g.op, ent |-> g.ent, uuid |-> g.uuid, props |-> g.props, ret |-> g.ret,
                  call |-> g.call, seen |-> g.seen, dict |-> g.dict]
          /\ g.op = "set_properties" /\ g.ent = Top(t).ent /\ g.uuid = reg_entity_id /\ g.dict = NoFile
          /\ g.seen \in Nat
      BY SMTT(30), <2>2 DEF Frame
    <3>2. IsFile(NoFile)
      BY SMTT(30) DEF NoFile, IsFile
    <3>3. Top(t).ent \in Entities
      BY <1>2 DEF IsFrame
    <3> QED
      BY <1>4, <3>1, <3>2, <3>3 DEF IsFrame, Ops
  <2>4. Pushed(frames[t], g, frames'[t]) /\ Above(g, frames[t][1])
    BY <1>2, <2>1, <2>2, <2>3 DEF Above, Top
  <2>5. Stack(frames'[t]) /\ frames'[t] # <<>> /\ frames'[t][1] = g
    BY <1>2, <2>3, <2>4, PushedStack
  <2>6. pc'[t] = "next_id" /\ Top(t)' = g
    BY <1>6, <2>5, MovedPc DEF TInv, StackInv, Top
  <2>7. ~Getting(t)' /\ ~Found(t)' /\ ~Read(t)' /\ ~Holding(t)'
    BY <2>3, <2>6 DEF Getting, Found, Read, Holding
  <2>8. StackOK(t)'
    BY <2>3, <2>5, <2>6 DEF StackOK, OpsAt, Ops
  <2>9. UuidKnown(t)'
    BY <2>7 DEF UuidKnown
  <2> QED
    BY <1>1, <1>2, <1>3, <1>4, <2>3, <2>6, <2>7, <2>8, <2>9 DEF Typed
<1> QED
  BY <1>5, <1>6 DEF Finishes

(* What a step of a thread does.                                           *)
Effect(t) ==
  \/ Gone(t) \/ Goes(t) \/ Starts(t) \/ Answers(t)
  \/ Gets(t) \/ Writes(t) \/ Fills(t) \/ Registers(t) \/ Fetches(t) \/ Finishes(t)

(* Every step of a thread has an effect, and keeps its types.              *)
LEMMA AllEffects ==
  ASSUME TInv, NEW t \in Threads, Step(t) \/ Call(t)
  PROVE  Effect(t) /\ Typed(t) /\ \E l : Moved(t, l)
<1>1. Effect(t)
  BY Effects, StoreEffects DEF Effect
<1>2. Typed(t)
  BY <1>1, GoneTyped, GoesTyped, StartsTyped, AnswersTyped, GetsTyped, WritesTyped, FillsTyped,
     RegistersTyped, FetchesTyped, FinishesTyped DEF Effect
<1>3. \E l : Moved(t, l)
  BY <1>1 DEF Effect, Gone, Goes, Starts, Answers, Gets, Writes, Fills, Registers, Fetches, Finishes
<1> QED
  BY <1>1, <1>2, <1>3

(* The files, what register has returned, and the history.                 *)
RecordsKept ==
  /\ DOMAIN files' = Entities /\ \A u \in Entities : IsFile(files'[u])
  /\ reg' \in [Entities -> Entities \cup {None}]
  /\ DOMAIN history' = {"raced", "overlapped", "mixed", "kept", "unwritten"}

(* Every effect keeps the types of the records.                            *)
LEMMA EffectRecords == ASSUME TInv, NEW t \in Threads, Effect(t) PROVE RecordsKept
<1>1. RecordTypes
  BY DEF TInv
<1>2. CASE Gone(t) \/ Goes(t) \/ Starts(t) \/ Answers(t) \/ Registers(t) \/ Fetches(t) \/ Gets(t)
  <2>1. UNCHANGED <<files, reg>> /\ DOMAIN history' = DOMAIN history
    BY <1>2 DEF Gone, Goes, Starts, Answers, Registers, Fetches, Gets, Recs, SameHistory
  <2> QED
    BY <1>1, <2>1 DEF RecordTypes, RecordsKept
<1>3. CASE Writes(t)
  <2>1. UNCHANGED <<reg, history>> /\ files' = [files EXCEPT ![Top(t).uuid] = Broken] /\ Top(t).uuid \in Entities
    BY <1>3, WritesTyped DEF Writes
  <2>2. IsFile(Broken)
    BY SMTT(30) DEF IsFile, Broken
  <2> QED
    BY <1>1, <2>1, <2>2 DEF RecordTypes, RecordsKept
<1>4. CASE Fills(t)
  <2>1. /\ files' = files \/ files' = [files EXCEPT ![Top(t).uuid] = Merged(Top(t))]
        /\ Top(t).uuid \in Entities /\ IsFrame(Top(t))
    BY <1>4, FillsTyped DEF Fills, Filled, Unfilled
  <2>2. IsFile(Merged(Top(t)))
    BY SMTT(30) DEF IsFile, Merged
  <2>3. DOMAIN files' = Entities /\ \A u \in Entities : IsFile(files'[u])
    BY <1>1, <2>1, <2>2 DEF RecordTypes
  <2>4. DOMAIN history' = DOMAIN history
    BY <1>4 DEF Fills
  <2>5. reg' \in [Entities -> Entities \cup {None}]
    <3>1. reg' = reg \/ reg' = [reg EXCEPT ![Top(t).ent] = Top(t).uuid]
      BY <1>4 DEF Fills
    <3> QED
      BY <1>1, <2>1, <3>1 DEF RecordTypes, IsFrame
  <2> QED
    BY <1>1, <2>3, <2>4, <2>5 DEF RecordTypes, RecordsKept
<1>5. CASE Finishes(t)
  <2>1. /\ files' = files /\ DOMAIN history' = DOMAIN history /\ reg_entity_id \in Entities
        /\ reg' = reg \/ reg' = [reg EXCEPT ![Top(t).ent] = reg_entity_id]
    BY <1>5, FinishesTyped DEF Finishes
  <2> QED
    BY <1>1, <2>1, <1>5, FinishesTyped DEF RecordTypes, RecordsKept, IsFrame
<1> QED
  BY <1>2, <1>3, <1>4, <1>5 DEF Effect

-----------------------------------------------------------------------------
(* What happens to the requests.                                           *)

(* The others stay as they are.                                            *)
OnlyCall(d) ==
  /\ Len(calls') = Len(calls) /\ DOMAIN calls = 1..Len(calls) /\ DOMAIN calls' = 1..Len(calls)
  /\ \A c \in 1..Len(calls) : c # d => calls'[c] = calls[c]
  /\ d \in 1..Len(calls) /\ SameCall(calls[d], calls'[d])

(* Ask adds a request, for what the frame on top says.                     *)
Asks(t) ==
  \E r :
    /\ pc[t] = "double"
    /\ Len(calls) \in Nat /\ Len(calls') = Len(calls) + 1
    /\ DOMAIN calls = 1..Len(calls) /\ DOMAIN calls' = 1..(Len(calls) + 1)
    /\ \A c \in 1..Len(calls) : calls'[c] = calls[c]
    /\ calls'[Len(calls) + 1] = r
    /\ r.op = Top(t).op /\ r.ent = Top(t).ent /\ r.props = Top(t).props
    /\ r.fate \in {"none", "unsent"} /\ r.got = <<>>
    /\ \/ r.fate = "none" /\ wire' = wire \cup {Len(calls) + 1} /\ (Top(t)').call = Len(calls) + 1
       \/ UNCHANGED wire /\ pc'[t] = "idle"
    /\ UNCHANGED <<recv_msg_queue, disp>>

(* The action for _send does so.                                           *)
LEMMA AskIs ==
  ASSUME RInv, TInv, NEW t \in Threads, NEW sent \in BOOLEAN, Ask(t, sent) PROVE Asks(t)
<1> DEFINE n == Len(calls)
           r == [op |-> Top(t).op, ent |-> Top(t).ent, props |-> Top(t).props,
                 id |-> counter, epoch |-> epoch, got |-> <<>>,
                 fate |-> IF sent THEN "none" ELSE "unsent"]
<1>1. /\ pc[t] = "double" /\ calls' = Append(calls, r) /\ UNCHANGED <<recv_msg_queue, disp>>
      /\ IF sent THEN wire' = wire \cup {n + 1} /\ frames' = [frames EXCEPT ![t][1].call = n + 1]
                 ELSE UNCHANGED wire /\ pc' = [pc EXCEPT ![t] = "idle"]
  BY DEF Ask, Leave, Goto
<1>2. /\ r.op = Top(t).op /\ r.ent = Top(t).ent /\ r.props = Top(t).props /\ r.got = <<>>
      /\ r.fate = IF sent THEN "none" ELSE "unsent"
  OBVIOUS
<1> HIDE DEF r
<1>3. n \in Nat /\ DOMAIN calls = 1..n /\ IsSeq(calls)
  BY SeqLen DEF RInv, CallsInv
<1>4. /\ IsSeq(calls') /\ Len(calls') = n + 1
      /\ \A c \in 1..n : calls'[c] = calls[c]
      /\ calls'[n + 1] = r
  <2>1. calls' = Append(calls, r)
    BY <1>1
  <2> QED
    BY <2>1, AppendSeq DEF RInv, CallsInv
<1>5. DOMAIN calls' = 1..(n + 1)
  BY <1>4, SeqLen
<1>6. \/ r.fate = "none" /\ wire' = wire \cup {n + 1} /\ (Top(t)').call = n + 1
      \/ UNCHANGED wire /\ pc'[t] = "idle"
  <2>1. CASE sent
    <3>1. frames' = [frames EXCEPT ![t][1].call = n + 1] /\ wire' = wire \cup {n + 1} /\ r.fate = "none"
      BY <1>1, <1>2, <2>1
    <3>2. DOMAIN frames = Threads /\ frames[t] # <<>> /\ IsSeq(frames[t]) /\ IsFrame(Top(t))
      BY <1>1, HasTop DEF TInv, StackInv
    <3>3. frames'[t] = [frames[t] EXCEPT ![1].call = n + 1]
      BY <3>1, <3>2
    <3>4. 1 \in DOMAIN frames[t]
      BY <3>2, NotEmpty, SeqLen
    <3>5. Top(t)' = [Top(t) EXCEPT !.call = n + 1]
      BY <3>3, <3>4 DEF Top
    <3>6. Top(t) = [op |-> Top(t).op, ent |-> Top(t).ent, uuid |-> Top(t).uuid, props |-> Top(t).props,
                    ret |-> Top(t).ret, call |-> Top(t).call, seen |-> Top(t).seen, dict |-> Top(t).dict]
      BY <3>2 DEF IsFrame
    <3>7. PICK k : k = n + 1
      OBVIOUS
    <3>8. (Top(t)').call = k
      BY SMTT(30), <3>5, <3>6, <3>7
    <3> QED
      BY <3>1, <3>7, <3>8
  <2>2. CASE ~sent
    BY <1>1, <2>2 DEF TInv, StackInv
  <2> QED
    BY <2>1, <2>2
<1>7. r.fate \in {"none", "unsent"}
  BY <1>2
<1> HIDE DEF n
<1> QED
  BY <1>1, <1>2, <1>3, <1>4, <1>5, <1>6, <1>7 DEF Asks, n

(* A step of a thread that does not ask leaves the requests alone.         *)
LEMMA AsksOrNot ==
  ASSUME RInv, TInv, NEW t \in Threads, Step(t) \/ Call(t)
  PROVE  Asks(t) \/ UNCHANGED <<calls, wire, recv_msg_queue, disp>>
<1>1. CASE UNCHANGED vars_seen
  BY <1>1 DEF vars_seen, requests, net
<1>2. CASE next_id_read(t) \/ next_id_write(t)
  BY <1>2 DEF next_id_read, next_id_write, requests, net
<1>3. CASE \E sent \in BOOLEAN : Ask(t, sent)
  BY <1>3, AskIs
<1> QED
  BY <1>1, <1>2, <1>3, QuietStep

(* The dispatcher puts the message into the queue of the request.          *)
Puts ==
  /\ disp # None /\ disp' = None /\ UNCHANGED <<wire, recv_msg_queue>>
  /\ \E d : /\ OnlyCall(d) /\ calls[d].id = disp.msg.id /\ calls[d].got = <<>>
            /\ calls'[d].got = <<disp.msg>> /\ calls'[d].fate = calls[d].fate

(* The action for the dispatcher does so.                                  *)
LEMMA PutIs == ASSUME RInv, dispatch_put PROVE Puts
<1> DEFINE m == disp.msg
<1>1. /\ disp # None /\ disp' = None /\ UNCHANGED <<wire, recv_msg_queue>>
      /\ calls' = [calls EXCEPT ![disp.req].got = Append(@, m)]
  BY DEF dispatch_put
<1>2. PICK d \in 1..Len(calls) : d = disp.req /\ calls[d].id = m.id /\ calls[d].got = <<>>
  BY <1>1 DEF RInv, DispInv, Waits
<1>3. Append(<<>>, m) = <<m>> /\ DOMAIN calls = 1..Len(calls)
  <2>1. Append(<<>>, m) = <<m>>
    BY SMTT(30)
  <2> QED
    BY <2>1, SeqLen DEF RInv, CallsInv
<1> HIDE DEF m
<1>4. PICK x : /\ calls' = [calls EXCEPT ![d] = x] /\ SameCall(calls[d], x) /\ x.got = <<m>>
               /\ x.fate = calls[d].fate
  <2>1. calls' = [calls EXCEPT ![d].got = <<m>>]
    BY <1>1, <1>2, <1>3
  <2> QED
    BY <2>1, GotUpdate DEF RInv
<1>5. /\ Len(calls') = Len(calls) /\ DOMAIN calls' = 1..Len(calls) /\ calls'[d] = x
      /\ \A c \in 1..Len(calls) : c # d => calls'[c] = calls[c]
  BY <1>2, <1>4, CallUpdate DEF RInv
<1>6. OnlyCall(d)
  BY <1>2, <1>3, <1>4, <1>5 DEF OnlyCall
<1>7. calls'[d].got = <<m>> /\ calls'[d].fate = calls[d].fate
  BY <1>4, <1>5
<1> QED
  BY <1>1, <1>2, <1>6, <1>7 DEF Puts, m

(* The control center decides what becomes of a request, and answers.      *)
Serves(c) ==
  \E how, m, k :
    /\ c \in wire /\ wire' = wire \ {c} /\ UNCHANGED disp
    /\ OnlyCall(c) /\ calls'[c].fate = how /\ calls'[c].got = calls[c].got
    /\ k \in Nat /\ recv_msg_queue' = recv_msg_queue \o [i \in 1..k |-> m]
    /\ m.to = c /\ m.id = calls[c].id /\ (m.result = "succeeded" => how \in Accepted)
    /\ m.props \subseteq Cloud(calls[c].ent)

(* The action for the control center does so.                              *)
LEMMA ServeIs ==
  ASSUME RInv, NEW c \in wire, NEW how \in (Accepted \cup Faults) \ {"unsent", "restart"}, Serve(c, how)
  PROVE  Serves(c)
<1> DEFINE k == CASE how = "answered twice" -> 2 [] how = "answer lost" -> 0 [] OTHER -> 1
           m == [id |-> calls[c].id, to |-> c,
                 result |-> IF how \in Accepted THEN "succeeded" ELSE how,
                 props |-> IF calls[c].op = "get_properties" THEN Cloud(calls[c].ent) ELSE {}]
<1>1. /\ wire' = wire \ {c} /\ calls' = [calls EXCEPT ![c].fate = how] /\ UNCHANGED disp
      /\ recv_msg_queue' = recv_msg_queue \o [i \in 1..k |-> m]
  BY DEF Serve
<1>2. /\ m.to = c /\ m.id = calls[c].id /\ m.result = (IF how \in Accepted THEN "succeeded" ELSE how)
      /\ m.props \subseteq Cloud(calls[c].ent)
  OBVIOUS
<1>3. how # "succeeded"
  BY DEF Accepted, Faults
<1>4. m.result = "succeeded" => how \in Accepted
  BY <1>2, <1>3
<1>5. k \in Nat
  BY SMTT(30)
<1> HIDE DEF k, m
<1>6. c \in 1..Len(calls) /\ DOMAIN calls = 1..Len(calls)
  BY SeqLen DEF RInv, CallsInv
<1>7. PICK x : calls' = [calls EXCEPT ![c] = x] /\ SameCall(calls[c], x) /\ x.got = calls[c].got /\ x.fate = how
  BY <1>1, <1>6, FateUpdate DEF RInv
<1>8. /\ Len(calls') = Len(calls) /\ DOMAIN calls' = 1..Len(calls) /\ calls'[c] = x
      /\ \A e \in 1..Len(calls) : e # c => calls'[e] = calls[e]
  BY <1>6, <1>7, CallUpdate DEF RInv
<1>9. OnlyCall(c) /\ calls'[c].fate = how /\ calls'[c].got = calls[c].got
  BY <1>6, <1>7, <1>8 DEF OnlyCall
<1> QED
  BY <1>1, <1>2, <1>4, <1>5, <1>9 DEF Serves

-----------------------------------------------------------------------------
(* Types hold throughout.                                                  *)

Quietly == UNCHANGED <<frames, pc, plan, files, reg, reg_entity_id, file_ops_lock, history, epoch>>

(* The dispatcher and the control center leave the callers and the records *)
(* alone.                                                                  *)
LEMMA QuietTInv ==
  ASSUME TInv, Quietly, \A c \in 1..Len(calls') : calls'[c].ent \in Entities PROVE TInv'
<1>1. StackInv'
  BY DEF Quietly, TInv, StackInv, StackOK, Top
<1>2. RecordTypes'
  BY DEF Quietly, TInv, RecordTypes
<1>3. \A t \in Threads : UuidKnown(t)'
  BY DEF Quietly, TInv, UuidKnown, Found, Read, Getting, Base, Top
<1> QED
  BY <1>1, <1>2, <1>3 DEF TInv

(* A change of one request leaves the entities of all.                     *)
LEMMA EntsKept ==
  ASSUME TInv, NEW d, OnlyCall(d) PROVE \A c \in 1..Len(calls') : calls'[c].ent \in Entities
<1>1. \A c \in 1..Len(calls) : calls'[c].ent = calls[c].ent
  BY DEF OnlyCall, SameCall
<1> QED
  BY <1>1 DEF TInv, RecordTypes, OnlyCall

(* A step of a thread keeps the types.                                     *)
LEMMA StepTInv == ASSUME RInv, TInv, NEW t \in Threads, Step(t) \/ Call(t) PROVE TInv'
<1>1. Effect(t) /\ Typed(t) /\ RecordsKept
  BY AllEffects, EffectRecords
<1>2. PICK l : Moved(t, l)
  BY AllEffects
<1>3. DOMAIN frames' = Threads /\ pc' \in [Threads -> Labels]
  BY <1>2, MovedPc DEF TInv, StackInv
<1>4. ASSUME NEW u \in Threads PROVE StackOK(u)' /\ UuidKnown(u)'
  <2>1. CASE u = t
    BY <1>1, <2>1 DEF Typed
  <2>2. CASE u # t
    <3>1. /\ Base(u)' = Base(u) /\ Found(u)' = Found(u) /\ Read(u)' = Read(u) /\ StackOK(u)' = StackOK(u)
          /\ StackOK(u) /\ UuidKnown(u)
      BY <1>2, <2>2, OtherThread DEF TInv, StackInv
    <3> QED
      BY <1>1, <3>1 DEF Typed, UuidKnown
  <2> QED
    BY <2>1, <2>2
<1>5. plan' \in [Threads -> Seq({"register", "unregister", "create_relationship", "set_properties"} \X Entities)]
  <2>1. CASE Call(t)
    BY <2>1, CallEffects
  <2>2. CASE Step(t)
    <3>1. UNCHANGED plan
      BY <2>2 DEF Step, next_id_read, next_id_write, Ask, Timeout, FoundResource, WaitAgain, PropertiesSet,
         PropertiesGot, Unregistered, Related, Refused, Answered, store_reg_entity_details,
         store_reg_entity_attributes, write_entity_file, fill_entity_file, StoreDone, MakeRegisteredEntity,
         remove_reg_entity_details, store_device_removed, program
    <3> QED
      BY <3>1 DEF TInv, StackInv
  <2> QED
    BY <2>1, <2>2
<1>6. \A c \in 1..Len(calls') : calls'[c].ent \in Entities
  <2>1. CASE UNCHANGED calls
    BY <2>1 DEF TInv, RecordTypes
  <2>2. CASE Asks(t)
    <3>1. PICK n \in Nat : n = Len(calls)
      BY <2>2 DEF Asks
    <3>2. /\ pc[t] = "double" /\ Len(calls') = n + 1 /\ calls'[n + 1].ent = Top(t).ent
          /\ \A c \in 1..n : calls'[c] = calls[c]
      BY <2>2, <3>1 DEF Asks
    <3>3. Top(t).ent \in Entities
      BY <3>2, HasTop DEF IsFrame
    <3>4. \A c \in 1..(n + 1) : c \in 1..n \/ c = n + 1
      BY SMTT(30)
    <3> QED
      BY <3>1, <3>2, <3>3, <3>4 DEF TInv, RecordTypes
  <2> QED
    BY <2>1, <2>2, AsksOrNot
<1>7. StackInv'
  BY <1>3, <1>4, <1>5 DEF StackInv
<1>8. RecordTypes'
  BY <1>1, <1>6 DEF RecordTypes, RecordsKept
<1> QED
  BY <1>4, <1>7, <1>8 DEF TInv

(* After a restart no call is in progress.                                 *)
LEMMA RestartLeaves ==
  ASSUME NEW t \in Threads, pc'[t] = "idle", frames'[t] = <<>>
  PROVE  Left(t) /\ StackOK(t)' /\ UuidKnown(t)'
<1>1. ~Getting(t)' /\ ~Found(t)' /\ ~Read(t)' /\ ~Holding(t)'
  BY DEF Getting, Found, Read, Holding
<1>2. DOMAIN <<>> = {}
  BY SMTT(30)
<1>3. ~Registering(t)'
  BY <1>2 DEF Registering
<1>4. StackOK(t)'
  BY NoStack DEF StackOK
<1> QED
  BY <1>1, <1>3, <1>4 DEF Left, UuidKnown

(* The file of an entity, after a restart.                                 *)
LEMMA OldFile ==
  ASSUME NEW f, IsFile(f), NEW b, NEW g, g = [f EXCEPT !.fresh = b]
  PROVE  IsFile(g) /\ g.name = f.name /\ g.props = f.props /\ g.fresh = b
BY SMTT(30) DEF IsFile

(* So does a restart.                                                      *)
LEMMA RestartTInv == ASSUME TInv, Restart PROVE TInv'
<1>1. /\ pc' = [t \in Threads |-> "idle"] /\ frames' = [t \in Threads |-> <<>>]
      /\ UNCHANGED <<plan, calls, history>> /\ reg' = [e \in Entities |-> None]
      /\ files' = [u \in Entities |-> [files[u] EXCEPT !.fresh = FALSE]]
  BY DEF Restart
<1>2. \A t \in Threads : StackOK(t)' /\ UuidKnown(t)'
  BY <1>1, RestartLeaves
<1>3. StackInv'
  BY <1>1, <1>2 DEF TInv, StackInv, Labels
<1>4. DOMAIN files' = Entities /\ \A u \in Entities : IsFile(files'[u])
  <2>1. ASSUME NEW u \in Entities PROVE IsFile(files'[u])
    <3>1. PICK f, b, g : /\ f = files[u] /\ b = FALSE /\ g = files'[u]
                         /\ IsFile(f) /\ g = [f EXCEPT !.fresh = b]
      BY <1>1 DEF TInv, RecordTypes
    <3>2. IsFile(g)
      BY <3>1, OldFile
    <3> QED
      BY <3>1, <3>2
  <2> QED
    BY <1>1, <2>1
<1>5. RecordTypes'
  BY <1>1, <1>4 DEF TInv, RecordTypes
<1> QED
  BY <1>2, <1>3, <1>5 DEF TInv

(* Every step is of one of these kinds.                                    *)
LEMMA Steps ==
  ASSUME RInv, [Next]_vars
  PROVE  \/ \E t \in Threads : Step(t) \/ Call(t)
         \/ Quietly /\ (UNCHANGED calls \/ Puts \/ \E c : Serves(c))
         \/ Restart
<1> USE DEF Quietly, threads, records, program
<1>1. CASE dispatch_get
  BY <1>1 DEF dispatch_get, requests
<1>2. CASE dispatch_put
  BY <1>2, PutIs DEF dispatch_put
<1>3. ASSUME NEW c \in wire, NEW how \in (Accepted \cup Faults) \ {"unsent", "restart"}, Serve(c, how)
      PROVE  Quietly /\ Serves(c)
  BY <1>3, ServeIs DEF Serve
<1>4. CASE UNCHANGED vars
  BY <1>4 DEF vars, requests
<1> QED
  BY <1>1, <1>2, <1>3, <1>4 DEF Next

(* So does every step.                                                     *)
LEMMA NextTInv == RInv /\ TInv /\ [Next]_vars => TInv'
<1> SUFFICES ASSUME RInv, TInv, [Next]_vars PROVE TInv'
  OBVIOUS
<1>1. ASSUME Quietly, UNCHANGED calls \/ Puts \/ \E c : Serves(c) PROVE TInv'
  <2>1. \A c \in 1..Len(calls') : calls'[c].ent \in Entities
    BY <1>1, EntsKept DEF TInv, RecordTypes, Puts, Serves
  <2> QED
    BY <1>1, <2>1, QuietTInv
<1> QED
  BY <1>1, StepTInv, RestartTInv, Steps

(* No call is in progress at the start.                                    *)
LEMMA InitTInv == Init => TInv
<1> SUFFICES ASSUME Init PROVE TInv
  OBVIOUS
<1>1. ASSUME NEW t \in Threads PROVE StackOK(t) /\ UuidKnown(t)
  <2>1. pc[t] = "idle" /\ frames[t] = <<>>
    BY DEF Init
  <2> QED
    BY <2>1, NoStack DEF StackOK, UuidKnown, Found, Read, Getting
<1>2. StackInv
  <2>1. DOMAIN frames = Threads /\ pc \in [Threads -> Labels]
    BY DEF Init, Labels
  <2>2. plan \in [Threads -> Seq({"register", "unregister", "create_relationship", "set_properties"} \X Entities)]
    BY IoTCCAssumption DEF Init
  <2> QED
    BY <1>1, <2>1, <2>2 DEF StackInv
<1>3. RecordTypes
  <2>1. Len(calls) = 0 /\ \A c : c \notin 1..0
    BY SMTT(30) DEF Init
  <2>2. IsFile(NoFile) /\ \A u : IsFile([name |-> u, props |-> {}, fresh |-> TRUE])
    BY SMTT(30) DEF IsFile, NoFile
  <2>3. DOMAIN files = Entities /\ \A u \in Entities : IsFile(files[u])
    <3>1. files = [u \in Entities |-> IF u \in Registered
                     THEN [name |-> u, props |-> {}, fresh |-> TRUE] ELSE NoFile]
      BY DEF Init
    <3> QED
      BY <2>2, <3>1
  <2>4. reg \in [Entities -> Entities \cup {None}]
    BY DEF Init
  <2>5. DOMAIN history = {"raced", "overlapped", "mixed", "kept", "unwritten"}
    BY SMTT(30) DEF Init
  <2> QED
    BY <2>1, <2>3, <2>4, <2>5 DEF RecordTypes
<1> QED
  BY <1>1, <1>2, <1>3 DEF TInv

=============================================================================
