---------------------------- MODULE IoTCCRecords ----------------------------
(***************************************************************************)
(* Theorems about the records that IotControlCenter keeps: the file of     *)
(* each entity, and self.reg_entity_id, for any threads, entities and      *)
(* plans.  They rest on TInv of IoTCCProofs and, in turn, on               *)
(*   FileInv   the lock is held from the read of an entity file to its     *)
(*             write, so that what was stored is never lost;               *)
(*   MsgInv    an answer says what has become of the request that it is    *)
(*             to, and WaitInv, a thread waits for its own request;        *)
(*   AccInv    so what a call finds, reads and writes was accepted.        *)
(***************************************************************************)
EXTENDS IoTCCProofs

USE ZenonT(30)

-----------------------------------------------------------------------------
(* The lock, and which uuid belongs to which entity.                       *)

(* file_ops_lock is held from the read of an entity file to its write.     *)
LockInv == \A t \in Threads : Holding(t) => file_ops_lock = t

(* A call is about the uuid of its entity.                                 *)
ThreadUuid(t) ==
  /\ pc[t] # "idle" /\ Top(t).op # "register" => Top(t).uuid = Top(t).ent
  /\ Read(t) => Base(t).uuid = Base(t).ent

UuidInv ==
  ~history.mixed =>
    /\ \A e \in Entities : reg[e] \in {None, e}
    /\ \A t \in Threads : ThreadUuid(t)

(* What a step of a thread writes to the history.                          *)
LEMMA MixedIs ==
  ASSUME TInv, NEW X, history' = [history EXCEPT !.mixed = @ \/ X]
  PROVE  /\ history'.mixed = (history.mixed \/ X) /\ history'.kept = history.kept
         /\ history'.unwritten = history.unwritten /\ history'.overlapped = history.overlapped
  BY DEF TInv, RecordTypes

(* A thread holds the lock or does not; another keeps it.                  *)
LEMMA EffectLock ==
  ASSUME TInv, LockInv, NEW t \in Threads, Effect(t)
  PROVE  /\ Holding(t)' => file_ops_lock' = t
         /\ \A u \in Threads \ {t} : Holding(u) => file_ops_lock' = u
<1> USE DEF LockInv
<1>0. None \notin Threads
  BY IoTCCAssumption
<1>1. CASE Gone(t)
  BY <1>1, GoneTyped DEF Gone, Left
<1>2. CASE Goes(t)
  <2>1. UNCHANGED file_ops_lock
    BY <1>2 DEF Goes
  <2> QED
    BY <1>2, <2>1, GoesTop
<1>3. CASE Starts(t)
  <2>1. UNCHANGED file_ops_lock
    BY <1>3 DEF Starts
  <2> QED
    BY <1>3, <2>1, StartsTyped
<1>4. CASE Answers(t)
  BY <1>4, AnswersTyped DEF Answers
<1>5. CASE Gets(t)
  <2>1. UNCHANGED file_ops_lock
    BY <1>5 DEF Gets
  <2>2. Getting(t)
    BY <1>5, GetsTyped
  <2> QED
    BY <2>1, <2>2 DEF Holding, Read
<1>6. CASE Writes(t)
  <2>1. UNCHANGED file_ops_lock /\ Holding(t)
    BY <1>6 DEF Writes, Holding, Read
  <2> QED
    BY <2>1
<1>7. CASE Fills(t)
  <2>1. Holding(t) /\ ~Holding(t)'
    BY <1>7, FillsTyped DEF Holding
  <2> QED
    BY <2>1
<1>8. CASE Registers(t)
  BY <1>0, <1>8 DEF Registers
<1>9. CASE Fetches(t)
  <2>1. /\ file_ops_lock' = t
        /\ pc[t] = "attributes" \/ file_ops_lock = None
    BY <1>9 DEF Fetches
  <2>2. Holding(t) \/ file_ops_lock = None
    BY <2>1 DEF Holding
  <2> QED
    BY <1>0, <2>1, <2>2
<1>10. CASE Finishes(t)
  <2>1. ~Holding(t)'
    BY <1>10, FinishesTyped
  <2>2. UNCHANGED file_ops_lock \/ file_ops_lock' = IF file_ops_lock = t THEN None ELSE file_ops_lock
    BY <1>10 DEF Finishes
  <2> QED
    BY <2>1, <2>2
<1> QED
  BY <1>1, <1>2, <1>3, <1>4, <1>5, <1>6, <1>7, <1>8, <1>9, <1>10 DEF Effect

(* The uuid that a step of a thread uses, or gives to an entity.           *)
LEMMA EffectUuid ==
  ASSUME TInv, UuidInv, NEW t \in Threads, Effect(t), ~history'.mixed
  PROVE  ~history.mixed /\ ThreadUuid(t)' /\ \A e \in Entities : reg'[e] \in {None, e}
<1> DEFINE Rest == ~history.mixed /\ UNCHANGED reg
<1>0. /\ Rest => \A e \in Entities : reg'[e] \in {None, e}
      /\ ~history.mixed => ThreadUuid(t)
      /\ pc \in [Threads -> Labels]
  BY DEF UuidInv, TInv, StackInv
<1>1. CASE Gone(t)
  <2>1. Rest /\ pc'[t] = "idle" /\ ~Read(t)'
    BY <1>0, <1>1, GoneTyped, MovedPc DEF Gone, Left, SameHistory, Recs
  <2> QED
    BY <1>0, <2>1 DEF ThreadUuid
<1>2. CASE Goes(t)
  <2>1. Rest /\ pc[t] # "idle"
    <3>1. pc[t] \in {"next_id", "incr", "double", "wait", "forget"} /\ UNCHANGED Recs /\ SameHistory
      BY <1>2 DEF Goes
    <3> QED
      BY <3>1 DEF SameHistory, Recs
  <2>2. /\ (Top(t)').op = Top(t).op /\ (Top(t)').uuid = Top(t).uuid /\ (Top(t)').ent = Top(t).ent
        /\ Read(t)' => Read(t) /\ Base(t)' = Base(t)
    <3>1. Read(t) => Found(t)
      BY DEF Read, Found
    <3> QED
      BY <1>2, <3>1, GoesTop DEF SameFrame
  <2> QED
    BY <1>0, <2>1, <2>2 DEF ThreadUuid
<1>3. CASE Starts(t)
  <2>1. PICK f : /\ frames'[t] = <<f>> /\ IsFrame(f) /\ (f.op # "register" => f.uuid = reg[f.ent])
                 /\ UNCHANGED reg /\ history'.mixed = history.mixed
    BY <1>3, SMTT(30) DEF Starts, Recs
  <2>2. Rest /\ Top(t)' = f /\ ~Read(t)'
    BY <1>3, <2>1, OneIs, StartsTyped DEF Top
  <2>3. f.op # "register" => f.uuid = f.ent
    <3>1. f.ent \in Entities /\ (f.op # "register" => f.uuid \in Entities)
      BY <2>1 DEF IsFrame
    <3> QED
      BY <2>1, <2>2, <3>1, IoTCCAssumption DEF UuidInv
  <2> QED
    BY <1>0, <2>2, <2>3 DEF ThreadUuid
<1>4. CASE Answers(t)
  <2>1. Rest /\ pc[t] # "idle" /\ Top(t)' = Top(t) /\ ~Read(t)'
    BY <1>4, AnswersTyped DEF Answers, SameHistory, Top
  <2> QED
    BY <1>0, <2>1 DEF ThreadUuid
<1>5. CASE Gets(t)
  <2>1. Rest
    BY <1>5 DEF Gets, Recs
  <2>2. Read(t) /\ Top(t)' = Base(t)' /\ (Base(t)').uuid = Base(t).uuid /\ (Base(t)').ent = Base(t).ent
    BY <1>5, GetsTyped DEF Read
  <2> QED
    BY <1>0, <2>1, <2>2 DEF ThreadUuid
<1>6. CASE Writes(t)
  <2>1. Rest /\ Read(t) /\ Top(t)' = Top(t) /\ Base(t)' = Base(t) /\ pc[t] # "idle"
    BY <1>6, WritesTyped DEF Writes
  <2> QED
    BY <1>0, <2>1 DEF ThreadUuid

<1>7. CASE Fills(t)
  <2>1. ~Read(t)' /\ Base(t) = Top(t) /\ Read(t) /\ Top(t).ent \in Entities
    BY <1>7, FillsTyped DEF IsFrame
  <2>0. history'.mixed = history.mixed /\ UNCHANGED reg_entity_id
    BY <1>7 DEF Fills
  <2>2. CASE Top(t).op = "register" /\ Moved(t, "return") /\ frames'[t] = frames[t]
             /\ file_ops_lock' = None /\ UNCHANGED reg
    <3>1. Rest /\ Top(t)' = Top(t)
      BY <2>0, <2>2 DEF Top
    <3> QED
      BY <1>0, <2>1, <2>2, <3>1 DEF ThreadUuid
  <2>3. CASE /\ Top(t).op = "set_properties" /\ Moved(t, "idle") /\ frames'[t] = <<>>
             /\ file_ops_lock' = IF file_ops_lock = t THEN None ELSE file_ops_lock
             /\ reg' = IF Top(t).ret THEN [reg EXCEPT ![Top(t).ent] = Top(t).uuid] ELSE reg
    <3>1. history'.mixed = history.mixed /\ pc'[t] = "idle"
      BY <1>0, <2>0, <2>3, MovedPc
    <3>2. Top(t).uuid = Top(t).ent
      BY <1>0, <2>1, <3>1 DEF ThreadUuid
    <3>3. ASSUME NEW e \in Entities PROVE reg'[e] \in {None, e}
      <4>1. reg[e] \in {None, e} /\ reg \in [Entities -> Entities \cup {None}]
        BY <3>1 DEF UuidInv, TInv, RecordTypes
      <4>2. reg' = reg \/ reg' = [reg EXCEPT ![Top(t).ent] = Top(t).uuid]
        BY <2>3
      <4> QED
        BY <2>1, <3>2, <4>1, <4>2
    <3> QED
      BY <2>1, <3>1, <3>3 DEF ThreadUuid
  <2> QED
    BY <1>7, <2>2, <2>3 DEF Fills
<1>8. CASE Registers(t)
  <2>1. history'.mixed = (history.mixed \/ reg_entity_id # Top(t).ent)
    BY <1>8, MixedIs DEF Registers
  <2>2. Rest /\ ~Read(t)' /\ Top(t)' = Top(t) /\ Top(t).op = "register"
    BY <1>8, <2>1, RegistersTyped DEF Registers, Recs
  <2> QED
    BY <1>0, <2>2 DEF ThreadUuid
<1>9. CASE Fetches(t)
  <2>1. PICK f : /\ f.uuid = UuidOf(t) /\ f.ent = Top(t).ent /\ UNCHANGED reg
                 /\ history' = [history EXCEPT !.mixed = @ \/ f.uuid # f.ent]
    BY <1>9 DEF Fetches, Recs
  <2>2. history'.mixed = (history.mixed \/ f.uuid # f.ent)
    BY <2>1, MixedIs
  <2>3. Rest /\ UuidOf(t) = Top(t).ent
    BY <2>1, <2>2
  <2>4. /\ (Base(t)').uuid = UuidOf(t) /\ (Base(t)').ent = Top(t).ent
        /\ Base(t)' = Top(t)' \/ ((Top(t)').uuid = UuidOf(t) /\ (Top(t)').ent = Top(t).ent)
    BY <1>9, FetchesTyped
  <2> QED
    BY <1>0, <2>3, <2>4 DEF ThreadUuid
<1>10. CASE Finishes(t)
  <2>1. history'.mixed = (history.mixed \/ reg_entity_id # Top(t).ent)
    BY <1>10, MixedIs DEF Finishes
  <2>2. ~history.mixed /\ reg_entity_id = Top(t).ent
    BY <2>1
  <2>3. ~Read(t)' /\ Top(t).ent \in Entities
    BY <1>10, FinishesTyped DEF IsFrame
  <2>4. /\ pc'[t] = "idle" \/ (Top(t)').uuid = (Top(t)').ent
        /\ reg' = reg \/ reg' = [reg EXCEPT ![Top(t).ent] = reg_entity_id]
    <3>1. CASE Moved(t, "idle") /\ reg' = [reg EXCEPT ![Top(t).ent] = reg_entity_id]
      BY <1>0, <3>1, MovedPc
    <3>2. CASE /\ Moved(t, "next_id") /\ UNCHANGED <<reg, file_ops_lock>>
               /\ \E ps : Pushed(frames[t], Frame("set_properties", Top(t).ent, reg_entity_id, ps, TRUE), frames'[t])
      <4>1. PICK ps, f : /\ f = Frame("set_properties", Top(t).ent, reg_entity_id, ps, TRUE)
                         /\ frames'[t][1] = f
        BY <3>2 DEF Pushed
      <4>2. f.uuid = reg_entity_id /\ f.ent = Top(t).ent /\ Top(t)' = f
        <5>1. PICK op, e, u, b :
                /\ op = "set_properties" /\ e = Top(t).ent /\ u = reg_entity_id /\ b = TRUE
                /\ f = Frame(op, e, u, ps, b)
          BY <4>1
        <5>2. f = Frame(op, e, u, ps, b)
          BY <5>1
        <5>3. f.uuid = u /\ f.ent = e
          BY SMTT(30), <5>2 DEF Frame
        <5>4. Top(t)' = f
          BY <4>1 DEF Top
        <5> QED
          BY <5>1, <5>3, <5>4
      <4> QED
        BY <2>2, <3>2, <4>2
    <3> QED
      BY <1>10, <3>1, <3>2 DEF Finishes
  <2>5. ASSUME NEW e \in Entities PROVE reg'[e] \in {None, e}
    <3>1. reg[e] \in {None, e} /\ reg \in [Entities -> Entities \cup {None}]
      BY <2>2 DEF UuidInv, TInv, RecordTypes
    <3> QED
      BY <2>2, <2>3, <2>4, <3>1
  <2> QED
    BY <2>2, <2>3, <2>4, <2>5 DEF ThreadUuid
<1> QED
  BY <1>1, <1>2, <1>3, <1>4, <1>5, <1>6, <1>7, <1>8, <1>9, <1>10 DEF Effect

(* The calls in a stack, after a change of its first frames.               *)
Within(r, s) == \A j \in DOMAIN r : r[j].op = "register" => \E i \in DOMAIN s : s[i].op = "register"

(* A change of the first frame begins no register.                         *)
LEMMA ToppedWithin ==
  ASSUME NEW s, IsSeq(s), s # <<>>, NEW f, NEW r, Topped(s, f, r), f.op = s[1].op PROVE Within(r, s)
<1>1. DOMAIN r = 1..Len(s) /\ DOMAIN s = 1..Len(s) /\ Len(s) \in Nat /\ 1 \in 1..Len(s)
  BY SeqLen, NotEmpty DEF Topped
<1>2. \A j \in 1..Len(s) : j = 1 \/ j \in 2..Len(s)
  BY SMTT(30), <1>1
<1> QED
  BY <1>1, <1>2 DEF Within, Topped

(* Nor does a call of get_properties or set_properties.                    *)
LEMMA PushedWithin ==
  ASSUME NEW s, IsSeq(s), NEW f, NEW r, Pushed(s, f, r), f.op # "register" PROVE Within(r, s)
<1>1. DOMAIN r = 1..(Len(s) + 1) /\ DOMAIN s = 1..Len(s) /\ Len(s) \in Nat
  BY SeqLen DEF Pushed
<1>2. ASSUME NEW j \in 1..(Len(s) + 1), r[j].op = "register" PROVE \E i \in 1..Len(s) : s[i].op = "register"
  <2>1. j # 1
    BY <1>2 DEF Pushed
  <2>2. j - 1 \in 1..Len(s) /\ j = (j - 1) + 1
    BY SMTT(30), <1>1, <2>1
  <2>3. PICK i \in 1..Len(s) : j = i + 1
    BY <2>2
  <2> QED
    BY <1>2, <2>3 DEF Pushed
<1> QED
  BY <1>1, <1>2 DEF Within

(* Nor does a return.                                                      *)
LEMMA PoppedWithin ==
  ASSUME NEW s, IsSeq(s), NEW r, Popped(s, r) PROVE Within(r, s)
<1>1. DOMAIN r = 1..Len(r) /\ Len(r) = Len(s) - 1 /\ DOMAIN s = 1..Len(s) /\ Len(s) \in Nat
  BY SeqLen DEF Popped
<1>2. \A j \in 1..Len(r) : j + 1 \in 1..Len(s)
  BY SMTT(30), <1>1
<1> QED
  BY <1>1, <1>2 DEF Within, Popped

(* A call that stores for register is inside register.                     *)
LEMMA BaseRegisters ==
  ASSUME TInv, NEW t \in Threads, Found(t), Base(t).op = "register" PROVE Registering(t)
<1>1. pc[t] # "idle"
  BY DEF Found, Getting
<1>2. IsSeq(frames[t]) /\ frames[t] # <<>> /\ Stack(frames[t])
  BY <1>1, HasTop
<1>3. Len(frames[t]) \in Nat /\ DOMAIN frames[t] = 1..Len(frames[t]) /\ 1 \in 1..Len(frames[t])
  BY <1>2, SeqLen, NotEmpty
<1>4. Getting(t) => 2 \in 1..Len(frames[t])
  <2>1. Getting(t) => 1 < Len(frames[t])
    BY <1>2, <1>3 DEF Stack, Getting, Top
  <2> QED
    BY SMTT(30), <1>3, <2>1
<1> QED
  BY <1>3, <1>4 DEF Registering, Base, Top

(* No call of register begins but where it is called.                      *)
LEMMA EffectRegistering ==
  ASSUME TInv, NEW t \in Threads, Effect(t), ~Starts(t) PROVE Registering(t)' => Registering(t)
<1>0. pc \in [Threads -> Labels] /\ (Within(frames'[t], frames[t]) => (Registering(t)' => Registering(t)))
  BY DEF TInv, StackInv, Within, Registering
<1>1. ASSUME frames'[t] = frames[t] PROVE Registering(t)' => Registering(t)
  BY <1>1 DEF Registering
<1>2. CASE Gone(t)
  BY <1>2, GoneTyped DEF Left
<1>3. CASE Goes(t)
  <2>1. PICK f : /\ pc[t] \in {"next_id", "incr", "double", "wait", "forget"}
                 /\ Topped(frames[t], f, frames'[t]) /\ f.op = Top(t).op
    BY SMTT(30), <1>3 DEF Goes, SameFrame
  <2>2. IsSeq(frames[t]) /\ frames[t] # <<>>
    BY <2>1, HasTop
  <2> QED
    BY <1>0, <2>1, <2>2, ToppedWithin DEF Top
<1>4. CASE Answers(t) \/ Registers(t)
  BY <1>1, <1>4 DEF Answers, Registers
<1>5. CASE Gets(t)
  <2>1. PICK g, p : /\ pc[t] = "wait" /\ Getting(t) /\ Popped(frames[t], p) /\ Topped(p, g, frames'[t])
                    /\ g.op = frames[t][2].op
    BY SMTT(30), <1>5 DEF Gets
  <2>2. IsSeq(frames[t]) /\ frames[t] # <<>> /\ Stack(frames[t]) /\ frames[t][1].op = "get_properties"
    BY <2>1, HasTop DEF Getting, Top
  <2>3. p # <<>> /\ p[1] = frames[t][2] /\ IsSeq(p)
    BY <2>1, <2>2, PoppedStack DEF Popped
  <2>4. Within(p, frames[t]) /\ Within(frames'[t], p)
    BY <2>1, <2>2, <2>3, PoppedWithin, ToppedWithin
  <2> QED
    BY <1>0, <2>4 DEF Within
<1>6. CASE Writes(t)
  BY <1>1, <1>6 DEF Writes
<1>7. CASE Fills(t)
  BY <1>1, <1>7, FillsTyped DEF Left
<1>8. CASE Fetches(t)
  <2>1. PICK f, r :
          /\ pc[t] \in {"lock", "attributes"} /\ (pc[t] = "lock" => file_ops_lock = None)
          /\ file_ops_lock' = t /\ UNCHANGED Recs /\ files[UuidOf(t)] # Broken
          /\ IsFrame(f) /\ f.op = Top(t).op /\ f.ent = Top(t).ent /\ f.props = Top(t).props
          /\ f.uuid = UuidOf(t) /\ f.dict = files[UuidOf(t)] /\ Topped(frames[t], f, r)
          /\ \/ Moved(t, "write") /\ frames'[t] = r
             \/ Moved(t, "next_id") /\ Pushed(r, Frame("get_properties", f.ent, f.uuid, {}, FALSE), frames'[t])
          /\ history' = [history EXCEPT !.mixed = @ \/ f.uuid # f.ent]
    BY <1>8 DEF Fetches
  <2>2. IsSeq(frames[t]) /\ frames[t] # <<>>
    BY <2>1, HasTop
  <2>3. Within(r, frames[t]) /\ IsSeq(r)
    BY <2>1, <2>2, ToppedWithin DEF Top, Topped
  <2>4. frames'[t] = r \/ Within(frames'[t], r)
    <3>1. PICK h : h = Frame("get_properties", f.ent, f.uuid, {}, FALSE)
      OBVIOUS
    <3>2. h.op = "get_properties"
      BY SMTT(30), <3>1 DEF Frame
    <3>3. frames'[t] = r \/ Pushed(r, h, frames'[t])
      BY <2>1, <3>1
    <3> QED
      BY <2>3, <3>2, <3>3, PushedWithin
  <2> QED
    BY <1>0, <2>3, <2>4 DEF Within
<1>9. CASE Finishes(t)
  <2>1. IsSeq(frames[t]) /\ frames[t] # <<>> /\ Top(t).op = "register"
    BY <1>9, FinishesTyped, HasTop DEF Finishes
  <2>2. 1 \in DOMAIN frames[t]
    BY <2>1, SeqLen, NotEmpty
  <2> QED
    BY <2>1, <2>2 DEF Registering, Top
<1> QED
  BY <1>2, <1>3, <1>4, <1>5, <1>6, <1>7, <1>8, <1>9 DEF Effect

(* As long as no two calls of register overlap, self.reg_entity_id is that *)
(* of the entity whose register uses it.                                   *)
OwnId(t) == Found(t) /\ Base(t).op = "register" => reg_entity_id = Base(t).ent

OwnInv ==
  ~history.overlapped =>
    /\ ~history.mixed
    /\ \A t, u \in Threads : Registering(t) /\ Registering(u) => t = u
    /\ \A t \in Threads : OwnId(t)

(* Two calls of register overlap only when the second begins.              *)
LEMMA EffectOverlap ==
  ASSUME TInv, OwnInv, NEW t \in Threads, Effect(t), ~history'.overlapped
  PROVE  ~history.overlapped /\ (Registering(t)' => \A u \in Threads \ {t} : ~Registering(u))
<1>1. CASE Starts(t)
  <2>1. PICK f : /\ frames'[t] = <<f>>
                 /\ history'.overlapped =
                      (history.overlapped \/ (f.op = "register" /\ \E u \in Threads \ {t} : Registering(u)))
    BY <1>1, SMTT(30) DEF Starts
  <2>2. Registering(t)' => f.op = "register"
    <3>1. DOMAIN <<f>> = {1} /\ <<f>>[1] = f
      BY SMTT(30)
    <3> QED
      BY <2>1, <3>1 DEF Registering
  <2> QED
    BY <2>1, <2>2
<1>2. CASE ~Starts(t)
  <2>1. history'.overlapped = history.overlapped
    <3>1. CASE Gone(t) \/ Answers(t)
      BY <3>1 DEF Gone, Answers, SameHistory
    <3>2. CASE Goes(t)
      BY <3>2 DEF Goes, SameHistory
    <3>3. CASE Gets(t)
      BY <3>3 DEF Gets
    <3>4. CASE Writes(t)
      BY <3>4 DEF Writes
    <3>5. CASE Fills(t)
      BY <3>5 DEF Fills
    <3>6. CASE Registers(t)
      BY <3>6, MixedIs DEF Registers
    <3>7. CASE Fetches(t)
      <4>1. PICK X : history' = [history EXCEPT !.mixed = @ \/ X]
        BY <3>7 DEF Fetches
      <4> QED
        BY <4>1, MixedIs
    <3>8. CASE Finishes(t)
      BY <3>8, MixedIs DEF Finishes
    <3> QED
      BY <1>2, <3>1, <3>2, <3>3, <3>4, <3>5, <3>6, <3>7, <3>8 DEF Effect
  <2> QED
    BY <1>2, <2>1, EffectRegistering DEF OwnInv
<1> QED
  BY <1>1, <1>2

(* No step then uses the uuid of another entity.                           *)
LEMMA EffectOwn ==
  ASSUME TInv, UuidInv, OwnInv, NEW t \in Threads, Effect(t), ~history.overlapped
  PROVE  /\ ~history'.mixed /\ OwnId(t)'
         /\ \A u \in Threads \ {t} : OwnId(u) /\ Base(u).op = "register" /\ Found(u)
                                     => reg_entity_id' = reg_entity_id
<1>0. ~history.mixed /\ OwnId(t) /\ ThreadUuid(t)
  BY DEF OwnInv, UuidInv
<1>1. CASE Gone(t)
  BY <1>0, <1>1, GoneTyped DEF Gone, Left, SameHistory, Recs, OwnId
<1>2. CASE Goes(t)
  <2>1. history'.mixed = history.mixed /\ UNCHANGED reg_entity_id
    BY <1>2 DEF Goes, SameHistory, Recs
  <2> QED
    BY <1>0, <1>2, <2>1, GoesTop DEF OwnId
<1>3. CASE Starts(t)
  <2>1. history'.mixed = history.mixed /\ UNCHANGED reg_entity_id
    BY <1>3 DEF Starts, Recs
  <2> QED
    BY <1>0, <1>3, <2>1, StartsTyped DEF OwnId
<1>4. CASE Answers(t)
  <2>1. history'.mixed = history.mixed /\ pc[t] = "wait" /\ Base(t)' = Top(t)
    BY <1>4, AnswersTyped DEF Answers, SameHistory
  <2>2. CASE Top(t).op # "register"
    BY <1>0, <1>4, <2>1, <2>2 DEF Answers, OwnId
  <2>3. CASE Top(t).op = "register"
    <3>1. reg_entity_id' = Top(t).ent
      BY <1>4, <2>3 DEF Answers
    <3>2. Registering(t)
      <4>1. IsSeq(frames[t]) /\ frames[t] # <<>>
        BY <2>1, HasTop
      <4>2. 1 \in DOMAIN frames[t]
        BY <4>1, SeqLen, NotEmpty
      <4> QED
        BY <2>3, <4>2 DEF Registering, Top
    <3>3. ASSUME NEW u \in Threads, u # t, Found(u), Base(u).op = "register" PROVE FALSE
      BY <3>2, <3>3, BaseRegisters DEF OwnInv
    <3> QED
      BY <1>0, <2>1, <3>1, <3>3 DEF OwnId
  <2> QED
    BY <2>2, <2>3
<1>5. CASE Gets(t)
  <2>1. UNCHANGED <<history, reg_entity_id>>
    BY <1>5 DEF Gets, Recs
  <2>2. Found(t) /\ (Base(t)').op = Base(t).op /\ (Base(t)').ent = Base(t).ent
    BY <1>5, GetsTyped DEF Found
  <2> QED
    BY <1>0, <2>1, <2>2 DEF OwnId
<1>6. CASE Writes(t)
  <2>1. Found(t) /\ Base(t)' = Base(t) /\ UNCHANGED <<history, reg_entity_id>>
    BY <1>6, WritesTyped DEF Writes
  <2> QED
    BY <1>0, <2>1 DEF OwnId
<1>7. CASE Fills(t)
  <2>1. history'.mixed = history.mixed /\ UNCHANGED reg_entity_id
    BY <1>7 DEF Fills
  <2>2. Found(t) /\ (~Found(t)' \/ Base(t)' = Base(t))
    BY <1>7, FillsTyped DEF Left
  <2> QED
    BY <1>0, <2>1, <2>2 DEF OwnId
<1>8. CASE Registers(t)
  <2>1. history'.mixed = (history.mixed \/ reg_entity_id # Top(t).ent)
    BY <1>8 DEF Registers, TInv, RecordTypes
  <2>2. /\ Found(t) /\ Base(t) = Top(t) /\ Base(t)' = Base(t) /\ UNCHANGED reg_entity_id
        /\ Top(t).op = "register"
    BY <1>8, RegistersTyped DEF Registers, Recs
  <2> QED
    BY <1>0, <2>1, <2>2 DEF OwnId
<1>9. CASE Fetches(t)
  <2>1. PICK f : /\ f.uuid = UuidOf(t) /\ f.ent = Top(t).ent
                 /\ history' = [history EXCEPT !.mixed = @ \/ f.uuid # f.ent]
    BY <1>9 DEF Fetches
  <2>2. history'.mixed = (history.mixed \/ f.uuid # f.ent)
    BY <2>1 DEF TInv, RecordTypes
  <2>3. UNCHANGED reg_entity_id /\ pc[t] # "idle"
    BY <1>9 DEF Fetches, Recs
  <2>4. Found(t) /\ Base(t) = Top(t) /\ (Base(t)').op = Base(t).op /\ (Base(t)').ent = Base(t).ent
    BY <1>9, FetchesTyped
  <2>5. UuidOf(t) = Top(t).ent
    BY <1>0, <2>3, <2>4 DEF OwnId, ThreadUuid, UuidOf
  <2> QED
    BY <1>0, <2>1, <2>2, <2>3, <2>4, <2>5 DEF OwnId
<1>10. CASE Finishes(t)
  <2>1. history'.mixed = (history.mixed \/ reg_entity_id # Top(t).ent)
    BY <1>10 DEF Finishes, TInv, RecordTypes
  <2>2. /\ Found(t) /\ Base(t) = Top(t) /\ Top(t).op = "register" /\ ~Found(t)'
        /\ UNCHANGED reg_entity_id
    BY <1>10, FinishesTyped DEF Finishes
  <2> QED
    BY <1>0, <2>1, <2>2 DEF OwnId
<1> QED
  BY <1>1, <1>2, <1>3, <1>4, <1>5, <1>6, <1>7, <1>8, <1>9, <1>10 DEF Effect

-----------------------------------------------------------------------------
(* What set_properties has stored stays in the file.                       *)

(* File f has what call k of set_properties stored.                        *)
Has(f, k) == f.name = k.ent /\ k.props \subseteq f.props

Stored(k) ==
  IF files[k.uuid] = Broken THEN epoch > 0 \/ BeingWritten(k.uuid) \/ k.uuid \in history.unwritten
  ELSE Has(files[k.uuid], k)

(* So has what a thread has read of it to write it again.                  *)
ReadKept(t) == \A k \in history.kept : Read(t) /\ k.uuid = Base(t).uuid => Has(Base(t).dict, k)

KeptInv ==
  ~history.mixed =>
    /\ \A k \in history.kept : k.uuid = k.ent /\ k.ent \in Entities /\ Stored(k)
    /\ \A t \in Threads : ReadKept(t)

(* A thread that writes a file goes on writing it.                         *)
LEMMA StillWritten ==
  ASSUME TInv, LockInv, NEW t \in Threads, Effect(t), NEW l, Moved(t, l), pc[t] # "fill",
         NEW v, BeingWritten(v)
  PROVE  BeingWritten(v)'
<1>1. PICK u \in Threads : file_ops_lock = u /\ pc[u] = "fill" /\ Top(u).uuid = v
  BY DEF BeingWritten
<1>2. u # t /\ Holding(u)
  BY <1>1 DEF Holding, Read
<1>3. file_ops_lock' = u
  BY <1>2, EffectLock
<1>4. pc'[u] = pc[u] /\ Top(u)' = Top(u)
  BY <1>2, OtherThread DEF TInv, StackInv
<1> QED
  BY <1>1, <1>3, <1>4 DEF BeingWritten

(* The history of the calls changes where one returns.                     *)
LEMMA EffectKept ==
  ASSUME TInv, NEW t \in Threads, Effect(t), ~Fills(t)
  PROVE  history'.kept = history.kept /\ history'.unwritten = history.unwritten
<1>1. CASE Gone(t) \/ Answers(t)
  BY <1>1 DEF Gone, Answers, SameHistory
<1>2. CASE Goes(t)
  BY <1>2 DEF Goes, SameHistory
<1>3. CASE Starts(t)
  BY <1>3 DEF Starts
<1>4. CASE Gets(t)
  BY <1>4 DEF Gets
<1>5. CASE Writes(t)
  BY <1>5 DEF Writes
<1>6. CASE Registers(t)
  BY <1>6 DEF Registers, TInv, RecordTypes
<1>7. CASE Fetches(t)
  <2>1. PICK X : history' = [history EXCEPT !.mixed = @ \/ X]
    BY <1>7 DEF Fetches
  <2> QED
    BY <2>1, MixedIs
<1>8. CASE Finishes(t)
  BY <1>8 DEF Finishes, TInv, RecordTypes
<1> QED
  BY <1>1, <1>2, <1>3, <1>4, <1>5, <1>6, <1>7, <1>8 DEF Effect

(* The file changes where it is written.                                   *)
LEMMA EffectFiles ==
  ASSUME NEW t \in Threads, Effect(t), ~Fills(t), ~Writes(t) PROVE UNCHANGED files
<1>1. CASE Gone(t) \/ Answers(t) \/ Registers(t) \/ Finishes(t)
  BY <1>1 DEF Gone, Answers, Registers, Finishes, Recs
<1>2. CASE Goes(t)
  BY <1>2 DEF Goes, Recs
<1>3. CASE Starts(t)
  BY <1>3 DEF Starts, Recs
<1>4. CASE Gets(t)
  BY <1>4 DEF Gets, Recs
<1>5. CASE Fetches(t)
  BY <1>5 DEF Fetches, Recs
<1> QED
  BY <1>1, <1>2, <1>3, <1>4, <1>5 DEF Effect

(* What the thread has read has what was stored.                           *)
LEMMA EffectRead ==
  ASSUME TInv, UuidInv, KeptInv, NEW t \in Threads, Effect(t), ~history'.mixed, ~Fills(t)
  PROVE  ReadKept(t)'
<1>0. ~history.mixed /\ ReadKept(t) /\ history'.kept = history.kept
  BY EffectUuid, EffectKept DEF KeptInv
<1>1. ASSUME Read(t)' => Read(t) /\ Base(t)' = Base(t) PROVE ReadKept(t)'
  BY <1>0, <1>1 DEF ReadKept
<1>2. CASE Gone(t)
  BY <1>1, <1>2, GoneTyped DEF Left
<1>3. CASE Goes(t)
  <2>1. Read(t) => Found(t)
    BY DEF Read, Found
  <2> QED
    BY <1>1, <1>3, <2>1, GoesTop
<1>4. CASE Starts(t)
  BY <1>1, <1>4, StartsTyped
<1>5. CASE Answers(t)
  BY <1>1, <1>5, AnswersTyped
<1>6. CASE Gets(t)
  <2>1. /\ Read(t) /\ (Base(t)').uuid = Base(t).uuid
        /\ (Base(t)').dict.name = Base(t).dict.name
        /\ Base(t).dict.props \subseteq (Base(t)').dict.props
    BY <1>6, GetsTyped DEF Read
  <2> QED
    BY <1>0, <2>1 DEF ReadKept, Has
<1>7. CASE Writes(t)
  BY <1>1, <1>7, WritesTyped
<1>8. CASE Registers(t)
  BY <1>1, <1>8, RegistersTyped
<1>9. CASE Fetches(t)
  <2>1. (Base(t)').uuid = UuidOf(t) /\ (Base(t)').dict = files[UuidOf(t)]
    BY <1>9, FetchesTyped
  <2>2. files[UuidOf(t)] # Broken
    BY <1>9 DEF Fetches
  <2> QED
    BY <1>0, <2>1, <2>2 DEF ReadKept, KeptInv, Stored
<1>10. CASE Finishes(t)
  BY <1>1, <1>10, FinishesTyped
<1> QED
  BY <1>2, <1>3, <1>4, <1>5, <1>6, <1>7, <1>8, <1>9, <1>10 DEF Effect

(* The file that is written has what was read of it, and what this call    *)
(* stores; one that is not is known to be unwritten.                       *)
LEMMA FillKeeps ==
  ASSUME TInv, LockInv, UuidInv, KeptInv, NEW t \in Threads, Fills(t), UNCHANGED epoch, ~history'.mixed
  PROVE  /\ ~history.mixed
         /\ \A k \in history'.kept : k.uuid = k.ent /\ k.ent \in Entities /\ Stored(k)'
         /\ ReadKept(t)' /\ \A u \in Threads \ {t} : ~Read(u)
<1>0. ~history.mixed
  BY EffectUuid DEF Effect
<1>1. /\ Read(t) /\ Base(t) = Top(t) /\ Top(t).uuid \in Entities /\ Top(t).ent \in Entities /\ ~Read(t)'
  BY FillsTyped DEF IsFrame
<1>2. PICK v, m : v = Top(t).uuid /\ v \in Entities /\ m = Merged(Top(t))
  BY <1>1
<1>3. Top(t).ent = v /\ v \in Entities
  BY <1>0, <1>1, <1>2 DEF UuidInv, ThreadUuid
<1>4. /\ m # Broken /\ m.name = v
      /\ Top(t).props \subseteq m.props
      /\ Top(t).dict.name = v => Top(t).dict.props \subseteq m.props
  <2>1. PICK ps : /\ m = [name |-> Top(t).ent, fresh |-> TRUE, props |-> ps]
                  /\ ps = Top(t).props \cup IF Top(t).dict.name = Top(t).ent THEN Top(t).dict.props ELSE {}
    BY <1>2 DEF Merged
  <2>2. m.name = Top(t).ent /\ m.props = ps /\ m.fresh = TRUE
    BY <2>1
  <2>3. Broken.fresh = FALSE
    BY DEF Broken
  <2>4. m # Broken
    BY <2>2, <2>3
  <2> QED
    BY <1>3, <2>1, <2>2, <2>4
<1>5. ASSUME NEW k \in history.kept
      PROVE  /\ k.uuid = k.ent /\ k.ent \in Entities /\ Stored(k)
             /\ k.uuid = v => Has(Top(t).dict, k)
             /\ k.uuid # v => ~BeingWritten(k.uuid)
  <2>1. file_ops_lock = t
    BY <1>1 DEF LockInv, Holding
  <2> QED
    BY <1>0, <1>1, <1>2, <2>1 DEF KeptInv, ReadKept, BeingWritten
<1>6. ASSUME Filled(t)
      PROVE  \A k \in history'.kept : k.uuid = k.ent /\ k.ent \in Entities /\ Stored(k)'
  <2>1. files' = [files EXCEPT ![v] = m] /\ history'.unwritten = history.unwritten
    BY <1>2, <1>6 DEF Filled
  <2>2. ASSUME NEW k \in history.kept PROVE Stored(k)'
    <3>1. CASE k.uuid = v
      <4>1. files'[k.uuid] = m
        BY <1>2, <2>1, <3>1 DEF TInv, RecordTypes
      <4>2. Has(m, k)
        BY <1>4, <1>5, <3>1 DEF Has
      <4> QED
        BY <1>4, <4>1, <4>2 DEF Stored
    <3>2. CASE k.uuid # v
      <4>1. files'[k.uuid] = files[k.uuid]
        BY <1>5, <2>1, <3>2 DEF TInv, RecordTypes
      <4> QED
        BY <1>5, <2>1, <3>2, <4>1 DEF Stored
    <3> QED
      BY <3>1, <3>2
  <2>3. ASSUME NEW k, k = Kept(t) PROVE k.uuid = k.ent /\ k.ent \in Entities /\ Stored(k)'
    <3>1. k.uuid = v /\ k.ent = v /\ k.props = Top(t).props
      BY <1>2, <1>3, <2>3 DEF Kept
    <3>2. files'[v] = m
      BY <1>2, <2>1 DEF TInv, RecordTypes
    <3> QED
      BY <1>3, <1>4, <3>1, <3>2 DEF Stored, Has
  <2>4. \A k \in history'.kept : k \in history.kept \/ k = Kept(t)
    BY <1>6 DEF Filled
  <2> QED
    BY <1>5, <2>2, <2>3, <2>4
<1>7. ASSUME Unfilled(t)
      PROVE  \A k \in history'.kept : k.uuid = k.ent /\ k.ent \in Entities /\ Stored(k)'
  <2>1. files' = files /\ history'.kept = history.kept /\ history'.unwritten = history.unwritten \cup {v}
    BY <1>2, <1>7 DEF Unfilled
  <2>2. ASSUME NEW k \in history.kept PROVE Stored(k)'
    <3>1. CASE files[k.uuid] = Broken
      <4>1. epoch > 0 \/ k.uuid = v \/ k.uuid \in history.unwritten
        BY <1>5, <3>1 DEF Stored
      <4> QED
        BY <2>1, <3>1, <4>1 DEF Stored
    <3>2. CASE files[k.uuid] # Broken
      BY <1>5, <2>1, <3>2 DEF Stored
    <3> QED
      BY <3>1, <3>2
  <2> QED
    BY <1>5, <2>1, <2>2
<1>8. ReadKept(t)' /\ \A u \in Threads \ {t} : ~Read(u)
  BY <1>1 DEF ReadKept, LockInv, Holding
<1>9. Filled(t) \/ Unfilled(t)
  BY DEF Fills
<1>10. \A k \in history'.kept : k.uuid = k.ent /\ k.ent \in Entities /\ Stored(k)'
  BY <1>6, <1>7, <1>9
<1> QED
  BY <1>0, <1>8, <1>10

(* Writing begins with an empty file.                                      *)
LEMMA WriteKeeps ==
  ASSUME TInv, LockInv, NEW t \in Threads, Writes(t), UNCHANGED epoch,
         NEW k, k.uuid \in Entities, Stored(k)
  PROVE  Stored(k)'
<1>1. Effect(t) /\ Moved(t, "fill") /\ pc[t] = "write" /\ history' = history
  BY DEF Effect, Writes
<1>2. BeingWritten(k.uuid) => BeingWritten(k.uuid)'
  BY <1>1, StillWritten
<1>3. /\ Top(t)' = Top(t) /\ pc'[t] = "fill" /\ file_ops_lock' = t /\ Top(t).uuid \in Entities
      /\ files' = [files EXCEPT ![Top(t).uuid] = Broken]
  <2>1. Holding(t)
    BY <1>1 DEF Holding, Read
  <2> QED
    BY <2>1, WritesTyped DEF Writes, LockInv
<1>4. CASE k.uuid = Top(t).uuid
  <2>1. files'[k.uuid] = Broken /\ BeingWritten(k.uuid)'
    BY <1>3, <1>4 DEF BeingWritten, TInv, RecordTypes
  <2> QED
    BY <2>1 DEF Stored
<1>5. CASE k.uuid # Top(t).uuid
  <2>1. files'[k.uuid] = files[k.uuid]
    BY <1>3, <1>5 DEF TInv, RecordTypes
  <2> QED
    BY <1>1, <1>2, <2>1 DEF Stored
<1> QED
  BY <1>4, <1>5

(* A thread that writes does nothing else, and no call restarts anything.  *)
LEMMA FillOnly ==
  ASSUME NEW t \in Threads, Step(t) \/ Call(t)
  PROVE  UNCHANGED epoch /\ (pc[t] = "fill" => fill_entity_file(t))
<1>1. CASE Call(t)
  BY <1>1 DEF Call, register, unregister, create_relationship, publish_unit, set_properties, Start
<1>2. CASE Step(t)
  BY <1>2 DEF Step, next_id_read, next_id_write, Ask, Timeout, FoundResource, WaitAgain, PropertiesSet,
     PropertiesGot, Unregistered, Related, Refused, Answered, store_reg_entity_details,
     store_reg_entity_attributes, write_entity_file, fill_entity_file, StoreDone, MakeRegisteredEntity,
     remove_reg_entity_details, store_device_removed, program
<1> QED
  BY <1>1, <1>2

(* The invariant of the records.                                           *)
FileInv == LockInv /\ UuidInv /\ OwnInv /\ KeptInv

(* A step of a thread preserves it.                                        *)
LEMMA StepFileInv ==
  ASSUME TInv, FileInv, NEW t \in Threads, Step(t) \/ Call(t) PROVE FileInv'
<1> USE DEF FileInv
<1>1. Effect(t) /\ UNCHANGED epoch /\ (pc[t] = "fill" => Fills(t))
  BY AllEffects, FillOnly, FillEffects
<1>2. PICK l : Moved(t, l)
  BY AllEffects
<1>3. ASSUME NEW u \in Threads, u # t
      PROVE  /\ pc'[u] = pc[u] /\ Top(u)' = Top(u) /\ Base(u)' = Base(u) /\ Found(u)' = Found(u)
             /\ Read(u)' = Read(u) /\ Holding(u)' = Holding(u) /\ Registering(u)' = Registering(u)
  BY <1>2, <1>3, OtherThread DEF TInv, StackInv
<1>4. LockInv'
  <2>1. ASSUME NEW u \in Threads, Holding(u)' PROVE file_ops_lock' = u
    <3>1. CASE u = t
      BY <1>1, <2>1, <3>1, EffectLock
    <3>2. CASE u # t
      BY <1>1, <1>3, <2>1, <3>2, EffectLock
    <3> QED
      BY <3>1, <3>2
  <2> QED
    BY <2>1 DEF LockInv
<1>5. UuidInv'
  <2> SUFFICES ASSUME ~history'.mixed
               PROVE  (\A e \in Entities : reg'[e] \in {None, e}) /\ \A u \in Threads : ThreadUuid(u)'
    BY DEF UuidInv
  <2>1. ~history.mixed /\ ThreadUuid(t)' /\ \A e \in Entities : reg'[e] \in {None, e}
    BY <1>1, EffectUuid
  <2>2. ASSUME NEW u \in Threads, u # t PROVE ThreadUuid(u)'
    BY <1>3, <2>1, <2>2 DEF UuidInv, ThreadUuid
  <2> QED
    BY <2>1, <2>2
<1>6. OwnInv'
  <2> SUFFICES ASSUME ~history'.overlapped
               PROVE  /\ ~history'.mixed
                      /\ \A u, v \in Threads : Registering(u)' /\ Registering(v)' => u = v
                      /\ \A u \in Threads : OwnId(u)'
    BY DEF OwnInv
  <2>1. ~history.overlapped /\ (Registering(t)' => \A u \in Threads \ {t} : ~Registering(u))
    BY <1>1, EffectOverlap
  <2>2. ~history'.mixed /\ OwnId(t)'
    BY <1>1, <2>1, EffectOwn
  <2>3. ASSUME NEW u \in Threads, u # t PROVE OwnId(u)'
    <3>1. OwnId(u)
      BY <2>1 DEF OwnInv
    <3>2. Found(u) /\ Base(u).op = "register" => reg_entity_id' = reg_entity_id
      BY <1>1, <2>1, <2>3, <3>1, EffectOwn
    <3> QED
      BY <1>3, <2>3, <3>1, <3>2 DEF OwnId
  <2>4. ASSUME NEW u \in Threads, NEW v \in Threads, Registering(u)', Registering(v)', u # v PROVE FALSE
    <3>1. \A w \in Threads : w # t => Registering(w)' = Registering(w)
      BY <1>3
    <3> QED
      BY <2>1, <2>4, <3>1 DEF OwnInv
  <2> QED
    BY <2>2, <2>3, <2>4
<1>7. KeptInv'
  <2> SUFFICES ASSUME ~history'.mixed
               PROVE  /\ \A k \in history'.kept : k.uuid = k.ent /\ k.ent \in Entities /\ Stored(k)'
                      /\ \A u \in Threads : ReadKept(u)'
    BY DEF KeptInv
  <2>1. CASE Fills(t)
    <3>1. /\ \A k \in history'.kept : k.uuid = k.ent /\ k.ent \in Entities /\ Stored(k)'
          /\ ReadKept(t)' /\ \A u \in Threads \ {t} : ~Read(u)
      BY <1>1, <2>1, FillKeeps
    <3>2. ASSUME NEW u \in Threads, u # t PROVE ReadKept(u)'
      BY <1>3, <3>1, <3>2 DEF ReadKept
    <3> QED
      BY <3>1, <3>2
  <2>2. CASE ~Fills(t)
    <3>1. /\ ~history.mixed /\ history'.kept = history.kept /\ ReadKept(t)'
          /\ history'.unwritten = history.unwritten
      BY <1>1, <2>2, EffectUuid, EffectKept, EffectRead
    <3>2. ASSUME NEW u \in Threads, u # t PROVE ReadKept(u)'
      BY <1>3, <3>1, <3>2 DEF KeptInv, ReadKept
    <3>3. ASSUME NEW k \in history.kept PROVE k.uuid = k.ent /\ k.ent \in Entities /\ Stored(k)'
      <4>1. k.uuid = k.ent /\ k.ent \in Entities /\ Stored(k)
        BY <3>1 DEF KeptInv
      <4>2. CASE Writes(t)
        BY <1>1, <4>1, <4>2, WriteKeeps
      <4>3. CASE ~Writes(t)
        <5>1. UNCHANGED files
          BY <1>1, <2>2, <4>3, EffectFiles
        <5>2. BeingWritten(k.uuid) => BeingWritten(k.uuid)'
          BY <1>1, <1>2, <2>2, StillWritten
        <5> QED
          BY <1>1, <3>1, <4>1, <5>1, <5>2 DEF Stored
      <4> QED
        BY <4>1, <4>2, <4>3
    <3> QED
      BY <3>1, <3>2, <3>3
  <2> QED
    BY <2>1, <2>2
<1> QED
  BY <1>4, <1>5, <1>6, <1>7

(* The dispatcher and the control center do not touch the records.         *)
LEMMA QuietFileInv == ASSUME FileInv, Quietly PROVE FileInv'
<1> USE DEF Quietly
<1>1. ASSUME NEW t \in Threads
      PROVE  /\ Top(t)' = Top(t) /\ Base(t)' = Base(t) /\ Found(t)' = Found(t) /\ Read(t)' = Read(t)
             /\ Holding(t)' = Holding(t) /\ Registering(t)' = Registering(t)
  BY DEF Top, Base, Getting, Found, Read, Holding, Registering
<1>2. LockInv'
  BY <1>1 DEF FileInv, LockInv
<1>3. UuidInv'
  BY <1>1 DEF FileInv, UuidInv, ThreadUuid
<1>4. OwnInv'
  BY <1>1 DEF FileInv, OwnInv, OwnId
<1>5. KeptInv'
  BY <1>1 DEF FileInv, KeptInv, Stored, ReadKept, BeingWritten
<1> QED
  BY <1>2, <1>3, <1>4, <1>5 DEF FileInv

(* After a restart no call is in progress, and the files are as they were. *)
LEMMA RestartFileInv == ASSUME TInv, FileInv, epoch \in Nat, Restart PROVE FileInv'
<1>1. /\ \A t \in Threads : pc'[t] = "idle" /\ frames'[t] = <<>>
      /\ UNCHANGED history /\ epoch' = epoch + 1 /\ reg' = [e \in Entities |-> None]
      /\ files' = [u \in Entities |-> [files[u] EXCEPT !.fresh = FALSE]]
  BY DEF Restart
<1>2. \A t \in Threads : ~Found(t)' /\ ~Read(t)' /\ ~Holding(t)' /\ ~Registering(t)'
  BY <1>1, RestartLeaves DEF Left
<1>3. LockInv'
  BY <1>2 DEF LockInv
<1>4. UuidInv'
  BY <1>1, <1>2 DEF UuidInv, ThreadUuid
<1>5. OwnInv'
  BY <1>1, <1>2 DEF FileInv, OwnInv, OwnId
<1>6. KeptInv'
  <2>1. \A t \in Threads : ReadKept(t)'
    BY <1>2 DEF ReadKept
  <2>2. epoch' > 0
    BY SMTT(30), <1>1
  <2>3. ASSUME NEW k \in history.kept, k.uuid \in Entities, Stored(k) PROVE Stored(k)'
    <3>1. PICK f, b, g : /\ f = files[k.uuid] /\ b = FALSE /\ g = files'[k.uuid]
                         /\ IsFile(f) /\ g = [f EXCEPT !.fresh = b]
      BY <1>1, <2>3 DEF TInv, RecordTypes
    <3>2. IsFile(g) /\ g.name = f.name /\ g.props = f.props /\ g.fresh = b
      <4>1. IsFile(f) /\ g = [f EXCEPT !.fresh = b]
        BY <3>1
      <4> QED
        BY SMTT(30), <4>1 DEF IsFile
    <3>3. f = Broken => g = Broken
      <4>1. Broken.name = "empty file" /\ Broken.props = {} /\ Broken.fresh = FALSE
        BY DEF Broken
      <4> QED
        BY <3>1, <3>2, <4>1 DEF IsFile, Broken
    <3> QED
      BY <2>2, <2>3, <3>1, <3>2, <3>3 DEF Stored, Has
  <2> QED
    BY <1>1, <2>1, <2>3 DEF FileInv, KeptInv
<1> QED
  BY <1>3, <1>4, <1>5, <1>6 DEF FileInv

(* No call is in progress at the start.                                    *)
LEMMA InitFileInv == Init => FileInv
<1> SUFFICES ASSUME Init PROVE FileInv
  OBVIOUS
<1>1. ASSUME NEW t \in Threads PROVE ~Found(t) /\ ~Read(t) /\ ~Holding(t) /\ ~Registering(t) /\ pc[t] = "idle"
  <2>1. pc[t] = "idle" /\ frames[t] = <<>>
    BY DEF Init
  <2>2. DOMAIN <<>> = {}
    BY SMTT(30)
  <2> QED
    BY <2>1, <2>2 DEF Found, Read, Holding, Getting, Registering
<1>2. /\ ~history.mixed /\ history.kept = {}
      /\ \A e \in Entities : reg[e] \in {None, e}
  BY DEF Init
<1> QED
  BY <1>1, <1>2 DEF FileInv, LockInv, UuidInv, ThreadUuid, OwnInv, OwnId, KeptInv, ReadKept

(* Every step preserves what the records rest on.                          *)
LEMMA FilesStep == RInv /\ IdInv /\ TInv /\ FileInv /\ [Next]_vars => FileInv'
<1> SUFFICES ASSUME RInv, IdInv, TInv, FileInv, [Next]_vars PROVE FileInv'
  OBVIOUS
<1>1. epoch \in Nat
  BY DEF IdInv
<1> QED
  BY <1>1, Steps, StepFileInv, QuietFileInv, RestartFileInv

(* What set_properties has written to an entity file stays there, however  *)
(* the threads interleave, since file_ops_lock is held from the read of    *)
(* the file to its write, also while get_properties waits.  Only a crash,  *)
(* or an error of a later write, may leave the file empty.                 *)
THEOREM FilesAreKept == Spec => []PropertiesKept
<1>1. Init => RInv /\ IdInv /\ TInv /\ FileInv
  BY InitRInv, InitIdInv, InitTInv, InitFileInv
<1>2. RInv /\ IdInv /\ TInv /\ FileInv /\ [Next]_vars => RInv' /\ IdInv' /\ TInv' /\ FileInv'
  BY StepSimulates, IdStep, NextTInv, FilesStep
<1>3. RInv /\ IdInv /\ TInv /\ FileInv => PropertiesKept
  BY DEF FileInv, KeptInv, PropertiesKept, Stored, Has
<1> QED
  BY <1>1, <1>2, <1>3, PTL DEF Spec

(* register gives an entity its own uuid unless two calls of register were *)
(* in progress at once, for any number of threads and entities.            *)
THEOREM OwnUuid == Spec => []OwnUuidUnlessOverlap
<1>1. Init => RInv /\ IdInv /\ TInv /\ FileInv
  BY InitRInv, InitIdInv, InitTInv, InitFileInv
<1>2. RInv /\ IdInv /\ TInv /\ FileInv /\ [Next]_vars => RInv' /\ IdInv' /\ TInv' /\ FileInv'
  BY StepSimulates, IdStep, NextTInv, FilesStep
<1>3. RInv /\ IdInv /\ TInv /\ FileInv => OwnUuidUnlessOverlap
  BY DEF FileInv, OwnInv, OwnUuidUnlessOverlap
<1> QED
  BY <1>1, <1>2, <1>3, PTL DEF Spec

-----------------------------------------------------------------------------
(* What is recorded was accepted.                                          *)

(* The properties that the control center has, by the requests q.          *)
CloudIn(q, e) ==
  UNION {q[c].props : c \in {d \in DOMAIN q : q[d].ent = e /\ q[d].fate \in Accepted}}

(* An answer says what has become of the request that it is to.            *)
Genuine(q, m) ==
  /\ m.to \in 1..Len(q) /\ m.id = q[m.to].id
  /\ m.result = "succeeded" => q[m.to].fate \in Accepted
  /\ m.props \subseteq CloudIn(q, q[m.to].ent)

GotOK(q, c) == q[c].got = <<>> \/ \E m : q[c].got = <<m>> /\ Genuine(q, m) /\ m.id = q[c].id

MsgInv ==
  /\ \A c \in wire : calls[c].fate = "none"
  /\ \A i \in 1..Len(recv_msg_queue) : Genuine(calls, recv_msg_queue[i])
  /\ disp # None => Genuine(calls, disp.msg)
  /\ \A c \in 1..Len(calls) : GotOK(calls, c)

(* A thread waits for the answer to the request that it made last.         *)
WaitsFor(q, f) ==
  f.call \in 1..Len(q) /\ q[f.call].op = f.op /\ q[f.call].ent = f.ent /\ q[f.call].props = f.props

WaitInv == \A t \in Threads : pc[t] = "wait" => WaitsFor(calls, Top(t))

(* The requests r are those of q, some of them accepted since, and more.   *)
SameRequest(x, y) ==
  /\ y.op = x.op /\ y.ent = x.ent /\ y.props = x.props /\ y.id = x.id
  /\ x.fate \in Accepted => y.fate \in Accepted

Grown(q, r) ==
  /\ DOMAIN q = 1..Len(q) /\ DOMAIN r = 1..Len(r)
  /\ \A c \in 1..Len(q) : c \in 1..Len(r) /\ SameRequest(q[c], r[c])

(* What the control center has accepted it keeps.                          *)
LEMMA CloudGrows == ASSUME NEW q, NEW r, Grown(q, r), NEW e PROVE CloudIn(q, e) \subseteq CloudIn(r, e)
<1> SUFFICES ASSUME NEW x \in CloudIn(q, e) PROVE x \in CloudIn(r, e)
  OBVIOUS
<1>1. PICK c \in DOMAIN q : q[c].ent = e /\ q[c].fate \in Accepted /\ x \in q[c].props
  BY DEF CloudIn
<1>2. c \in DOMAIN r /\ r[c].ent = e /\ r[c].fate \in Accepted /\ x \in r[c].props
  BY <1>1 DEF Grown, SameRequest
<1> QED
  BY <1>2 DEF CloudIn

(* An answer stays genuine,                                                *)
LEMMA GenuineGrows == ASSUME NEW q, NEW r, Grown(q, r), NEW m, Genuine(q, m) PROVE Genuine(r, m)
<1>1. PICK c \in 1..Len(q) : c = m.to
  BY DEF Genuine
<1>2. c \in 1..Len(r) /\ SameRequest(q[c], r[c])
  BY DEF Grown
<1>3. CloudIn(q, q[c].ent) \subseteq CloudIn(r, r[c].ent)
  BY <1>2, CloudGrows DEF SameRequest
<1> QED
  BY <1>1, <1>2, <1>3 DEF Genuine, SameRequest

(* also in the queue of its request,                                       *)
LEMMA GotGrows ==
  ASSUME NEW q, NEW r, Grown(q, r), NEW c \in 1..Len(q), GotOK(q, c), r[c].got = q[c].got PROVE GotOK(r, c)
<1>1. r[c].id = q[c].id
  BY DEF Grown, SameRequest
<1>2. CASE q[c].got = <<>>
  BY <1>2 DEF GotOK
<1>3. ASSUME NEW m, q[c].got = <<m>>, Genuine(q, m), m.id = q[c].id PROVE GotOK(r, c)
  <2>1. Genuine(r, m)
    BY <1>3, GenuineGrows
  <2> QED
    BY <1>1, <1>3, <2>1 DEF GotOK
<1> QED
  BY <1>2, <1>3 DEF GotOK

(* and a thread goes on waiting for the same request.                      *)
LEMMA WaitsGrow == ASSUME NEW q, NEW r, Grown(q, r), NEW f, WaitsFor(q, f) PROVE WaitsFor(r, f)
<1>1. PICK c \in 1..Len(q) : c = f.call
  BY DEF WaitsFor
<1>2. c \in 1..Len(r) /\ SameRequest(q[c], r[c])
  BY DEF Grown
<1> QED
  BY <1>1, <1>2 DEF WaitsFor, SameRequest

(* Requests are never taken back.                                          *)
LEMMA SameGrown == ASSUME RInv, UNCHANGED calls PROVE Grown(calls, calls')
<1>1. DOMAIN calls = 1..Len(calls)
  BY SeqLen DEF RInv, CallsInv
<1> QED
  BY <1>1 DEF Grown, SameRequest

(* A new request leaves the others as they are.                            *)
LEMMA AskGrown == ASSUME NEW t \in Threads, Asks(t) PROVE Grown(calls, calls')
<1>1. /\ Len(calls) \in Nat /\ Len(calls') = Len(calls) + 1
      /\ DOMAIN calls = 1..Len(calls) /\ DOMAIN calls' = 1..(Len(calls) + 1)
      /\ \A c \in 1..Len(calls) : calls'[c] = calls[c]
  BY DEF Asks
<1>2. \A c \in 1..Len(calls) : c \in 1..Len(calls')
  BY SMTT(30), <1>1
<1> QED
  BY <1>1, <1>2 DEF Grown, SameRequest

(* So does a change of one, unless it takes back an acceptance.            *)
LEMMA OneGrown ==
  ASSUME NEW d, OnlyCall(d), calls[d].fate \in Accepted => calls'[d].fate \in Accepted
  PROVE  Grown(calls, calls')
<1>1. /\ DOMAIN calls = 1..Len(calls) /\ DOMAIN calls' = 1..Len(calls')
      /\ \A c \in 1..Len(calls) : c \in 1..Len(calls')
  BY DEF OnlyCall
<1>2. ASSUME NEW c \in 1..Len(calls) PROVE SameRequest(calls[c], calls'[c])
  <2>1. CASE c = d
    BY <2>1 DEF OnlyCall, SameCall, SameRequest
  <2>2. CASE c # d
    BY <2>2 DEF OnlyCall, SameRequest
  <2> QED
    BY <2>1, <2>2
<1> QED
  BY <1>1, <1>2 DEF Grown

(* Messages stay genuine.                                                  *)
LEMMA SameMsg == ASSUME MsgInv, UNCHANGED <<calls, wire, recv_msg_queue, disp>> PROVE MsgInv'
  BY DEF MsgInv

(* A new request has no answer yet.                                        *)
LEMMA AskMsg == ASSUME RInv, MsgInv, NEW t \in Threads, Asks(t) PROVE MsgInv'
<1>1. Grown(calls, calls')
  BY AskGrown
<1>2. PICK n \in Nat : n = Len(calls)
  BY DEF Asks
<1>3. /\ Len(calls') = n + 1 /\ \A c \in 1..n : calls'[c] = calls[c]
      /\ calls'[n + 1].got = <<>> /\ UNCHANGED <<recv_msg_queue, disp>>
      /\ \/ calls'[n + 1].fate = "none" /\ wire' = wire \cup {n + 1}
         \/ UNCHANGED wire
  BY <1>2, SMTT(30) DEF Asks
<1>4. wire \subseteq 1..n
  BY <1>2 DEF RInv, CallsInv
<1>5. \A c \in wire' : calls'[c].fate = "none"
  BY <1>3, <1>4 DEF MsgInv
<1>6. \A i \in 1..Len(recv_msg_queue') : Genuine(calls', recv_msg_queue'[i])
  BY <1>1, <1>3, GenuineGrows DEF MsgInv
<1>7. disp' # None => Genuine(calls', disp'.msg)
  BY <1>1, <1>3, GenuineGrows DEF MsgInv
<1>8. ASSUME NEW c \in 1..Len(calls') PROVE GotOK(calls', c)
  <2>1. c \in 1..n \/ c = n + 1
    BY SMTT(30), <1>3
  <2>2. CASE c \in 1..n
    BY <1>1, <1>2, <1>3, <2>2, GotGrows DEF MsgInv
  <2>3. CASE c = n + 1
    BY <1>3, <2>3 DEF GotOK
  <2> QED
    BY <2>1, <2>2, <2>3
<1> QED
  BY <1>5, <1>6, <1>7, <1>8 DEF MsgInv

(* The dispatcher moves an answer to a request with its id.                *)
LEMMA PutMsg == ASSUME RInv, MsgInv, Puts PROVE MsgInv' /\ Grown(calls, calls')
<1>1. PICK d : /\ OnlyCall(d) /\ calls[d].id = disp.msg.id /\ calls[d].got = <<>>
               /\ calls'[d].got = <<disp.msg>> /\ calls'[d].fate = calls[d].fate
  BY DEF Puts
<1>2. Grown(calls, calls')
  BY <1>1, OneGrown
<1>3. disp # None /\ disp' = None /\ UNCHANGED <<wire, recv_msg_queue>>
  BY DEF Puts
<1>4. /\ \A c \in 1..Len(calls) : c # d => calls'[c] = calls[c]
      /\ d \in 1..Len(calls) /\ calls'[d].id = calls[d].id /\ Len(calls') = Len(calls)
  BY <1>1 DEF OnlyCall, SameCall
<1>5. \A c \in wire' : calls'[c].fate = "none"
  <2>1. wire \subseteq 1..Len(calls)
    BY DEF RInv, CallsInv
  <2> QED
    BY <1>1, <1>3, <1>4, <2>1 DEF MsgInv
<1>6. \A i \in 1..Len(recv_msg_queue') : Genuine(calls', recv_msg_queue'[i])
  BY <1>2, <1>3, GenuineGrows DEF MsgInv
<1>7. ASSUME NEW c \in 1..Len(calls') PROVE GotOK(calls', c)
  <2>1. CASE c = d
    <3>1. PICK m : m = disp.msg
      OBVIOUS
    <3>2. Genuine(calls, m)
      BY <1>3, <3>1 DEF MsgInv
    <3>3. Genuine(calls', m)
      BY <1>2, <3>2, GenuineGrows
    <3>4. calls'[c].got = <<m>> /\ m.id = calls'[c].id
      BY <1>1, <1>4, <2>1, <3>1
    <3> QED
      BY <3>3, <3>4 DEF GotOK
  <2>2. CASE c # d
    <3>1. c \in 1..Len(calls) /\ calls'[c].got = calls[c].got /\ GotOK(calls, c)
      BY <1>4, <2>2 DEF MsgInv
    <3> QED
      BY <1>2, <3>1, GotGrows
  <2> QED
    BY <2>1, <2>2
<1> QED
  BY <1>2, <1>3, <1>5, <1>6, <1>7 DEF MsgInv

(* The control center answers with what it has decided.                    *)
LEMMA ServeMsg == ASSUME RInv, MsgInv, NEW c, Serves(c) PROVE MsgInv' /\ Grown(calls, calls')
<1>1. PICK how, m, k :
        /\ c \in wire /\ wire' = wire \ {c} /\ UNCHANGED disp
        /\ OnlyCall(c) /\ calls'[c].fate = how /\ calls'[c].got = calls[c].got
        /\ k \in Nat /\ recv_msg_queue' = recv_msg_queue \o [i \in 1..k |-> m]
        /\ m.to = c /\ m.id = calls[c].id /\ (m.result = "succeeded" => how \in Accepted)
        /\ m.props \subseteq Cloud(calls[c].ent)
  BY DEF Serves
<1>2. calls[c].fate \notin Accepted
  BY <1>1 DEF MsgInv, Accepted
<1>3. Grown(calls, calls')
  BY <1>1, <1>2, OneGrown
<1>4. /\ \A d \in 1..Len(calls) : d # c => calls'[d] = calls[d]
      /\ c \in 1..Len(calls) /\ calls'[c].id = calls[c].id /\ calls'[c].ent = calls[c].ent
      /\ Len(calls') = Len(calls)
  BY <1>1 DEF OnlyCall, SameCall
<1>5. \A d \in wire' : calls'[d].fate = "none"
  <2>1. wire \subseteq 1..Len(calls)
    BY DEF RInv, CallsInv
  <2> QED
    BY <1>1, <1>4, <2>1 DEF MsgInv
<1>6. Genuine(calls', m)
  <2>1. m.props \subseteq CloudIn(calls, calls[c].ent)
    BY <1>1 DEF Cloud, CloudIn
  <2>2. CloudIn(calls, calls[c].ent) \subseteq CloudIn(calls', calls'[c].ent)
    BY <1>3, <1>4, CloudGrows
  <2> QED
    BY <1>1, <1>4, <2>1, <2>2 DEF Genuine
<1>7. \A i \in 1..Len(recv_msg_queue) : Genuine(calls', recv_msg_queue[i])
  BY <1>3, GenuineGrows DEF MsgInv
<1>8. ASSUME NEW i \in 1..Len(recv_msg_queue') PROVE Genuine(calls', recv_msg_queue'[i])
  <2> DEFINE q == recv_msg_queue
             p == [j \in 1..k |-> m]
  <2>1. IsSeq(q) /\ Len(q) \in Nat
    BY SeqLen DEF RInv, QueueInv
  <2>2. IsSeq(p) /\ Len(p) = k /\ \A j \in 1..k : p[j] = m
    <3>1. DOMAIN p = 1..k /\ p = [j \in 1..k |-> p[j]] /\ \A j \in 1..k : p[j] = m
      OBVIOUS
    <3> HIDE DEF p
    <3> QED
      BY <1>1, <3>1, FunIsSeq
  <2>3. recv_msg_queue' = q \o p
    BY <1>1
  <2> HIDE DEF p, q
  <2>4. /\ Len(q \o p) = Len(q) + Len(p)
        /\ \A j \in 1..Len(q) + Len(p) : (q \o p)[j] = IF j <= Len(q) THEN q[j] ELSE p[j - Len(q)]
    BY <2>1, <2>2, ConcatSeq
  <2>5. i \in 1..Len(q) + Len(p)
    BY <2>3, <2>4
  <2>6. \/ i \in 1..Len(q) /\ i <= Len(q)
        \/ i - Len(q) \in 1..k /\ ~(i <= Len(q))
    BY SMTT(30), <1>1, <2>1, <2>2, <2>5
  <2>7. recv_msg_queue'[i] = m \/ (i \in 1..Len(q) /\ recv_msg_queue'[i] = q[i])
    BY <2>2, <2>3, <2>4, <2>5, <2>6
  <2> QED
    BY <1>6, <1>7, <2>7 DEF q
<1>9. disp' # None => Genuine(calls', disp'.msg)
  BY <1>1, <1>3, GenuineGrows DEF MsgInv
<1>10. ASSUME NEW d \in 1..Len(calls') PROVE GotOK(calls', d)
  <2>1. d \in 1..Len(calls) /\ calls'[d].got = calls[d].got /\ GotOK(calls, d)
    BY <1>1, <1>4 DEF MsgInv
  <2> QED
    BY <1>3, <2>1, GotGrows
<1> QED
  BY <1>3, <1>5, <1>8, <1>9, <1>10 DEF MsgInv

(* The dispatcher takes an answer from the queue.                          *)
LEMMA GetMsg == ASSUME RInv, MsgInv, dispatch_get PROVE MsgInv'
<1>1. /\ recv_msg_queue # <<>> /\ recv_msg_queue' = Tail(recv_msg_queue) /\ UNCHANGED <<calls, wire>>
      /\ disp' = None \/ \E r : disp' = [msg |-> Head(recv_msg_queue), req |-> r]
  BY DEF dispatch_get, requests
<1>2. /\ Len(recv_msg_queue') = Len(recv_msg_queue) - 1 /\ Len(recv_msg_queue) \in Nat \ {0}
      /\ \A i \in 1..Len(recv_msg_queue') : recv_msg_queue'[i] = recv_msg_queue[i + 1]
      /\ Head(recv_msg_queue) = recv_msg_queue[1]
  BY <1>1, TailSeq DEF RInv, QueueInv
<1>3. 1 \in 1..Len(recv_msg_queue) /\ \A i \in 1..Len(recv_msg_queue') : i + 1 \in 1..Len(recv_msg_queue)
  BY SMTT(30), <1>2
<1>4. \A i \in 1..Len(recv_msg_queue') : Genuine(calls', recv_msg_queue'[i])
  BY <1>1, <1>2, <1>3 DEF MsgInv
<1>5. disp' # None => Genuine(calls', disp'.msg)
  <2>1. ASSUME NEW r, disp' = [msg |-> Head(recv_msg_queue), req |-> r] PROVE disp'.msg = recv_msg_queue[1]
    BY <1>2, <2>1
  <2> QED
    BY <1>1, <1>3, <2>1 DEF MsgInv
<1> QED
  BY <1>1, <1>4, <1>5 DEF MsgInv

(* Every step keeps the messages genuine.                                  *)
LEMMA MsgStep == RInv /\ TInv /\ MsgInv /\ [Next]_vars => MsgInv' /\ Grown(calls, calls')
<1> SUFFICES ASSUME RInv, TInv, MsgInv, [Next]_vars PROVE MsgInv' /\ Grown(calls, calls')
  OBVIOUS
<1>1. ASSUME NEW t \in Threads, Step(t) \/ Call(t) PROVE MsgInv' /\ Grown(calls, calls')
  <2>1. Asks(t) \/ UNCHANGED <<calls, wire, recv_msg_queue, disp>>
    BY <1>1, AsksOrNot
  <2> QED
    BY <2>1, SameMsg, SameGrown, AskMsg, AskGrown
<1>2. CASE dispatch_get
  <2>1. UNCHANGED calls
    BY <1>2 DEF dispatch_get, requests
  <2> QED
    BY <1>2, <2>1, GetMsg, SameGrown
<1>3. CASE dispatch_put
  BY <1>3, PutIs, PutMsg
<1>4. ASSUME NEW c \in wire, NEW how \in (Accepted \cup Faults) \ {"unsent", "restart"}, Serve(c, how)
      PROVE  MsgInv' /\ Grown(calls, calls')
  BY <1>4, ServeIs, ServeMsg
<1>5. CASE Restart
  <2>1. /\ recv_msg_queue' = <<>> /\ disp' = None /\ UNCHANGED <<calls, wire>>
        /\ Len(<<>>) = 0 /\ \A i : i \notin 1..0
    BY <1>5, SMTT(30) DEF Restart
  <2> QED
    BY <2>1, SameGrown DEF MsgInv
<1>6. CASE UNCHANGED vars
  BY <1>6, SameMsg, SameGrown DEF vars, requests, net
<1> QED
  BY <1>1, <1>2, <1>3, <1>4, <1>5, <1>6 DEF Next

(* A thread comes to wait by a request, or by an answer that is not its    *)
(* entity's.                                                               *)
LEMMA WaitOnly ==
  ASSUME TInv, NEW t \in Threads, Step(t) \/ Call(t), pc'[t] = "wait"
  PROVE  WaitAgain(t) \/ \E sent \in BOOLEAN : Ask(t, sent)
<1>0. pc \in [Threads -> Labels] /\ \A l : Goto(t, l) => pc'[t] = l
  BY DEF TInv, StackInv, Goto
<1>1. CASE Call(t)
  <2>1. \E f : Start(t, f)
    BY <1>1 DEF Call, register, unregister, create_relationship, publish_unit, set_properties
  <2> QED
    BY <1>0, <2>1 DEF Start, Push
<1>2. ASSUME NEW l, Moved(t, l) PROVE l = "wait"
  BY <1>0, <1>2, MovedPc
<1>3. ~Stores(t)
  <2>1. CASE Gets(t)
    BY <2>1, GetsTyped
  <2>2. CASE Writes(t)
    BY <2>2, WritesTyped
  <2>3. CASE Fills(t) \/ Registers(t) \/ Finishes(t)
    <3>1. \E l \in {"return", "idle", "attributes", "next_id"} : Moved(t, l)
      BY <2>3 DEF Fills, Registers, Finishes
    <3> QED
      BY <1>2, <3>1
  <2>4. CASE Fetches(t)
    BY <2>4, FetchesTyped
  <2> QED
    BY <2>1, <2>2, <2>3, <2>4, StoreEffects
<1>4. ~next_id_read(t) /\ ~next_id_write(t) /\ ~Unregistered(t) /\ ~FoundResource(t) /\ ~PropertiesSet(t)
  BY <1>0 DEF next_id_read, next_id_write, Unregistered, FoundResource, PropertiesSet
<1>5. ~Leave(t)
  BY <1>0 DEF Leave
<1>6. /\ ~Timeout(t) /\ ~Related(t) /\ ~Refused(t) /\ ~store_device_removed(t)
      /\ ~store_reg_entity_details(t) /\ ~store_reg_entity_attributes(t)
  BY <1>3, <1>5 DEF Timeout, Related, Refused, store_device_removed, store_reg_entity_details,
     store_reg_entity_attributes, Stores
<1>7. ~remove_reg_entity_details(t)
  BY <1>0, <1>5 DEF remove_reg_entity_details
<1> QED
  BY <1>1, <1>3, <1>4, <1>6, <1>7 DEF Step, Stores

(* A thread waits for its own request.                                     *)
LEMMA StepWait ==
  ASSUME RInv, TInv, WaitInv, NEW t \in Threads, Step(t) \/ Call(t), Grown(calls, calls') PROVE WaitInv'
<1>1. PICK l : Moved(t, l)
  BY AllEffects
<1>2. ASSUME NEW u \in Threads, u # t, pc'[u] = "wait" PROVE WaitsFor(calls', Top(u)')
  <2>1. pc[u] = "wait" /\ Top(u)' = Top(u)
    BY <1>1, <1>2, OtherThread DEF TInv, StackInv
  <2>2. PICK f : f = Top(u)
    OBVIOUS
  <2>3. WaitsFor(calls, f)
    BY <2>1, <2>2 DEF WaitInv
  <2>4. WaitsFor(calls', f)
    BY <2>3, WaitsGrow
  <2> QED
    BY <2>1, <2>2, <2>4
<1>3. ASSUME pc'[t] = "wait" PROVE WaitsFor(calls', Top(t)')
  <2>1. WaitAgain(t) \/ \E sent \in BOOLEAN : Ask(t, sent)
    BY <1>3, WaitOnly
  <2>2. ~Gone(t) /\ ~Answers(t)
    <3>1. ASSUME NEW k, Moved(t, k) PROVE k = "wait"
      BY <1>3, <3>1, MovedPc DEF TInv, StackInv
    <3>2. Moved(t, "idle") \/ Moved(t, "lock") => FALSE
      BY <3>1
    <3> QED
      BY <3>2 DEF Gone, Answers
  <2>3. Goes(t)
    BY <2>1, <2>2, SendEffects, AnswerEffects
  <2>4. (Top(t)').op = Top(t).op /\ (Top(t)').ent = Top(t).ent /\ (Top(t)').props = Top(t).props
    BY <2>3, GoesTop DEF SameFrame
  <2>5. ASSUME NEW sent \in BOOLEAN, Ask(t, sent) PROVE WaitsFor(calls', Top(t)')
    <3>1. Asks(t)
      BY <2>5, AskIs
    <3>2. PICK n \in Nat : n = Len(calls)
      BY <3>1 DEF Asks
    <3>3. PICK r : /\ Len(calls') = n + 1 /\ calls'[n + 1] = r
                   /\ r.op = Top(t).op /\ r.ent = Top(t).ent /\ r.props = Top(t).props
                   /\ (Top(t)').call = n + 1 \/ pc'[t] = "idle"
      BY SMTT(30), <3>1, <3>2 DEF Asks
    <3>4. n + 1 \in 1..(n + 1)
      BY SMTT(30)
    <3>5. (Top(t)').call = n + 1
      BY <1>3, <3>3
    <3> QED
      BY <2>4, <3>3, <3>4, <3>5 DEF WaitsFor
  <2>6. CASE WaitAgain(t)
    <3>1. pc[t] = "wait" /\ UNCHANGED calls /\ frames' = [frames EXCEPT ![t][1].seen = @ + 1]
      BY <2>6 DEF WaitAgain, Answered, requests
    <3>2. frames[t] # <<>> /\ IsSeq(frames[t]) /\ IsFrame(Top(t)) /\ WaitsFor(calls, Top(t))
      BY <3>1, HasTop DEF WaitInv
    <3>3. 1 \in DOMAIN frames[t]
      BY <3>2, SeqLen, NotEmpty
    <3>4. PICK n : n = frames[t][1].seen + 1
      OBVIOUS
    <3>5. PICK f, g : f = Top(t) /\ g = [f EXCEPT !.seen = n]
      OBVIOUS
    <3>6. Top(t)' = g
      BY <3>1, <3>3, <3>4, <3>5 DEF TInv, StackInv, Top
    <3>7. g.call = f.call
      <4>1. IsFrame(f) /\ g = [f EXCEPT !.seen = n]
        BY <3>2, <3>5
      <4> QED
        BY SMTT(30), <4>1 DEF IsFrame
    <3> QED
      BY <2>4, <3>1, <3>2, <3>5, <3>6, <3>7 DEF WaitsFor
  <2> QED
    BY <2>1, <2>5, <2>6
<1> QED
  BY <1>2, <1>3 DEF WaitInv

(* Every step keeps the threads waiting for their own requests.            *)
LEMMA WaitStep == RInv /\ TInv /\ MsgInv /\ WaitInv /\ [Next]_vars => WaitInv'
<1> SUFFICES ASSUME RInv, TInv, MsgInv, WaitInv, [Next]_vars PROVE WaitInv'
  OBVIOUS
<1>1. Grown(calls, calls')
  BY MsgStep
<1>2. CASE Quietly
  <2>1. ASSUME NEW t \in Threads, pc[t] = "wait" PROVE WaitsFor(calls', Top(t))
    <3>1. PICK f : f = Top(t) /\ WaitsFor(calls, f)
      BY <2>1 DEF WaitInv
    <3> QED
      BY <1>1, <3>1, WaitsGrow
  <2> QED
    BY <1>2, <2>1 DEF WaitInv, Quietly, Top
<1>3. CASE Restart
  BY <1>3 DEF Restart, WaitInv
<1> QED
  BY <1>1, <1>2, <1>3, StepWait, Steps

(* An answer that a thread takes from its queue.                           *)
LEMMA AnswerIs ==
  ASSUME TInv, MsgInv, WaitInv, NEW t \in Threads, pc[t] = "wait",
         Top(t).seen < Len(calls[Top(t).call].got)
  PROVE  Genuine(calls, Answer(t)) /\ Answer(t).id = calls[Top(t).call].id
<1>1. PICK c, s, g : /\ c = Top(t).call /\ s = Top(t).seen /\ g = calls[c].got
                     /\ c \in 1..Len(calls) /\ s \in Nat /\ s < Len(g)
  BY HasTop DEF WaitInv, WaitsFor, IsFrame
<1>2. g # <<>>
  <2>1. Len(<<>>) = 0 /\ ~(s < 0)
    BY SMTT(30), <1>1
  <2> QED
    BY <1>1, <2>1
<1>3. PICK m : g = <<m>> /\ Genuine(calls, m) /\ m.id = calls[c].id
  BY <1>1, <1>2 DEF MsgInv, GotOK
<1>4. g[s + 1] = m
  <2>1. g = <<m>> /\ s \in Nat /\ s < Len(g)
    BY <1>1, <1>3
  <2> QED
    BY SMTT(30), <2>1
<1>5. Answer(t) = m
  BY <1>1, <1>4 DEF Answer
<1> QED
  BY <1>1, <1>3, <1>5

(* Where a thread goes from there.                                         *)
LEMMA FromWait ==
  ASSUME TInv, NEW t \in Threads, Step(t) \/ Call(t), pc[t] = "wait", pc'[t] \in {"lock", "write"}
  PROVE  FoundResource(t) \/ PropertiesSet(t) \/ PropertiesGot(t)
<1>0. pc \in [Threads -> Labels] /\ \A l : Goto(t, l) => pc'[t] = l
  BY DEF TInv, StackInv, Goto
<1>1. CASE Call(t)
  BY <1>1 DEF Call, register, unregister, create_relationship, publish_unit, set_properties, Start
<1>2. CASE Step(t)
  <2>1. \/ Timeout(t) \/ FoundResource(t) \/ WaitAgain(t) \/ PropertiesSet(t) \/ PropertiesGot(t)
        \/ Unregistered(t) \/ Related(t) \/ Refused(t)
    BY <1>2 DEF Step, next_id_read, next_id_write, Ask, store_reg_entity_details,
       store_reg_entity_attributes, write_entity_file, fill_entity_file, StoreDone, MakeRegisteredEntity,
       remove_reg_entity_details, store_device_removed
  <2>2. ~Leave(t)
    BY <1>0 DEF Leave
  <2>3. ~Timeout(t) /\ ~Related(t) /\ ~Refused(t)
    BY <2>2 DEF Timeout, Related, Refused
  <2>4. ~WaitAgain(t)
    BY DEF WaitAgain
  <2>5. ~Unregistered(t)
    BY <1>0 DEF Unregistered
  <2> QED
    BY <2>1, <2>3, <2>4, <2>5
<1> QED
  BY <1>1, <1>2

(* As long as no two requests have one id, what a call stores, what it has *)
(* read, and the files have only what was accepted for the entity.         *)
FoundAcc(t) == Found(t) => Base(t).props \subseteq CloudIn(calls, Base(t).ent)

ReadAcc(t) ==
  Read(t) /\ Base(t).dict.name = Base(t).ent => Base(t).dict.props \subseteq CloudIn(calls, Base(t).ent)

FileAcc == \A u \in Entities : files[u].props \subseteq CloudIn(calls, files[u].name)

AccInv == ~SharedIds => FileAcc /\ \A t \in Threads : FoundAcc(t) /\ ReadAcc(t)

(* Ids that are shared stay shared.                                        *)
LEMMA SharedGrows == ASSUME Grown(calls, calls'), SharedIds PROVE SharedIds'
<1>1. PICK c \in DOMAIN calls, d \in DOMAIN calls : c # d /\ calls[c].id = calls[d].id
  BY DEF SharedIds
<1>2. /\ c \in DOMAIN calls' /\ d \in DOMAIN calls'
      /\ calls'[c].id = calls[c].id /\ calls'[d].id = calls[d].id
  BY <1>1 DEF Grown, SameRequest
<1> QED
  BY <1>1, <1>2 DEF SharedIds

(* set_properties goes on to the file only when its own request succeeded. *)
LEMMA SetAccepted ==
  ASSUME TInv, MsgInv, WaitInv, NEW t \in Threads, PropertiesSet(t), ~SharedIds,
         DOMAIN calls = 1..Len(calls)
  PROVE  Top(t).props \subseteq CloudIn(calls, Top(t).ent)
<1>1. /\ pc[t] = "wait" /\ Top(t).seen < Len(calls[Top(t).call].got)
      /\ Answer(t).result = "succeeded"
  BY DEF PropertiesSet, Answered
<1>2. PICK m : m = Answer(t) /\ Genuine(calls, m) /\ m.id = calls[Top(t).call].id
  BY <1>1, AnswerIs
<1>3. PICK c \in 1..Len(calls) : /\ c = Top(t).call /\ calls[c].ent = Top(t).ent
                                 /\ calls[c].props = Top(t).props
  BY <1>1 DEF WaitInv, WaitsFor
<1>4. m.to \in 1..Len(calls) /\ calls[m.to].id = calls[c].id /\ calls[m.to].fate \in Accepted
  BY <1>1, <1>2, <1>3 DEF Genuine
<1>5. m.to = c
  BY <1>4 DEF SharedIds
<1> QED
  BY <1>3, <1>4, <1>5 DEF CloudIn

(* What a step of a thread finds, reads and writes.                        *)
LEMMA EffectAcc ==
  ASSUME TInv, MsgInv, WaitInv, AccInv, NEW t \in Threads, Step(t) \/ Call(t), Effect(t),
         Grown(calls, calls'), ~SharedIds
  PROVE  FoundAcc(t)' /\ ReadAcc(t)'
<1>0. /\ FileAcc /\ FoundAcc(t) /\ ReadAcc(t) /\ pc \in [Threads -> Labels]
      /\ \A e : CloudIn(calls, e) \subseteq CloudIn(calls', e)
  BY CloudGrows DEF AccInv, TInv, StackInv
<1>1. ASSUME ~Found(t)', ~Read(t)' PROVE FoundAcc(t)' /\ ReadAcc(t)'
  BY <1>1 DEF FoundAcc, ReadAcc
<1>2. ASSUME Found(t)' => Found(t), Read(t)' => Read(t), Found(t) => Base(t)' = Base(t), Read(t) => Found(t)
      PROVE  FoundAcc(t)' /\ ReadAcc(t)'
  BY <1>0, <1>2 DEF FoundAcc, ReadAcc
<1>3. Read(t) => Found(t)
  BY DEF Read, Found
<1>4. CASE Gone(t)
  BY <1>1, <1>4, GoneTyped DEF Left
<1>5. CASE Goes(t)
  BY <1>2, <1>3, <1>5, GoesTop
<1>6. CASE Starts(t)
  BY <1>1, <1>6, StartsTyped
<1>7. CASE Answers(t)
  <2>1. /\ pc[t] = "wait" /\ pc'[t] = "lock" /\ Top(t).op \in {"register", "set_properties"}
        /\ Base(t)' = Top(t) /\ ~Read(t)'
    BY <1>0, <1>7, AnswersTyped, MovedPc DEF Answers
  <2>2. Top(t).props \subseteq CloudIn(calls, Top(t).ent)
    <3>1. CASE Top(t).op = "register"
      <4>1. Top(t).props = {}
        BY <2>1, <3>1, HasTop DEF IsFrame
      <4> QED
        BY <4>1
    <3>2. CASE Top(t).op = "set_properties"
      <4>1. FoundResource(t) \/ PropertiesSet(t) \/ PropertiesGot(t)
        BY <2>1, FromWait
      <4>2. PropertiesSet(t)
        BY <3>2, <4>1 DEF FoundResource, PropertiesGot, Answered
      <4> QED
        BY <4>2, SetAccepted DEF Grown
    <3> QED
      BY <2>1, <3>1, <3>2
  <2> QED
    BY <1>0, <2>1, <2>2 DEF FoundAcc, ReadAcc
<1>8. CASE Gets(t)
  <2>1. /\ pc[t] = "wait" /\ Getting(t)
    BY <1>8 DEF Gets
  <2>2. PICK b, d : /\ b = Base(t) /\ d = Base(t)' /\ d.ent = b.ent /\ d.props = b.props
                    /\ d.dict.name = b.dict.name /\ Top(t).ent = b.ent /\ pc'[t] = "write"
                    /\ d.dict.props = b.dict.props \cup IF AboutMine(t) THEN Answer(t).props ELSE {}
    BY <1>8, GetsTyped
  <2>3. PropertiesGot(t)
    <3>1. FoundResource(t) \/ PropertiesSet(t) \/ PropertiesGot(t)
      BY <2>1, <2>2, FromWait
    <3> QED
      BY <2>1, <3>1 DEF FoundResource, PropertiesSet, Answered, Getting
  <2>4. Top(t).seen < Len(calls[Top(t).call].got)
    BY <2>3 DEF PropertiesGot, Answered
  <2>5. AboutMine(t) => Answer(t).props \subseteq CloudIn(calls, b.ent)
    <3>1. Genuine(calls, Answer(t))
      BY <2>1, <2>4, AnswerIs
    <3> QED
      BY <2>2, <3>1 DEF AboutMine, Genuine
  <2>6. Found(t) /\ Read(t)
    BY <2>1 DEF Found, Read
  <2>7. /\ b.props \subseteq CloudIn(calls, b.ent)
        /\ b.dict.name = b.ent => b.dict.props \subseteq CloudIn(calls, b.ent)
    BY <1>0, <2>2, <2>6 DEF FoundAcc, ReadAcc
  <2>8. /\ d.props \subseteq CloudIn(calls', d.ent)
        /\ d.dict.name = d.ent => d.dict.props \subseteq CloudIn(calls', d.ent)
    BY <1>0, <2>2, <2>5, <2>7
  <2> QED
    BY <2>2, <2>8 DEF FoundAcc, ReadAcc
<1>9. CASE Writes(t)
  BY <1>2, <1>3, <1>9, WritesTyped
<1>10. CASE Fills(t)
  <2>1. ~Read(t)' /\ Found(t) /\ (~Found(t)' \/ Base(t)' = Base(t))
    BY <1>10, FillsTyped DEF Left
  <2> QED
    BY <1>0, <2>1 DEF FoundAcc, ReadAcc
<1>11. CASE Registers(t)
  BY <1>2, <1>3, <1>11, RegistersTyped
<1>12. CASE Fetches(t)
  <2>1. PICK b, d, u : /\ b = Base(t) /\ d = Base(t)' /\ d.ent = b.ent /\ d.props = b.props
                       /\ u = UuidOf(t) /\ u \in Entities /\ d.dict = files[u] /\ Found(t)
    <3>1. /\ Base(t) = Top(t) /\ (Base(t)').ent = Top(t).ent /\ (Base(t)').props = Top(t).props
          /\ (Base(t)').dict = files[UuidOf(t)] /\ UuidOf(t) \in Entities /\ Found(t)
      BY <1>12, FetchesTyped
    <3> QED
      BY <3>1
  <2>2. d.props \subseteq CloudIn(calls', d.ent)
    BY <1>0, <2>1 DEF FoundAcc
  <2>3. d.dict.name = d.ent => d.dict.props \subseteq CloudIn(calls', d.ent)
    BY <1>0, <2>1 DEF FileAcc
  <2> QED
    BY <2>1, <2>2, <2>3 DEF FoundAcc, ReadAcc
<1>13. CASE Finishes(t)
  BY <1>1, <1>13, FinishesTyped
<1> QED
  BY <1>4, <1>5, <1>6, <1>7, <1>8, <1>9, <1>10, <1>11, <1>12, <1>13 DEF Effect

(* What is written to a file was read from it, or accepted.                *)
LEMMA EffectFileAcc ==
  ASSUME TInv, AccInv, NEW t \in Threads, Effect(t), Grown(calls, calls'), ~SharedIds PROVE FileAcc'
<1>0. /\ FileAcc /\ FoundAcc(t) /\ ReadAcc(t) /\ DOMAIN files = Entities
      /\ \A e : CloudIn(calls, e) \subseteq CloudIn(calls', e)
  BY CloudGrows DEF AccInv, TInv, RecordTypes
<1>1. CASE UNCHANGED files
  BY <1>0, <1>1 DEF FileAcc
<1>2. ASSUME NEW v \in Entities, NEW m, files' = [files EXCEPT ![v] = m],
             m.props \subseteq CloudIn(calls', m.name)
      PROVE  FileAcc'
  <2>1. ASSUME NEW u \in Entities PROVE files'[u].props \subseteq CloudIn(calls', files'[u].name)
    <3>1. CASE u = v
      <4>1. files'[u] = m
        BY <1>0, <1>2, <3>1
      <4> QED
        BY <1>2, <4>1
    <3>2. CASE u # v
      <4>1. files'[u] = files[u]
        BY <1>0, <1>2, <3>2
      <4> QED
        BY <1>0, <4>1 DEF FileAcc
    <3> QED
      BY <3>1, <3>2
  <2> QED
    BY <2>1 DEF FileAcc
<1>3. CASE Writes(t)
  <2>1. Broken.props = {}
    BY DEF Broken
  <2>2. PICK v \in Entities : v = Top(t).uuid /\ files' = [files EXCEPT ![v] = Broken]
    BY <1>3, WritesTyped DEF Writes
  <2> QED
    BY <1>2, <2>1, <2>2
<1>4. CASE Fills(t) /\ Filled(t)
  <2>1. PICK v, m, f : /\ v = Top(t).uuid /\ v \in Entities /\ f = Top(t) /\ m = Merged(f)
                       /\ files' = [files EXCEPT ![v] = m]
                       /\ f = Base(t) /\ Read(t) /\ Found(t)
    BY <1>4, FillsTyped DEF Filled
  <2>2. PICK ps : /\ m = [name |-> f.ent, fresh |-> TRUE, props |-> ps]
                  /\ ps = f.props \cup IF f.dict.name = f.ent THEN f.dict.props ELSE {}
    BY <2>1 DEF Merged
  <2>3. m.name = f.ent /\ m.props = ps
    BY <2>2
  <2>4. /\ f.props \subseteq CloudIn(calls, f.ent)
        /\ f.dict.name = f.ent => f.dict.props \subseteq CloudIn(calls, f.ent)
    BY <1>0, <2>1 DEF FoundAcc, ReadAcc
  <2>5. m.props \subseteq CloudIn(calls', m.name)
    BY <1>0, <2>2, <2>3, <2>4
  <2> QED
    BY <1>2, <2>1, <2>5
<1>5. Fills(t) => Filled(t) \/ UNCHANGED files
  BY DEF Fills, Unfilled
<1> QED
  BY <1>1, <1>3, <1>4, <1>5, EffectFiles

(* Every step keeps what is recorded within what was accepted.             *)
LEMMA AccStep == RInv /\ TInv /\ MsgInv /\ WaitInv /\ AccInv /\ [Next]_vars => AccInv'
<1> SUFFICES ASSUME RInv, TInv, MsgInv, WaitInv, AccInv, [Next]_vars, ~SharedIds'
             PROVE  FileAcc' /\ \A t \in Threads : FoundAcc(t)' /\ ReadAcc(t)'
  BY DEF AccInv
<1>1. Grown(calls, calls')
  BY MsgStep
<1>2. ~SharedIds
  BY <1>1, SharedGrows
<1>3. FileAcc /\ (\A t \in Threads : FoundAcc(t) /\ ReadAcc(t))
      /\ \A e : CloudIn(calls, e) \subseteq CloudIn(calls', e)
  BY <1>1, <1>2, CloudGrows DEF AccInv
<1>4. ASSUME NEW t \in Threads, Step(t) \/ Call(t)
      PROVE  FileAcc' /\ \A u \in Threads : FoundAcc(u)' /\ ReadAcc(u)'
  <2>1. Effect(t)
    BY <1>4, AllEffects
  <2>2. PICK l : Moved(t, l)
    BY <1>4, AllEffects
  <2>3. FileAcc' /\ FoundAcc(t)' /\ ReadAcc(t)'
    BY <1>1, <1>2, <1>4, <2>1, EffectAcc, EffectFileAcc
  <2>4. ASSUME NEW u \in Threads, u # t PROVE FoundAcc(u)' /\ ReadAcc(u)'
    <3>1. Base(u)' = Base(u) /\ Found(u)' = Found(u) /\ Read(u)' = Read(u)
      BY <2>2, <2>4, OtherThread DEF TInv, StackInv
    <3> QED
      BY <1>3, <3>1 DEF FoundAcc, ReadAcc
  <2> QED
    BY <2>3, <2>4
<1>5. CASE Quietly
  <2>1. ASSUME NEW t \in Threads PROVE Base(t)' = Base(t) /\ Found(t)' = Found(t) /\ Read(t)' = Read(t)
    BY <1>5 DEF Quietly, Top, Base, Getting, Found, Read
  <2>2. UNCHANGED files
    BY <1>5 DEF Quietly
  <2> QED
    BY <1>3, <2>1, <2>2 DEF FileAcc, FoundAcc, ReadAcc
<1>6. CASE Restart
  <2>1. \A t \in Threads : ~Found(t)' /\ ~Read(t)'
    BY <1>6, RestartLeaves DEF Restart, Left
  <2>2. ASSUME NEW u \in Entities PROVE files'[u].props = files[u].props /\ files'[u].name = files[u].name
    <3>1. PICK f, b, g : /\ f = files[u] /\ b = FALSE /\ g = files'[u]
                         /\ IsFile(f) /\ g = [f EXCEPT !.fresh = b]
      BY <1>6 DEF Restart, TInv, RecordTypes
    <3>2. g.name = f.name /\ g.props = f.props
      <4>1. IsFile(f) /\ g = [f EXCEPT !.fresh = b]
        BY <3>1
      <4> QED
        BY SMTT(30), <4>1 DEF IsFile
    <3> QED
      BY <3>1, <3>2
  <2> QED
    BY <1>3, <2>1, <2>2 DEF FileAcc, FoundAcc, ReadAcc
<1> QED
  BY <1>4, <1>5, <1>6, Steps

(* Nothing is asked or recorded at the start.                              *)
LEMMA InitAcc == Init => MsgInv /\ WaitInv /\ AccInv
<1> SUFFICES ASSUME Init PROVE MsgInv /\ WaitInv /\ AccInv
  OBVIOUS
<1>1. /\ wire = {} /\ recv_msg_queue = <<>> /\ disp = None /\ calls = <<>>
      /\ \A t \in Threads : pc[t] = "idle" /\ frames[t] = <<>>
  BY DEF Init
<1>2. Len(<<>>) = 0 /\ \A i : i \notin 1..0
  BY SMTT(30)
<1>3. MsgInv
  BY <1>1, <1>2 DEF MsgInv
<1>4. WaitInv
  BY <1>1 DEF WaitInv
<1>5. \A t \in Threads : FoundAcc(t) /\ ReadAcc(t)
  BY <1>1 DEF FoundAcc, ReadAcc, Found, Read, Getting
<1>6. FileAcc
  <2>1. ASSUME NEW u \in Entities PROVE files[u].props = {}
    <3>1. files[u] = [name |-> u, props |-> {}, fresh |-> TRUE] \/ files[u] = NoFile
      BY DEF Init
    <3>2. NoFile.props = {} /\ [name |-> u, props |-> {}, fresh |-> TRUE].props = {}
      BY DEF NoFile
    <3> QED
      BY <3>1, <3>2
  <2> QED
    BY <2>1 DEF FileAcc
<1> QED
  BY <1>3, <1>4, <1>5, <1>6 DEF AccInv

(* A property in an entity's file was accepted by the control center for   *)
(* that entity as long as no two requests have one id, whatever is         *)
(* refused, lost, late or answered twice, through restarts and for any     *)
(* number of threads and entities.                                         *)
THEOREM RecordsAreAccepted == Spec => []RecordedWasAccepted
<1> DEFINE I == RInv /\ TInv /\ MsgInv /\ WaitInv /\ AccInv
<1>1. Init => I
  BY InitRInv, InitTInv, InitAcc
<1>2. I /\ [Next]_vars => I'
  BY StepSimulates, NextTInv, MsgStep, WaitStep, AccStep
<1>3. I => RecordedWasAccepted
  BY DEF AccInv, FileAcc, CloudIn, Cloud, RecordedWasAccepted
<1> QED
  BY <1>1, <1>2, <1>3, PTL DEF Spec

=============================================================================
