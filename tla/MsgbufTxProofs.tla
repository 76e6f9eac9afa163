--------------------------- MODULE MsgbufTxProofs ---------------------------
(* The safety of the transmit path for every number of flows, packets,     *)
(* packet ids and slots, whatever is refused, times out or suspends.       *)
EXTENDS MsgbufTx, FiniteSetTheorems, TLAPS

Ring(c) == c.flow

(* A request that is written or answered is due: its ring waits for it,    *)
(* and a ring to be opened has its buffer.                                 *)
Due(m) ==
  /\ m.kind = "create" => status[m.flow] = "CLOSED" /\ buf[m.flow]
  /\ m.kind = "delete" => status[m.flow] = "CLOSING"

Distinct(s) == \A j, k \in DOMAIN s : Ring(s[j]) = Ring(s[k]) => j = k

(* Until a request fails for want of the bus, a closed or closing ring is  *)
(* in one place of the round trip that opens or removes it, an open one in *)
(* none.                                                                   *)
Lifecycle ==
  /\ \A k \in DOMAIN work_queue : status[work_queue[k]] = "CLOSED"
  /\ \A j, k \in DOMAIN work_queue : work_queue[j] = work_queue[k] => j = k
  /\ \A k \in DOMAIN ctl : Due(ctl[k])
  /\ \A k \in DOMAIN ctlcpl : Due(ctlcpl[k])
  /\ Distinct(ctl) /\ Distinct(ctlcpl)
  /\ \A j \in DOMAIN ctl, k \in DOMAIN ctlcpl : Ring(ctl[j]) # Ring(ctlcpl[k])
  /\ \A j \in DOMAIN work_queue, k \in DOMAIN ctl : work_queue[j] # Ring(ctl[k])
  /\ \A j \in DOMAIN work_queue, k \in DOMAIN ctlcpl : work_queue[j] # Ring(ctlcpl[k])
  /\ dpc # "idle" => /\ status[dflow] = "CLOSING"
                     /\ \A k \in DOMAIN ctl : Ring(ctl[k]) # dflow
                     /\ \A k \in DOMAIN ctlcpl : Ring(ctlcpl[k]) # dflow
  /\ \A f \in Flows : status[f] = "OPEN" => buf[f]
  /\ wpc = "post" => status[wflow] = "OPEN"

(* A packet id stands for a packet while it is posted, with the device or  *)
(* reported, and is in one of these places only.                           *)
IdsOnce ==
  /\ \A f \in Flows : \A k \in DOMAIN ring[f] : tx_pktids[ring[f][k]] # NoPkt
  /\ \A f \in Flows : \A i \in held[f] : tx_pktids[i] # NoPkt
  /\ \A k \in DOMAIN txcpl : tx_pktids[txcpl[k].id] # NoPkt
  /\ \A f, g \in Flows : \A j \in DOMAIN ring[f], k \in DOMAIN ring[g] :
       ring[f][j] = ring[g][k] => f = g /\ j = k
  /\ \A f, g \in Flows : \A k \in DOMAIN ring[f] : ring[f][k] \notin held[g]
  /\ \A f \in Flows : \A j \in DOMAIN ring[f], k \in DOMAIN txcpl : ring[f][j] # txcpl[k].id
  /\ \A f, g \in Flows : f # g => held[f] \cap held[g] = {}
  /\ \A f \in Flows : \A k \in DOMAIN txcpl : txcpl[k].id \notin held[f]
  /\ \A j, k \in DOMAIN txcpl : txcpl[j].id = txcpl[k].id => j = k

(* PacketsInOrder, pair by pair.                                           *)
Order ==
  /\ \A f \in Flows : \A j, k \in DOMAIN ring[f] :
       j < k => tx_pktids[ring[f][j]] < tx_pktids[ring[f][k]]
  /\ \A f \in Flows : \A j \in DOMAIN ring[f], k \in DOMAIN queue[f] :
       tx_pktids[ring[f][j]] < queue[f][k]
  /\ \A f \in Flows : \A j, k \in DOMAIN queue[f] : j < k => queue[f][j] < queue[f][k]
  /\ hand # NoPkt => /\ \A k \in DOMAIN ring[wflow] : tx_pktids[ring[wflow][k]] < hand
                     /\ \A k \in DOMAIN queue[wflow] : hand < queue[wflow][k]

(* No ring is taken away under the worker or the sender, and a ring that   *)
(* is not there has no packets.                                            *)
RingsAlive ==
  /\ wpc = "post" => status[wflow] # "NULL"
  /\ spc = "new" => status[sflow] # "NULL"
  /\ \A f \in Flows : status[f] = "NULL" => queue[f] = <<>>

(* PacketsConserved, place by place.                                       *)
Queued(p) == \E f \in Flows : p \in Range(queue[f])
HasId(p) == \E i \in PktIds : tx_pktids[i] = p
OnePlace ==
  /\ \A f, g \in Flows : f # g => Range(queue[f]) \cap Range(queue[g]) = {}
  /\ \A i, j \in PktIds : tx_pktids[i] = tx_pktids[j] /\ tx_pktids[i] # NoPkt => i = j
  /\ \A p \in Packets :
       /\ fin[p] \in {0, 1}
       /\ p <= sent <=> (Queued(p) \/ HasId(p) \/ hand = p \/ fin[p] = 1)
       /\ ~(Queued(p) /\ HasId(p)) /\ ~(Queued(p) /\ hand = p) /\ ~(HasId(p) /\ hand = p)
       /\ fin[p] = 1 => ~Queued(p) /\ ~HasId(p) /\ hand # p

IInv == TypeOK /\ (~leftover => Lifecycle) /\ IdsOnce /\ Order /\ RingsAlive /\ OnePlace
-----------------------------------------------------------------------------
(* Sequences. *)

LEMMA Front ==
  ASSUME NEW S, NEW s \in Seq(S), s # <<>>
  PROVE  /\ Head(s) \in S /\ Head(s) = s[1] /\ 1 \in DOMAIN s
         /\ Tail(s) \in Seq(S) /\ Len(Tail(s)) = Len(s) - 1 /\ Len(s) \in Nat /\ Len(s) > 0
         /\ \A k \in DOMAIN Tail(s) : k + 1 \in DOMAIN s /\ Tail(s)[k] = s[k + 1]
  OBVIOUS

LEMMA Back ==
  ASSUME NEW S, NEW s \in Seq(S), NEW e \in S
  PROVE  /\ Append(s, e) \in Seq(S) /\ Len(Append(s, e)) = Len(s) + 1 /\ Len(s) \in Nat
         /\ \A k \in DOMAIN Append(s, e) :
              \/ k \in DOMAIN s /\ Append(s, e)[k] = s[k]
              \/ k = Len(s) + 1 /\ Append(s, e)[k] = e
  OBVIOUS

LEMMA Elements ==
  ASSUME NEW S, NEW s \in Seq(S)
  PROVE  /\ Len(s) \in Nat /\ DOMAIN s = 1 .. Len(s)
         /\ \A k \in DOMAIN s : s[k] \in S
  OBVIOUS

LEMMA Before ==
  ASSUME NEW S, NEW s \in Seq(S), NEW e \in S
  PROVE  /\ << e >> \o s \in Seq(S)
         /\ \A k \in DOMAIN (<< e >> \o s) :
              \/ k = 1 /\ (<< e >> \o s)[k] = e
              \/ k - 1 \in DOMAIN s /\ (<< e >> \o s)[k] = s[k - 1]
  OBVIOUS

-----------------------------------------------------------------------------
(* Types. *)

LEMMA FlowsFromZero ==
  /\ 0 \in Flows /\ Flows \subseteq 0 .. NFlows /\ \A f \in Flows : f \in Int /\ f + 1 \in 0 .. NFlows
  /\ \A f, g \in Flows : f <= g \/ g < f
  BY SizeAssumption DEF Flows

LEMMA SameTypes ==
  /\ RingsOK /\ UNCHANGED rings => RingsOK'
  /\ SenderOK /\ UNCHANGED sender => SenderOK'
  /\ SchedOK /\ UNCHANGED sched => SchedOK'
  /\ WorkerOK /\ UNCHANGED worker => WorkerOK'
  /\ PostsOK /\ UNCHANGED posts => PostsOK'
  /\ DeleterOK /\ UNCHANGED deleter => DeleterOK'
  /\ ControlOK /\ UNCHANGED control => ControlOK'
  /\ DeviceOK /\ UNCHANGED device => DeviceOK'
  /\ IsrOK /\ UNCHANGED isr => IsrOK'
<1>1. RingsOK /\ UNCHANGED rings => RingsOK'
  BY DEF rings, RingsOK
<1>2. SenderOK /\ UNCHANGED sender => SenderOK'
  BY DEF sender, SenderOK
<1>3. SchedOK /\ UNCHANGED sched => SchedOK'
  BY DEF sched, SchedOK
<1>4. WorkerOK /\ UNCHANGED worker => WorkerOK'
  BY DEF worker, WorkerOK
<1>5. PostsOK /\ UNCHANGED posts => PostsOK'
  BY DEF posts, PostsOK
<1>6. DeleterOK /\ UNCHANGED deleter => DeleterOK'
  BY DEF deleter, DeleterOK
<1>7. ControlOK /\ UNCHANGED control => ControlOK'
  BY DEF control, ControlOK
<1>8. DeviceOK /\ UNCHANGED device => DeviceOK'
  BY DEF device, DeviceOK
<1>9. IsrOK /\ UNCHANGED isr => IsrOK'
  BY DEF isr, IsrOK
<1>10. QED
  BY <1>1, <1>2, <1>3, <1>4, <1>5, <1>6, <1>7, <1>8, <1>9

LEMMA InitType == Init => TypeOK
<1> SUFFICES ASSUME Init PROVE TypeOK
  OBVIOUS
<1> USE SizeAssumption, ThresholdAssumption, FlowsFromZero DEF Init
<1>1. RingsOK
  BY DEF RingsOK
<1>2. SenderOK
  BY DEF SenderOK
<1>3. SchedOK /\ DeleterOK /\ IsrOK
  BY DEF SchedOK, DeleterOK, IsrOK
<1>4. WorkerOK
  BY DEF WorkerOK
<1>5. PostsOK
  BY DEF PostsOK
<1>6. ControlOK
  <2>1. ctl \in Seq(Requests) /\ Len(ctl) = 0
    OBVIOUS
  <2>2. ctlpub \in 0 .. Len(ctl)
    BY <2>1
  <2>3. QED
    BY <2>1, <2>2 DEF ControlOK
<1>7. DeviceOK
  BY DEF DeviceOK
<1>8. up \in BOOLEAN /\ work_queue \in Seq(Flows) /\ fin \in [Packets -> Nat]
  OBVIOUS
<1>9. QED
  BY <1>1, <1>2, <1>3, <1>4, <1>5, <1>6, <1>7, <1>8 DEF TypeOK

LEMMA DeleteTypes ==
  ASSUME TypeOK, NEW f \in Flows, FlowringDelete(f), buf' \in [Flows -> BOOLEAN]
  PROVE  RingsOK' /\ fin' \in [Packets -> Nat]
<1>1. RingsOK /\ fin \in [Packets -> Nat]
  BY DEF TypeOK
<1>2. << >> \in Seq(Packets)
  OBVIOUS
<1>3. \A p \in Packets : fin[p] + (IF p \in Dropped(f) THEN 1 ELSE 0) \in Nat
  BY <1>1
<1>4. fin' \in [Packets -> Nat]
  BY <1>3 DEF FlowringDelete
<1>5. RingsOK'
  BY <1>1, <1>2 DEF FlowringDelete, RingsOK
<1>6. QED
  BY <1>4, <1>5

LEMMA RemoveTypes ==
  ASSUME TypeOK, NEW f \in Flows, RemoveFlowring(f)
  PROVE  RingsOK' /\ fin' \in [Packets -> Nat]
<1>1. buf' \in [Flows -> BOOLEAN]
  BY DEF RemoveFlowring, TypeOK, RingsOK
<1>2. QED
  BY <1>1, DeleteTypes DEF RemoveFlowring

LEMMA SubmitTypes ==
  ASSUME TypeOK, NEW m \in Requests, Submit(m)
  PROVE  ControlOK'
<1>1. ControlOK /\ up \in BOOLEAN
  BY DEF TypeOK
<1>2. ctl' \in Seq(Requests) /\ Len(ctl') = Len(ctl) + 1 /\ Len(ctl) \in Nat
  BY <1>1, Back DEF Submit, ControlOK
<1>3. ctlpub' \in 0 .. Len(ctl')
  BY <1>1, <1>2 DEF Submit, ControlOK
<1>4. QED
  BY <1>1, <1>2, <1>3 DEF Submit, ControlOK

LEMMA SenderTypes == TypeOK /\ SenderStep => TypeOK'
<1> SUFFICES ASSUME TypeOK, SenderStep PROVE TypeOK'
  OBVIOUS
<1> USE SameTypes
<1>0. /\ up \in BOOLEAN /\ work_queue \in Seq(Flows) /\ fin \in [Packets -> Nat]
      /\ RingsOK /\ SenderOK /\ SchedOK /\ WorkerOK /\ PostsOK
      /\ DeleterOK /\ ControlOK /\ DeviceOK /\ IsrOK
  BY DEF TypeOK
<1>1. ASSUME NEW f \in Flows, FlowringCreate(f) PROVE TypeOK'
  <2>1. work_queue' \in Seq(Flows)
    BY <1>0, <1>1, Back DEF FlowringCreate
  <2>2. RingsOK' /\ SenderOK'
    BY <1>0, <1>1 DEF FlowringCreate, RingsOK, SenderOK
  <2>3. QED
    BY <1>0, <1>1, <2>1, <2>2 DEF FlowringCreate, TypeOK
<1>2. ASSUME sent < NPackets, NEW f \in Flows, UNCHANGED << status, buf >>,
             queue' = [queue EXCEPT ![f] = Append(@, sent + 1)], sent' = sent + 1
      PROVE  RingsOK' /\ sent' \in 0 .. NPackets
  <2>1. sent + 1 \in Packets /\ sent + 1 \in 0 .. NPackets
    BY <1>0, <1>2, SizeAssumption DEF Packets, SenderOK
  <2>2. Append(queue[f], sent + 1) \in Seq(Packets)
    BY <1>0, <2>1, Back DEF RingsOK
  <2>3. QED
    BY <1>0, <1>2, <2>1, <2>2 DEF RingsOK
<1>3. ASSUME NEW f \in Flows, Enqueue(f) PROVE TypeOK'
  <2>1. RingsOK' /\ sent' \in 0 .. NPackets
    BY <1>2, <1>3 DEF Enqueue
  <2>2. SenderOK'
    BY <1>0, <1>3, <2>1 DEF Enqueue, SenderOK
  <2>3. QED
    BY <1>0, <1>3, <2>1, <2>2 DEF Enqueue, TypeOK
<1>4. CASE EnqueueNew
  <2>1. RingsOK' /\ sent' \in 0 .. NPackets
    BY <1>0, <1>2, <1>4 DEF EnqueueNew, SenderOK
  <2>2. SenderOK'
    BY <1>0, <1>4, <2>1 DEF EnqueueNew, SenderOK
  <2>3. QED
    BY <1>0, <1>4, <2>1, <2>2 DEF EnqueueNew, TypeOK
<1>5. CASE MarkFlow
  <2>1. SenderOK' /\ SchedOK'
    BY <1>0, <1>5 DEF MarkFlow, SenderOK, SchedOK
  <2>2. QED
    BY <1>0, <1>5, <2>1 DEF MarkFlow, TypeOK
<1>6. CASE QueueWork
  <2>1. SenderOK' /\ SchedOK'
    BY <1>0, <1>6 DEF QueueWork, SenderOK, SchedOK, NeedsWork
  <2>2. QED
    BY <1>0, <1>6, <2>1 DEF QueueWork, TypeOK
<1>7. QED
  BY <1>1, <1>3, <1>4, <1>5, <1>6 DEF SenderStep

LEMMA WriteTypes ==
  ASSUME TypeOK, NEW f \in Flows, WriteComplete(f) \/ UNCHANGED pub
  PROVE  pub' \in [Flows -> Nat] /\ \A g \in Flows : pub'[g] <= Len(ring[g])
<1>1. /\ pub \in [Flows -> Nat] /\ \A g \in Flows : pub[g] <= Len(ring[g])
      /\ Len(ring[f]) \in Nat
  BY Elements DEF TypeOK, PostsOK
<1>2. pub' = pub \/ pub' = [pub EXCEPT ![f] = Len(ring[f])]
  BY DEF WriteComplete
<1>3. QED
  BY <1>1, <1>2

LEMMA FinishTypes ==
  ASSUME TypeOK, wpc \in {"loop", "post"}, FinishFlow, UNCHANGED << ring, tx_pktids, outstanding_tx >>,
         hand' = NoPkt
  PROVE  WorkerOK' /\ PostsOK'
<1>1. WorkerOK /\ PostsOK /\ wflow \in Flows
  BY DEF TypeOK, WorkerOK
<1>2. PostsOK'
  BY <1>1, WriteTypes DEF FinishFlow, PostsOK
<1>3. wflow' \in 0 .. NFlows /\ 0 \in 0 .. Flush2 - 1
  BY <1>1, FlowsFromZero, ThresholdAssumption DEF FinishFlow
<1>4. QED
  BY <1>1, <1>2, <1>3 DEF FinishFlow, WorkerOK

LEMMA PostTypes == TypeOK /\ Post => PostsOK' /\ WorkerOK'
<1> SUFFICES ASSUME TypeOK, Post PROVE PostsOK' /\ WorkerOK'
  OBVIOUS
<1>1. WorkerOK /\ PostsOK /\ wflow \in Flows /\ hand \in Packets
  BY DEF TypeOK, WorkerOK, Post
<1>2. PICK i \in FreeIds : /\ tx_pktids' = [tx_pktids EXCEPT ![i] = hand]
                           /\ ring' = [ring EXCEPT ![wflow] = Append(@, i)]
  BY DEF Post
<1>3. /\ Append(ring[wflow], i) \in Seq(PktIds) /\ Len(ring[wflow]) \in Nat
      /\ Len(Append(ring[wflow], i)) = Len(ring[wflow]) + 1
  BY <1>1, <1>2, Back DEF PostsOK, FreeIds
<1>4. ring' \in [Flows -> Seq(PktIds)] /\ \A f \in Flows : Len(ring'[f]) <= Slots
  BY <1>1, <1>2, <1>3, SizeAssumption DEF PostsOK, Post, HasRoom
<1>5. tx_pktids' \in [PktIds -> Packets \cup {NoPkt}] /\ outstanding_tx' \in [Flows -> Int]
  <2>1. tx_pktids' \in [PktIds -> Packets \cup {NoPkt}]
    BY <1>1, <1>2 DEF PostsOK
  <2>2. outstanding_tx[wflow] + 1 \in Int /\ outstanding_tx \in [Flows -> Int]
    BY <1>1 DEF PostsOK
  <2>3. QED
    BY <2>1, <2>2 DEF Post, CountPost
<1>6. \A f \in Flows : pub[f] \in Nat /\ pub[f] <= Len(ring'[f])
  BY <1>1, <1>2, <1>3 DEF PostsOK
<1>7. pub' \in [Flows -> Nat] /\ \A f \in Flows : pub'[f] <= Len(ring'[f])
  <2>1. Len(ring'[wflow]) \in Nat
    BY <1>1, <1>2, <1>3 DEF PostsOK
  <2>2. pub \in [Flows -> Nat] /\ (pub' = pub \/ pub' = [pub EXCEPT ![wflow] = Len(ring'[wflow])])
    BY <1>1 DEF PostsOK, Post
  <2>3. QED
    BY <1>1, <1>6, <2>1, <2>2
<1>8. count' \in 0 .. Flush2 - 1
  BY <1>1, ThresholdAssumption DEF Post, WorkerOK
<1>9. QED
  BY <1>1, <1>4, <1>5, <1>7, <1>8 DEF PostsOK, WorkerOK, Post

LEMMA WorkerTypes == TypeOK /\ WorkerStep => TypeOK'
<1> SUFFICES ASSUME TypeOK, WorkerStep PROVE TypeOK'
  OBVIOUS
<1> USE SameTypes
<1>0. /\ up \in BOOLEAN /\ work_queue \in Seq(Flows) /\ fin \in [Packets -> Nat]
      /\ RingsOK /\ SenderOK /\ SchedOK /\ WorkerOK /\ PostsOK
      /\ DeleterOK /\ ControlOK /\ DeviceOK /\ IsrOK
  BY DEF TypeOK
<1>1. CASE StartWork
  <2>1. 0 \in 0 .. NFlows
    BY FlowsFromZero
  <2>2. SchedOK' /\ WorkerOK'
    BY <1>0, <1>1, <2>1 DEF StartWork, SchedOK, WorkerOK
  <2>3. QED
    BY <1>0, <1>1, <2>2 DEF StartWork, TypeOK
<1>2. CASE Scan
  <2>1. SchedOK' /\ hand' = hand /\ hand = NoPkt
    BY <1>0, <1>2 DEF Scan, SchedOK, WorkerOK
  <2>2. WorkerOK'
    <3>1. CASE wpc' = "idle" /\ UNCHANGED << wflow, count >>
      BY <1>0, <2>1, <3>1 DEF WorkerOK
    <3>2. CASE wpc' = "scan" /\ count' = count /\ \E f \in flow_map : wflow' = f + 1
      <4>1. wflow' \in 0 .. NFlows
        BY <1>0, <3>2, FlowsFromZero DEF SchedOK
      <4>2. QED
        BY <1>0, <2>1, <3>2, <4>1 DEF WorkerOK
    <3>3. CASE wpc' = "loop" /\ count' = Flush2 - Flush1 /\ wflow' \in flow_map
      <4>1. wflow' \in Flows /\ wflow' \in 0 .. NFlows /\ count' \in 0 .. Flush2 - 1
        BY <1>0, <3>3, FlowsFromZero, ThresholdAssumption DEF SchedOK
      <4>2. QED
        BY <2>1, <3>3, <4>1 DEF WorkerOK
    <3>4. QED
      BY <1>2, <3>1, <3>2, <3>3 DEF Scan
  <2>3. QED
    BY <1>0, <1>2, <2>1, <2>2 DEF Scan, TypeOK
<1>3. CASE Dequeue
  <2>1. wflow \in Flows /\ queue[wflow] \in Seq(Packets) /\ queue[wflow] # << >>
    BY <1>0, <1>3 DEF Dequeue, WorkerOK, RingsOK
  <2>2. Head(queue[wflow]) \in Packets /\ Tail(queue[wflow]) \in Seq(Packets)
    BY <2>1, Front
  <2>3. RingsOK'
    BY <1>0, <1>3, <2>1, <2>2 DEF Dequeue, RingsOK
  <2>4. WorkerOK'
    BY <1>0, <1>3, <2>1, <2>2, NoPktAssumption DEF Dequeue, WorkerOK
  <2>5. QED
    BY <1>0, <1>3, <2>3, <2>4 DEF Dequeue, TypeOK
<1>4. CASE NothingQueued
  <2>1. hand' = NoPkt
    BY <1>0, <1>4 DEF NothingQueued, WorkerOK
  <2>2. WorkerOK' /\ PostsOK'
    BY <1>4, <2>1, FinishTypes DEF NothingQueued
  <2>3. QED
    BY <1>0, <1>4, <2>2 DEF NothingQueued, TypeOK
<1>5. CASE Post
  <2>1. WorkerOK' /\ PostsOK'
    BY <1>5, PostTypes
  <2>2. QED
    BY <1>0, <1>5, <2>1 DEF Post, TypeOK
<1>6. CASE PutBack
  <2>1. wflow \in Flows /\ queue[wflow] \in Seq(Packets) /\ hand \in Packets
    BY <1>0, <1>6 DEF PutBack, WorkerOK, RingsOK
  <2>2. Reinserted(wflow) \in Seq(Packets)
    BY <2>1, Before DEF Reinserted
  <2>3. RingsOK'
    BY <1>0, <1>6, <2>1, <2>2 DEF PutBack, RingsOK
  <2>4. WorkerOK' /\ PostsOK'
    BY <1>6, FinishTypes DEF PutBack
  <2>5. QED
    BY <1>0, <1>6, <2>3, <2>4 DEF PutBack, TypeOK
<1>7. QED
  BY <1>1, <1>2, <1>3, <1>4, <1>5, <1>6 DEF WorkerStep

LEMMA CreatorTypes == TypeOK /\ CreatorStep => TypeOK'
<1> SUFFICES ASSUME TypeOK, CreatorStep PROVE TypeOK'
  OBVIOUS
<1> USE SameTypes
<1>0. /\ up \in BOOLEAN /\ work_queue \in Seq(Flows) /\ fin \in [Packets -> Nat]
      /\ RingsOK /\ SenderOK /\ SchedOK /\ WorkerOK /\ PostsOK
      /\ DeleterOK /\ ControlOK /\ DeviceOK /\ IsrOK
  BY DEF TypeOK
<1>1. work_queue # << >> => Head(work_queue) \in Flows /\ Tail(work_queue) \in Seq(Flows)
  BY <1>0, Front
<1>2. CASE CreateWorker
  <2> DEFINE f == Head(work_queue)
  <2>1. f \in Flows /\ work_queue' \in Seq(Flows)
    BY <1>1, <1>2 DEF CreateWorker
  <2>2. [kind |-> "create", flow |-> f] \in Requests /\ Submit([kind |-> "create", flow |-> f])
    BY <1>2, <2>1 DEF CreateWorker, Requests
  <2>3. ControlOK'
    BY <2>2, SubmitTypes
  <2>4. RingsOK' /\ fin' \in [Packets -> Nat]
    <3>1. CASE up
      <4>1. buf' = [buf EXCEPT ![f] = TRUE] /\ UNCHANGED << status, queue, fin >>
        BY <1>2, <3>1 DEF CreateWorker
      <4>2. QED
        BY <1>0, <4>1 DEF RingsOK
    <3>2. CASE ~up
      <4>1. RemoveFlowring(f)
        BY <1>2, <3>2 DEF CreateWorker
      <4>2. QED
        BY <2>1, <4>1, RemoveTypes
    <3>3. QED
      BY <3>1, <3>2
  <2>5. PostsOK'
    <3>1. /\ ring' = [ring EXCEPT ![f] = << >>] /\ pub' = [pub EXCEPT ![f] = 0]
          /\ UNCHANGED << tx_pktids, outstanding_tx >>
      BY <1>2 DEF CreateWorker
    <3>2. << >> \in Seq(PktIds) /\ Len(<< >>) = 0
      OBVIOUS
    <3>3. QED
      BY <1>0, <2>1, <3>1, <3>2, SizeAssumption DEF PostsOK
  <2>6. UNCHANGED << up, sender, sched, worker, deleter, device, isr >>
    BY <1>2 DEF CreateWorker
  <2>7. QED
    BY <1>0, <2>1, <2>3, <2>4, <2>5, <2>6 DEF TypeOK
<1>3. CASE CreateWorkerFails
  <2>1. Head(work_queue) \in Flows /\ work_queue' \in Seq(Flows)
    BY <1>1, <1>3 DEF CreateWorkerFails
  <2>2. RingsOK' /\ fin' \in [Packets -> Nat]
    BY <1>3, <2>1, RemoveTypes DEF CreateWorkerFails
  <2>3. PostsOK'
    <3>1. CASE UNCHANGED << ring, pub >>
      BY <1>0, <1>3, <3>1 DEF CreateWorkerFails, PostsOK
    <3>2. CASE /\ ring' = [ring EXCEPT ![Head(work_queue)] = << >>]
               /\ pub' = [pub EXCEPT ![Head(work_queue)] = 0]
      <4>1. << >> \in Seq(PktIds) /\ Len(<< >>) = 0
        OBVIOUS
      <4>2. QED
        BY <1>0, <1>3, <2>1, <3>2, <4>1, SizeAssumption DEF CreateWorkerFails, PostsOK
    <3>3. QED
      BY <1>3, <3>1, <3>2 DEF CreateWorkerFails
  <2>4. QED
    BY <1>0, <1>3, <2>1, <2>2, <2>3 DEF CreateWorkerFails, TypeOK
<1>4. QED
  BY <1>2, <1>3 DEF CreatorStep

LEMMA DeleterTypes == TypeOK /\ DeleterStep => TypeOK'
<1> SUFFICES ASSUME TypeOK, DeleterStep PROVE TypeOK'
  OBVIOUS
<1> USE SameTypes
<1>0. /\ up \in BOOLEAN /\ work_queue \in Seq(Flows) /\ fin \in [Packets -> Nat]
      /\ RingsOK /\ SenderOK /\ SchedOK /\ WorkerOK /\ PostsOK
      /\ DeleterOK /\ ControlOK /\ DeviceOK /\ IsrOK
  BY DEF TypeOK
<1>1. ASSUME NEW f \in Flows, Closing(f) PROVE TypeOK'
  <2>1. RingsOK' /\ DeleterOK'
    BY <1>0, <1>1 DEF Closing, RingsOK, DeleterOK
  <2>2. QED
    BY <1>0, <1>1, <2>1 DEF Closing, TypeOK
<1>2. CASE WaitOutstanding
  <2>1. DeleterOK'
    BY <1>0, <1>2 DEF WaitOutstanding, DeleterOK
  <2>2. QED
    BY <1>0, <1>2, <2>1 DEF WaitOutstanding, TypeOK
<1>3. CASE WaitTimesOut
  <2>1. DeleterOK' /\ PostsOK'
    BY <1>0, <1>3 DEF WaitTimesOut, DeleterOK, PostsOK
  <2>2. QED
    BY <1>0, <1>3, <2>1 DEF WaitTimesOut, TypeOK
<1>4. CASE CheckBus
  <2>1. DeleterOK'
    BY <1>0, <1>4 DEF CheckBus, DeleterOK
  <2>2. QED
    BY <1>0, <1>4, <2>1 DEF CheckBus, TypeOK
<1>5. CASE WriteDelete
  <2>1. dflow \in Flows /\ DeleterOK'
    BY <1>0, <1>5 DEF WriteDelete, DeleterOK
  <2>2. [kind |-> "delete", flow |-> dflow] \in Requests /\ Submit([kind |-> "delete", flow |-> dflow])
    BY <1>5, <2>1 DEF WriteDelete, Requests
  <2>3. ControlOK'
    BY <2>2, SubmitTypes
  <2>4. RingsOK' /\ fin' \in [Packets -> Nat]
    <3>1. UNCHANGED << rings, fin >> \/ RemoveFlowring(dflow)
      BY <1>5 DEF WriteDelete
    <3>2. QED
      BY <1>0, <2>1, <3>1, RemoveTypes
  <2>5. QED
    BY <1>0, <1>5, <2>1, <2>3, <2>4 DEF WriteDelete, TypeOK
<1>6. CASE RemoveAtOnce
  <2>1. dflow \in Flows /\ DeleterOK'
    BY <1>0, <1>6 DEF RemoveAtOnce, DeleterOK
  <2>2. RingsOK' /\ fin' \in [Packets -> Nat]
    BY <1>6, <2>1, RemoveTypes DEF RemoveAtOnce
  <2>3. QED
    BY <1>0, <1>6, <2>1, <2>2 DEF RemoveAtOnce, TypeOK
<1>7. QED
  BY <1>1, <1>2, <1>3, <1>4, <1>5, <1>6 DEF DeleterStep

LEMMA DeviceTypes == TypeOK /\ DeviceStep => TypeOK'
<1> SUFFICES ASSUME TypeOK, DeviceStep PROVE TypeOK'
  OBVIOUS
<1> USE SameTypes
<1>0. /\ up \in BOOLEAN /\ work_queue \in Seq(Flows) /\ fin \in [Packets -> Nat]
      /\ RingsOK /\ SenderOK /\ SchedOK /\ WorkerOK /\ PostsOK
      /\ DeleterOK /\ ControlOK /\ DeviceOK /\ IsrOK
  BY DEF TypeOK
<1>1. CASE DevControl
  <2>1. ctl # << >> /\ ctl \in Seq(Requests) /\ ctlpub \in 1 .. Len(ctl)
    BY <1>0, <1>1 DEF DevControl, ControlOK
  <2>2. Head(ctl) \in Requests /\ Tail(ctl) \in Seq(Requests) /\ Len(Tail(ctl)) = Len(ctl) - 1
    BY <2>1, Front
  <2>3. ctlpub - 1 \in 0 .. Len(ctl) - 1
    BY <2>1
  <2>4. ControlOK'
    BY <1>0, <1>1, <2>2, <2>3 DEF DevControl, ControlOK
  <2>5. PICK ok \in Answers :
          /\ ctlcpl' = Append(ctlcpl, [kind |-> Head(ctl).kind, flow |-> Head(ctl).flow, ok |-> ok])
          /\ devopen' = CASE ~ok -> devopen
                          [] Head(ctl).kind = "create" -> devopen \cup {Head(ctl).flow}
                          [] OTHER -> devopen \ {Head(ctl).flow}
    BY <1>1 DEF DevControl
  <2>6. [kind |-> Head(ctl).kind, flow |-> Head(ctl).flow, ok |-> ok] \in Responses
    BY <2>2, <2>5 DEF Requests, Responses, Answers
  <2>7. ctlcpl' \in Seq(Responses)
    BY <1>0, <2>5, <2>6, Back DEF DeviceOK
  <2>8. devopen' \subseteq Flows
    BY <1>0, <2>2, <2>5 DEF DeviceOK, Requests, Answers
  <2>9. DeviceOK'
    BY <1>0, <1>1, <2>7, <2>8 DEF DevControl, DeviceOK
  <2>10. QED
    BY <1>0, <1>1, <2>4, <2>9 DEF DevControl, TypeOK
<1>2. ASSUME NEW f \in Flows, DevTake(f) PROVE TypeOK'
  <2>1. ring[f] \in Seq(PktIds) /\ Len(ring[f]) <= Slots /\ pub[f] \in Nat /\ pub[f] > 0 /\ pub[f] <= Len(ring[f])
    BY <1>0, <1>2 DEF DevTake, PostsOK
  <2>2. ring[f] # << >>
    BY <2>1
  <2>3. /\ Head(ring[f]) \in PktIds /\ Tail(ring[f]) \in Seq(PktIds)
        /\ Len(Tail(ring[f])) = Len(ring[f]) - 1 /\ Len(ring[f]) \in Nat
    BY <2>1, <2>2, Front
  <2>4. ring' \in [Flows -> Seq(PktIds)] /\ pub' \in [Flows -> Nat]
    BY <1>0, <1>2, <2>1, <2>3 DEF DevTake, PostsOK
  <2>5. \A g \in Flows : Len(ring'[g]) <= Slots /\ pub'[g] <= Len(ring'[g])
    BY <1>0, <1>2, <2>1, <2>3, SizeAssumption DEF DevTake, PostsOK
  <2>6. PostsOK'
    BY <1>0, <1>2, <2>4, <2>5 DEF DevTake, PostsOK
  <2>7. DeviceOK'
    BY <1>0, <1>2, <2>3 DEF DevTake, DeviceOK
  <2>8. QED
    BY <1>0, <1>2, <2>6, <2>7 DEF DevTake, TypeOK
<1>3. ASSUME NEW f \in Flows, DevComplete(f) PROVE TypeOK'
  <2>1. PICK i \in held[f] : /\ held' = [held EXCEPT ![f] = @ \ {i}]
                             /\ txcpl' = Append(txcpl, [flow |-> f, id |-> i])
    BY <1>3 DEF DevComplete
  <2>2. [flow |-> f, id |-> i] \in [flow : Flows, id : PktIds]
    BY <1>0, <2>1 DEF DeviceOK
  <2>3. txcpl' \in Seq([flow : Flows, id : PktIds])
    BY <1>0, <2>1, <2>2, Back DEF DeviceOK
  <2>4. DeviceOK'
    BY <1>0, <1>3, <2>1, <2>3 DEF DevComplete, DeviceOK
  <2>5. QED
    BY <1>0, <1>3, <2>4 DEF DevComplete, TypeOK
<1>4. QED
  BY <1>1, <1>2, <1>3 DEF DeviceStep

LEMMA TxstatusTypes == TypeOK /\ ProcessTxstatus => PostsOK' /\ DeviceOK' /\ IsrOK' /\ fin' \in [Packets -> Nat]
<1> SUFFICES ASSUME TypeOK, ProcessTxstatus
             PROVE  PostsOK' /\ DeviceOK' /\ IsrOK' /\ fin' \in [Packets -> Nat]
  OBVIOUS
<1>0. PostsOK /\ DeviceOK /\ IsrOK /\ fin \in [Packets -> Nat]
  BY DEF TypeOK
<1> DEFINE c == Head(txcpl)
           p == tx_pktids[c.id]
<1>1. c \in [flow : Flows, id : PktIds] /\ txcpl' \in Seq([flow : Flows, id : PktIds])
  BY <1>0, Front DEF ProcessTxstatus, DeviceOK
<1>2. c.flow \in Flows /\ c.id \in PktIds /\ p \in Packets \cup {NoPkt}
  BY <1>0, <1>1 DEF PostsOK
<1>3. DeviceOK'
  BY <1>0, <1>1 DEF ProcessTxstatus, DeviceOK
<1>4. CASE UNCHANGED << tx_pktids, outstanding_tx, fin, txstatus_done_map >>
  BY <1>0, <1>3, <1>4 DEF ProcessTxstatus, PostsOK, IsrOK
<1>5. CASE /\ p # NoPkt
           /\ tx_pktids' = [tx_pktids EXCEPT ![c.id] = NoPkt]
           /\ outstanding_tx' = [outstanding_tx EXCEPT ![c.flow] = @ - 1]
           /\ fin' = [fin EXCEPT ![p] = @ + 1]
           /\ txstatus_done_map' = txstatus_done_map \cup {c.flow}
  <2>1. fin' \in [Packets -> Nat]
    BY <1>0, <1>2, <1>5
  <2>2. tx_pktids' \in [PktIds -> Packets \cup {NoPkt}]
    BY <1>0, <1>2, <1>5 DEF PostsOK
  <2>3. outstanding_tx' \in [Flows -> Int]
    BY <1>0, <1>2, <1>5 DEF PostsOK
  <2>4. UNCHANGED << ring, pub, ipc, ipos >>
    BY DEF ProcessTxstatus
  <2>5. PostsOK' /\ IsrOK'
    BY <1>0, <1>2, <1>5, <2>2, <2>3, <2>4 DEF PostsOK, IsrOK
  <2>6. QED
    BY <1>3, <2>1, <2>5
<1>6. QED
  BY <1>4, <1>5 DEF ProcessTxstatus

LEMMA IsrTypes == TypeOK /\ IsrStep => TypeOK'
<1> SUFFICES ASSUME TypeOK, IsrStep PROVE TypeOK'
  OBVIOUS
<1> USE SameTypes
<1>0. /\ up \in BOOLEAN /\ work_queue \in Seq(Flows) /\ fin \in [Packets -> Nat]
      /\ RingsOK /\ SenderOK /\ SchedOK /\ WorkerOK /\ PostsOK
      /\ DeleterOK /\ ControlOK /\ DeviceOK /\ IsrOK
  BY DEF TypeOK
<1>1. CASE StartIsr
  <2>1. IsrOK'
    BY <1>0, <1>1 DEF StartIsr, IsrOK
  <2>2. QED
    BY <1>0, <1>1, <2>1 DEF StartIsr, TypeOK
<1>2. CASE ProcessTxstatus
  <2>1. PostsOK' /\ DeviceOK' /\ IsrOK' /\ fin' \in [Packets -> Nat]
    BY <1>2, TxstatusTypes
  <2>2. QED
    BY <1>0, <1>2, <2>1 DEF ProcessTxstatus, TypeOK
<1>3. CASE TxDone
  <2>1. IsrOK'
    BY <1>0, <1>3 DEF TxDone, IsrOK
  <2>2. QED
    BY <1>0, <1>3, <2>1 DEF TxDone, TypeOK
<1>4. ctlcpl # << >> => Head(ctlcpl) \in Responses /\ Head(ctlcpl).flow \in Flows /\ Tail(ctlcpl) \in Seq(Responses)
  <2>1. ASSUME ctlcpl # << >> PROVE Head(ctlcpl) \in Responses /\ Tail(ctlcpl) \in Seq(Responses)
    BY <1>0, <2>1, Front DEF DeviceOK
  <2>2. QED
    BY <2>1 DEF Responses
<1>5. CASE CreateResponse
  <2> DEFINE f == Head(ctlcpl).flow
  <2>1. f \in Flows /\ ctlcpl' \in Seq(Responses)
    BY <1>4, <1>5 DEF CreateResponse
  <2>2. DeviceOK'
    BY <1>0, <1>5, <2>1 DEF CreateResponse, DeviceOK
  <2>3. RingsOK' /\ SchedOK' /\ fin' \in [Packets -> Nat]
    <3>1. CASE /\ status' = IF status[f] = "NULL" THEN status ELSE [status EXCEPT ![f] = "OPEN"]
               /\ ScheduleTx(f) /\ UNCHANGED << queue, buf, fin >>
      BY <1>0, <2>1, <3>1 DEF RingsOK, SchedOK, ScheduleTx
    <3>2. CASE RemoveFlowring(f) /\ UNCHANGED sched
      BY <1>0, <2>1, <3>2, RemoveTypes
    <3>3. QED
      BY <1>5, <3>1, <3>2 DEF CreateResponse
  <2>4. QED
    BY <1>0, <1>5, <2>2, <2>3 DEF CreateResponse, TypeOK
<1>6. CASE DeleteResponse
  <2> DEFINE f == Head(ctlcpl).flow
  <2>1. f \in Flows /\ ctlcpl' \in Seq(Responses)
    BY <1>4, <1>6 DEF DeleteResponse
  <2>2. DeviceOK'
    BY <1>0, <1>6, <2>1 DEF DeleteResponse, DeviceOK
  <2>3. FlowringDelete(f) /\ buf' \in [Flows -> BOOLEAN]
    BY <1>0, <1>6, <2>1 DEF DeleteResponse, RingsOK
  <2>4. RingsOK' /\ fin' \in [Packets -> Nat]
    BY <2>1, <2>3, DeleteTypes
  <2>5. QED
    BY <1>0, <1>6, <2>2, <2>4 DEF DeleteResponse, TypeOK
<1>7. CASE ControlDone
  <2>1. 0 \in 0 .. NFlows
    BY FlowsFromZero
  <2>2. IsrOK'
    BY <1>0, <1>7, <2>1 DEF ControlDone, IsrOK
  <2>3. QED
    BY <1>0, <1>7, <2>2 DEF ControlDone, TypeOK
<1>8. CASE Trigger
  <2>1. IsrOK' /\ SchedOK'
    <3>1. CASE UNCHANGED << sched, ipos, txstatus_done_map >> /\ ipc' = "idle"
      BY <1>0, <3>1 DEF IsrOK
    <3>2. ASSUME NEW f \in txstatus_done_map, txstatus_done_map' = txstatus_done_map \ {f},
                 ipos' = f + 1, ScheduleTx(f) \/ UNCHANGED sched, UNCHANGED ipc
          PROVE  IsrOK' /\ SchedOK'
      <4>1. f \in Flows /\ f + 1 \in 0 .. NFlows
        BY <1>0, FlowsFromZero DEF IsrOK
      <4>2. SchedOK'
        BY <1>0, <3>2, <4>1 DEF ScheduleTx, SchedOK
      <4>3. QED
        BY <1>0, <3>2, <4>1, <4>2 DEF IsrOK
    <3>3. QED
      BY <1>8, <3>1, <3>2 DEF Trigger
  <2>2. QED
    BY <1>0, <1>8, <2>1 DEF Trigger, TypeOK
<1>9. QED
  BY <1>1, <1>2, <1>3, <1>5, <1>6, <1>7, <1>8 DEF IsrStep

LEMMA BusTypes == TypeOK /\ BusDownUp => TypeOK'
  BY SameTypes DEF TypeOK, BusDownUp

LEMMA StutterTypes == TypeOK /\ UNCHANGED vars => TypeOK'
  BY SameTypes DEF TypeOK, vars

LEMMA StepType == TypeOK /\ [Next]_vars => TypeOK'
  BY SenderTypes, WorkerTypes, CreatorTypes, DeleterTypes, DeviceTypes, IsrTypes, BusTypes, StutterTypes DEF Next

-----------------------------------------------------------------------------
(* The round trips of flow rings. *)

LEMMA SameLifecycle ==
  /\ UNCHANGED << status, buf, work_queue, ctl, ctlcpl, dpc, dflow, wpc, wflow >>
  /\ Lifecycle
  => Lifecycle'
  BY DEF Lifecycle, Distinct, Ring, Due

LEMMA Roundtrips ==
  ASSUME TypeOK
  PROVE  /\ status \in [Flows -> {"NULL", "CLOSED", "CLOSING", "OPEN"}] /\ buf \in [Flows -> BOOLEAN]
         /\ work_queue \in Seq(Flows) /\ ctl \in Seq(Requests) /\ ctlcpl \in Seq(Responses)
         /\ wflow \in 0 .. NFlows /\ (wpc = "post" => wflow \in Flows) /\ dflow \in Flows
         /\ \A k \in DOMAIN work_queue : work_queue[k] \in Flows
         /\ \A k \in DOMAIN ctl : ctl[k].kind \in {"create", "delete"} /\ ctl[k].flow \in Flows
         /\ \A k \in DOMAIN ctlcpl : ctlcpl[k].kind \in {"create", "delete"} /\ ctlcpl[k].flow \in Flows
<1>1. /\ status \in [Flows -> {"NULL", "CLOSED", "CLOSING", "OPEN"}] /\ buf \in [Flows -> BOOLEAN]
      /\ work_queue \in Seq(Flows) /\ ctl \in Seq(Requests) /\ ctlcpl \in Seq(Responses)
      /\ wflow \in 0 .. NFlows /\ (wpc = "post" => wflow \in Flows) /\ dflow \in Flows
  BY DEF TypeOK, RingsOK, ControlOK, DeviceOK, WorkerOK, DeleterOK
<1>2. \A k \in DOMAIN work_queue : work_queue[k] \in Flows
  BY <1>1, Elements
<1>3. ASSUME NEW k \in DOMAIN ctl PROVE ctl[k].kind \in {"create", "delete"} /\ ctl[k].flow \in Flows
  <2>1. ctl[k] \in Requests
    BY <1>1, Elements
  <2>2. QED
    BY <2>1 DEF Requests
<1>4. ASSUME NEW k \in DOMAIN ctlcpl PROVE ctlcpl[k].kind \in {"create", "delete"} /\ ctlcpl[k].flow \in Flows
  <2>1. ctlcpl[k] \in Responses
    BY <1>1, Elements
  <2>2. QED
    BY <2>1 DEF Responses
<1>5. QED
  BY <1>1, <1>2, <1>3, <1>4

LEMMA SenderLifecycle ==
  ASSUME TypeOK, Lifecycle, SenderStep
  PROVE  Lifecycle'
<1> USE DEF rings, sender, worker, sched, posts, deleter, control, device, isr
<1>1. ASSUME NEW f \in Flows, FlowringCreate(f) PROVE Lifecycle'
  <2>1. status \in [Flows -> {"NULL", "CLOSED", "CLOSING", "OPEN"}] /\ work_queue \in Seq(Flows)
    BY Roundtrips
  <2>2. /\ status[f] = "NULL" /\ status' = [status EXCEPT ![f] = "CLOSED"]
        /\ work_queue' = Append(work_queue, f)
        /\ UNCHANGED << buf, ctl, ctlcpl, dpc, dflow, wpc, wflow >>
    BY <1>1 DEF FlowringCreate
  <2>3. /\ \A k \in DOMAIN work_queue' : work_queue'[k] # f => k \in DOMAIN work_queue /\ work_queue'[k] = work_queue[k]
        /\ \A j, k \in DOMAIN work_queue' : work_queue'[j] = work_queue'[k] => j = k
    BY <2>1, <2>2, Back, Elements DEF Lifecycle
  <2>4. /\ \A k \in DOMAIN ctl : ctl[k].flow # f /\ Due(ctl[k])'
        /\ \A k \in DOMAIN ctlcpl : ctlcpl[k].flow # f /\ Due(ctlcpl[k])'
    BY <2>2, Roundtrips DEF Lifecycle, Due
  <2>5. \A k \in DOMAIN work_queue' : status'[work_queue'[k]] = "CLOSED"
    BY <2>1, <2>2, <2>3, Elements DEF Lifecycle
  <2>6. /\ dpc' # "idle" => status'[dflow] = "CLOSING" 
        /\ \A g \in Flows : status'[g] = "OPEN" => buf'[g]
        /\ wpc' = "post" => status'[wflow] = "OPEN"
    BY <2>1, <2>2 DEF Lifecycle
  <2>7. QED
    BY <2>1, <2>2, <2>3, <2>4, <2>5, <2>6 DEF Lifecycle, Distinct, Ring
<1>2. ASSUME NEW f \in Flows, Enqueue(f) PROVE Lifecycle'
  BY <1>2, SameLifecycle DEF Enqueue
<1>3. CASE EnqueueNew
  BY <1>3, SameLifecycle DEF EnqueueNew
<1>4. CASE MarkFlow
  BY <1>4, SameLifecycle DEF MarkFlow
<1>5. CASE QueueWork
  BY <1>5, SameLifecycle DEF QueueWork
<1>6. QED
  BY <1>1, <1>2, <1>3, <1>4, <1>5 DEF SenderStep

LEMMA ElsewhereLifecycle ==
  /\ UNCHANGED << status, buf, work_queue, ctl, ctlcpl, dflow >>
  /\ dpc' = dpc \/ dpc # "idle"
  /\ UNCHANGED << wpc, wflow >> \/ wpc' # "post" \/ (wflow' = wflow /\ status[wflow] = "OPEN")
  /\ Lifecycle
  => Lifecycle'
  BY DEF Lifecycle, Distinct, Ring, Due

LEMMA WorkerLifecycle ==
  ASSUME TypeOK, Lifecycle, WorkerStep
  PROVE  Lifecycle'
<1> USE DEF rings, sender, worker, sched, posts, deleter, control, device, isr
<1>1. CASE StartWork
  BY <1>1, ElsewhereLifecycle DEF StartWork
<1>2. CASE Scan
  BY <1>2, ElsewhereLifecycle DEF Scan
<1>3. CASE Dequeue
  BY <1>3, ElsewhereLifecycle DEF Dequeue
<1>4. CASE NothingQueued
  BY <1>4, ElsewhereLifecycle DEF NothingQueued, FinishFlow
<1>5. CASE Post
  BY <1>5, ElsewhereLifecycle DEF Post
<1>6. CASE PutBack
  BY <1>6, ElsewhereLifecycle DEF PutBack, FinishFlow
<1>7. QED
  BY <1>1, <1>2, <1>3, <1>4, <1>5, <1>6 DEF WorkerStep

(* A ring that is due in one place only can be removed there.              *)
LEMMA RemovalLifecycle ==
  ASSUME TypeOK, Lifecycle, NEW f \in Flows, status[f] # "OPEN",
         status' = [status EXCEPT ![f] = "NULL"], \A g \in Flows : g # f => buf'[g] = buf[g],
         UNCHANGED << dflow, wpc, wflow >>, dpc' = "idle" \/ (dpc' = dpc /\ (dpc # "idle" => dflow # f)),
         \/ UNCHANGED work_queue /\ \A k \in DOMAIN work_queue : work_queue[k] # f
         \/ work_queue # << >> /\ work_queue' = Tail(work_queue) /\ f = work_queue[1],
         UNCHANGED ctl, \A k \in DOMAIN ctl : ctl[k].flow # f,
         \/ UNCHANGED ctlcpl /\ \A k \in DOMAIN ctlcpl : ctlcpl[k].flow # f
         \/ ctlcpl # << >> /\ ctlcpl' = Tail(ctlcpl) /\ f = ctlcpl[1].flow
  PROVE  Lifecycle'
<1>1. /\ \A k \in DOMAIN work_queue' : work_queue'[k] \in Flows /\ work_queue'[k] # f /\ status[work_queue'[k]] = "CLOSED"
      /\ \A j, k \in DOMAIN work_queue' : work_queue'[j] = work_queue'[k] => j = k
      /\ \A k \in DOMAIN work_queue' : \E j \in DOMAIN work_queue : work_queue'[k] = work_queue[j]
  <2>1. CASE UNCHANGED work_queue /\ \A k \in DOMAIN work_queue : work_queue[k] # f
    BY <2>1, Roundtrips DEF Lifecycle
  <2>2. CASE work_queue # << >> /\ work_queue' = Tail(work_queue) /\ f = work_queue[1]
    <3>1. work_queue \in Seq(Flows) /\ \A k \in DOMAIN work_queue : work_queue[k] \in Flows
      BY Roundtrips
    <3>2. /\ 1 \in DOMAIN work_queue
          /\ \A k \in DOMAIN work_queue' : k \in Nat \ {0} /\ k + 1 \in DOMAIN work_queue /\ work_queue'[k] = work_queue[k + 1]
      BY <2>2, <3>1, Front
    <3>3. QED
      BY <2>2, <3>1, <3>2 DEF Lifecycle
  <2>3. QED
    BY <2>1, <2>2
<1>2. /\ \A k \in DOMAIN ctlcpl' : \E j \in DOMAIN ctlcpl : ctlcpl'[k] = ctlcpl[j]
      /\ \A k \in DOMAIN ctlcpl' : ctlcpl'[k].flow # f
      /\ \A j, k \in DOMAIN ctlcpl' : ctlcpl'[j].flow = ctlcpl'[k].flow => j = k
  <2>1. CASE UNCHANGED ctlcpl /\ \A k \in DOMAIN ctlcpl : ctlcpl[k].flow # f
    BY <2>1, Roundtrips DEF Lifecycle, Distinct, Ring
  <2>2. CASE ctlcpl # << >> /\ ctlcpl' = Tail(ctlcpl) /\ f = ctlcpl[1].flow
    <3>1. ctlcpl \in Seq(Responses)
      BY Roundtrips
    <3>2. /\ 1 \in DOMAIN ctlcpl
          /\ \A k \in DOMAIN ctlcpl' : k \in Nat \ {0} /\ k + 1 \in DOMAIN ctlcpl /\ ctlcpl'[k] = ctlcpl[k + 1]
      BY <2>2, <3>1, Front
    <3>3. QED
      BY <2>2, <3>1, <3>2 DEF Lifecycle, Distinct, Ring
  <2>3. QED
    BY <2>1, <2>2
<1>3. /\ \A k \in DOMAIN ctl : ctl[k].flow \in Flows /\ ctl[k].flow # f
      /\ \A k \in DOMAIN ctlcpl' : ctlcpl'[k].flow \in Flows /\ ctlcpl'[k].flow # f
  BY <1>2, Roundtrips
<1>4. status \in [Flows -> {"NULL", "CLOSED", "CLOSING", "OPEN"}] /\ dflow \in Flows /\ (wpc = "post" => wflow \in Flows)
  BY Roundtrips
<1>5. /\ \A k \in DOMAIN ctl : Due(ctl[k])'
      /\ \A k \in DOMAIN ctlcpl' : Due(ctlcpl[k])'
  <2>1. ASSUME NEW k \in DOMAIN ctl PROVE Due(ctl[k])'
    BY <1>3, <1>4 DEF Lifecycle, Due
  <2>2. ASSUME NEW k \in DOMAIN ctlcpl' PROVE Due(ctlcpl[k])'
    <3>1. PICK j \in DOMAIN ctlcpl : ctlcpl'[k] = ctlcpl[j]
      BY <1>2
    <3>2. QED
      BY <1>3, <1>4, <3>1 DEF Lifecycle, Due
  <2>3. QED
    BY <2>1, <2>2
<1>6. /\ \A j \in DOMAIN ctl, k \in DOMAIN ctlcpl' : ctl[j].flow # ctlcpl'[k].flow
      /\ \A j \in DOMAIN work_queue', k \in DOMAIN ctl : work_queue'[j] # ctl[k].flow
      /\ \A j \in DOMAIN work_queue', k \in DOMAIN ctlcpl' : work_queue'[j] # ctlcpl'[k].flow
  BY <1>1, <1>2 DEF Lifecycle, Ring
<1>7. dpc' # "idle" => /\ status'[dflow] = "CLOSING"
                       /\ \A k \in DOMAIN ctl : ctl[k].flow # dflow
                       /\ \A k \in DOMAIN ctlcpl' : ctlcpl'[k].flow # dflow
  BY <1>2, <1>4 DEF Lifecycle, Ring
<1>8. /\ \A g \in Flows : status'[g] = "OPEN" => buf'[g]
      /\ wpc = "post" => status'[wflow] = "OPEN"
  BY <1>4 DEF Lifecycle
<1>9. \A k \in DOMAIN work_queue' : status'[work_queue'[k]] = "CLOSED"
  BY <1>1, <1>4
<1>10. \A j, k \in DOMAIN ctl : ctl[j].flow = ctl[k].flow => j = k
  BY DEF Lifecycle, Distinct, Ring
<1>11. QED
  BY <1>1, <1>2, <1>5, <1>6, <1>7, <1>8, <1>9, <1>10 DEF Lifecycle, Distinct, Ring

(* A request is written for a ring that is due nowhere else any more.      *)
LEMMA RequestLifecycle ==
  ASSUME TypeOK, Lifecycle, NEW m \in Requests, ctl' = Append(ctl, m),
         UNCHANGED << status, ctlcpl, dflow, wpc, wflow >>, \A g \in Flows : buf[g] => buf'[g],
         m.kind = "create" => status[m.flow] = "CLOSED" /\ buf'[m.flow],
         m.kind = "delete" => status[m.flow] = "CLOSING",
         dpc' = "idle" \/ (dpc' = dpc /\ (dpc # "idle" => dflow # m.flow)),
         \A k \in DOMAIN ctl : ctl[k].flow # m.flow,
         \A k \in DOMAIN ctlcpl : ctlcpl[k].flow # m.flow,
         \/ UNCHANGED work_queue /\ \A k \in DOMAIN work_queue : work_queue[k] # m.flow
         \/ work_queue # << >> /\ work_queue' = Tail(work_queue) /\ m.flow = work_queue[1]
  PROVE  Lifecycle'
<1>1. /\ \A k \in DOMAIN work_queue' : work_queue'[k] # m.flow /\ status[work_queue'[k]] = "CLOSED"
      /\ \A j, k \in DOMAIN work_queue' : work_queue'[j] = work_queue'[k] => j = k
      /\ \A k \in DOMAIN work_queue' : \E j \in DOMAIN work_queue : work_queue'[k] = work_queue[j]
  <2>1. CASE UNCHANGED work_queue /\ \A k \in DOMAIN work_queue : work_queue[k] # m.flow
    BY <2>1 DEF Lifecycle
  <2>2. CASE work_queue # << >> /\ work_queue' = Tail(work_queue) /\ m.flow = work_queue[1]
    <3>1. work_queue \in Seq(Flows)
      BY Roundtrips
    <3>2. /\ 1 \in DOMAIN work_queue
          /\ \A k \in DOMAIN work_queue' : k \in Nat \ {0} /\ k + 1 \in DOMAIN work_queue /\ work_queue'[k] = work_queue[k + 1]
      BY <2>2, <3>1, Front
    <3>3. QED
      BY <2>2, <3>1, <3>2 DEF Lifecycle
  <2>3. QED
    BY <2>1, <2>2
<1>2. ctl \in Seq(Requests) /\ m.flow \in Flows
  BY Roundtrips DEF Requests
<1>3. \A k \in DOMAIN ctl' : (k \in DOMAIN ctl /\ ctl'[k] = ctl[k]) \/ (k = Len(ctl) + 1 /\ ctl'[k] = m)
  BY <1>2, Back
<1>4. \A j, k \in DOMAIN ctl' : ctl'[j].flow = ctl'[k].flow => j = k
  BY <1>3 DEF Lifecycle, Distinct, Ring
<1>5. \A k \in DOMAIN ctl' : Due(ctl[k])'
  <2>1. ASSUME NEW k \in DOMAIN ctl' PROVE Due(ctl[k])'
    <3>1. CASE k \in DOMAIN ctl /\ ctl'[k] = ctl[k]
      BY <3>1, Roundtrips DEF Lifecycle, Due
    <3>2. CASE ctl'[k] = m
      BY <3>2 DEF Due
    <3>3. QED
      BY <1>3, <2>1, <3>1, <3>2
  <2>2. QED
    BY <2>1
<1>6. \A k \in DOMAIN ctlcpl : Due(ctlcpl[k])'
  BY Roundtrips DEF Lifecycle, Due
<1>7. /\ \A j \in DOMAIN ctl', k \in DOMAIN ctlcpl : ctl'[j].flow # ctlcpl[k].flow
      /\ \A j \in DOMAIN work_queue', k \in DOMAIN ctl' : work_queue'[j] # ctl'[k].flow
      /\ \A j \in DOMAIN work_queue', k \in DOMAIN ctlcpl : work_queue'[j] # ctlcpl[k].flow
  BY <1>1, <1>3 DEF Lifecycle, Ring
<1>8. dpc' # "idle" => /\ status[dflow] = "CLOSING"
                       /\ \A k \in DOMAIN ctl' : ctl'[k].flow # dflow
                       /\ \A k \in DOMAIN ctlcpl : ctlcpl[k].flow # dflow
  BY <1>3 DEF Lifecycle, Ring
<1>9. /\ \A g \in Flows : status[g] = "OPEN" => buf'[g]
      /\ wpc = "post" => status[wflow] = "OPEN"
      /\ \A j, k \in DOMAIN ctlcpl : ctlcpl[j].flow = ctlcpl[k].flow => j = k
  BY DEF Lifecycle, Distinct, Ring
<1>10. QED
  BY <1>1, <1>4, <1>5, <1>6, <1>7, <1>8, <1>9 DEF Lifecycle, Distinct, Ring

LEMMA CreatorLifecycle ==
  ASSUME TypeOK, Lifecycle, CreatorStep, ~leftover'
  PROVE  Lifecycle'
<1> DEFINE f == Head(work_queue)
<1>0. work_queue # << >> => /\ f \in Flows /\ 1 \in DOMAIN work_queue /\ f = work_queue[1] /\ status[f] = "CLOSED"
                            /\ \A k \in DOMAIN ctl : ctl[k].flow # f
                            /\ \A k \in DOMAIN ctlcpl : ctlcpl[k].flow # f
                            /\ dpc # "idle" => dflow # f
  <2>1. ASSUME work_queue # << >> PROVE f \in Flows /\ 1 \in DOMAIN work_queue /\ f = work_queue[1]
    BY <2>1, Front, Roundtrips
  <2>2. QED
    BY <2>1 DEF Lifecycle, Ring
<1>1. CASE CreateWorker
  <2> DEFINE m == [kind |-> "create", flow |-> f]
  <2>1. work_queue # << >> /\ up
    BY <1>1 DEF CreateWorker, Submit
  <2>2. /\ ctl' = Append(ctl, m) /\ buf' = [buf EXCEPT ![f] = TRUE] /\ work_queue' = Tail(work_queue)
        /\ UNCHANGED << status, ctlcpl, dpc, dflow, wpc, wflow >>
    BY <1>1, <2>1 DEF CreateWorker, Submit, deleter, device, worker
  <2>3. m \in Requests /\ m.kind = "create" /\ m.flow = f
    BY <1>0, <2>1 DEF Requests
  <2>4. buf'[f] /\ \A g \in Flows : buf[g] => buf'[g]
    BY <1>0, <2>1, <2>2, Roundtrips
  <2> HIDE DEF m, f
  <2>5. QED
    BY <1>0, <2>1, <2>2, <2>3, <2>4, RequestLifecycle
<1>2. CASE CreateWorkerFails
  <2>1. /\ status' = [status EXCEPT ![f] = "NULL"] /\ buf' = [buf EXCEPT ![f] = FALSE]
        /\ work_queue # << >> /\ work_queue' = Tail(work_queue)
        /\ UNCHANGED << ctl, ctlcpl, dpc, dflow, wpc, wflow >>
    BY <1>2 DEF CreateWorkerFails, RemoveFlowring, FlowringDelete, control, deleter, device, worker
  <2>2. \A g \in Flows : g # f => buf'[g] = buf[g]
    BY <2>1, Roundtrips
  <2> HIDE DEF f
  <2>3. QED
    BY <1>0, <2>1, <2>2, RemovalLifecycle
<1>3. QED
  BY <1>1, <1>2 DEF CreatorStep

LEMMA DeleterLifecycle ==
  ASSUME TypeOK, Lifecycle, DeleterStep, ~leftover'
  PROVE  Lifecycle'
<1> USE DEF rings, worker, posts, deleter, control, device
<1>0. dpc # "idle" => /\ dflow \in Flows /\ status[dflow] = "CLOSING"
                      /\ \A k \in DOMAIN ctl : ctl[k].flow # dflow
                      /\ \A k \in DOMAIN ctlcpl : ctlcpl[k].flow # dflow
                      /\ \A k \in DOMAIN work_queue : work_queue[k] # dflow
  BY Roundtrips DEF Lifecycle, Ring
<1>1. ASSUME NEW f \in Flows, Closing(f) PROVE Lifecycle'
  <2>1. /\ dpc = "idle" /\ status[f] = "OPEN" /\ (wpc = "post" => wflow # f)
        /\ status' = [status EXCEPT ![f] = "CLOSING"] /\ dpc' = "wait" /\ dflow' = f
        /\ UNCHANGED << buf, work_queue, ctl, ctlcpl, wpc, wflow >>
    BY <1>1 DEF Closing, Locked
  <2>2. /\ \A k \in DOMAIN work_queue : work_queue[k] # f
        /\ \A k \in DOMAIN ctl : ctl[k].flow # f
        /\ \A k \in DOMAIN ctlcpl : ctlcpl[k].flow # f
    BY <2>1, Roundtrips DEF Lifecycle, Due
  <2>3. /\ \A k \in DOMAIN work_queue : status'[work_queue[k]] = "CLOSED"
        /\ \A k \in DOMAIN ctl : Due(ctl[k])'
        /\ \A k \in DOMAIN ctlcpl : Due(ctlcpl[k])'
    BY <2>1, <2>2, Roundtrips DEF Lifecycle, Due
  <2>4. /\ status'[f] = "CLOSING" /\ \A g \in Flows : status'[g] = "OPEN" => buf[g]
        /\ wpc = "post" => status'[wflow] = "OPEN"
    BY <2>1, Roundtrips DEF Lifecycle
  <2>5. QED
    BY <2>1, <2>2, <2>3, <2>4 DEF Lifecycle, Distinct, Ring
<1>2. CASE WaitOutstanding
  BY <1>2, ElsewhereLifecycle DEF WaitOutstanding
<1>3. CASE WaitTimesOut
  BY <1>3, ElsewhereLifecycle DEF WaitTimesOut
<1>4. CASE CheckBus
  BY <1>4, ElsewhereLifecycle DEF CheckBus
<1>5. CASE WriteDelete
  <2> DEFINE m == [kind |-> "delete", flow |-> dflow]
  <2>1. /\ dpc = "write" /\ dpc' = "idle" /\ up /\ ctl' = Append(ctl, m)
        /\ UNCHANGED << status, buf, work_queue, ctlcpl, dflow, wpc, wflow >>
    BY <1>5 DEF WriteDelete, Submit
  <2>2. m \in Requests /\ m.kind = "delete" /\ m.flow = dflow
    BY <1>0, <2>1 DEF Requests
  <2> HIDE DEF m
  <2>3. QED
    BY <1>0, <2>1, <2>2, RequestLifecycle
<1>6. CASE RemoveAtOnce
  <2>1. /\ dpc # "idle" /\ dpc' = "idle"
        /\ status' = [status EXCEPT ![dflow] = "NULL"] /\ buf' = [buf EXCEPT ![dflow] = FALSE]
        /\ UNCHANGED << work_queue, ctl, ctlcpl, dflow, wpc, wflow >>
    BY <1>6 DEF RemoveAtOnce, RemoveFlowring, FlowringDelete
  <2>2. \A g \in Flows : g # dflow => buf'[g] = buf[g]
    BY <2>1, Roundtrips
  <2>3. QED
    BY <1>0, <2>1, <2>2, RemovalLifecycle
<1>7. QED
  BY <1>1, <1>2, <1>3, <1>4, <1>5, <1>6 DEF DeleterStep

LEMMA DevControlLifecycle ==
  ASSUME TypeOK, Lifecycle, DevControl
  PROVE  Lifecycle'
<1>1. ctl # << >> /\ ctl \in Seq(Requests) /\ ctlcpl \in Seq(Responses)
  <2>1. ctl \in Seq(Requests) /\ ctlpub \in 0 .. Len(ctl) /\ ctlpub > 0
    BY DEF TypeOK, ControlOK, DevControl
  <2>2. QED
    BY <2>1, Roundtrips
<1> DEFINE m == Head(ctl)
<1>2. /\ 1 \in DOMAIN ctl /\ m = ctl[1] /\ m \in Requests
      /\ \A k \in DOMAIN Tail(ctl) : k \in Nat \ {0} /\ k + 1 \in DOMAIN ctl /\ Tail(ctl)[k] = ctl[k + 1]
  BY <1>1, Front
<1>3. PICK ok \in Answers : ctlcpl' = Append(ctlcpl, [kind |-> m.kind, flow |-> m.flow, ok |-> ok])
  BY DEF DevControl
<1> DEFINE a == [kind |-> m.kind, flow |-> m.flow, ok |-> ok]
<1>4. a \in Responses /\ a.kind = m.kind /\ a.flow = m.flow
  BY <1>2, <1>3 DEF Requests, Responses, Answers
<1>5. /\ ctl' = Tail(ctl) /\ ctlcpl' = Append(ctlcpl, a)
      /\ UNCHANGED << status, buf, work_queue, dpc, dflow, wpc, wflow >>
  BY <1>3 DEF DevControl, rings, deleter, worker
<1> HIDE DEF a, m
<1>6. \A k \in DOMAIN ctlcpl' : (k \in DOMAIN ctlcpl /\ ctlcpl'[k] = ctlcpl[k]) \/ (k = Len(ctlcpl) + 1 /\ ctlcpl'[k] = a)
  BY <1>1, <1>4, <1>5, Back
<1>7. /\ \A k \in DOMAIN ctl' : \E j \in DOMAIN ctl : ctl'[k] = ctl[j]
      /\ \A k \in DOMAIN ctl' : ctl'[k].flow # a.flow
      /\ \A j, k \in DOMAIN ctl' : ctl'[j].flow = ctl'[k].flow => j = k
  BY <1>2, <1>4, <1>5 DEF Lifecycle, Distinct, Ring
<1>8. /\ \A k \in DOMAIN ctlcpl : ctlcpl[k].flow # a.flow
      /\ \A k \in DOMAIN work_queue : work_queue[k] # a.flow
      /\ dpc # "idle" => dflow # a.flow
  BY <1>2, <1>4 DEF Lifecycle, Ring
<1>9. \A j, k \in DOMAIN ctlcpl' : ctlcpl'[j].flow = ctlcpl'[k].flow => j = k
  BY <1>6, <1>8 DEF Lifecycle, Distinct, Ring
<1>10. \A k \in DOMAIN ctl' : Due(ctl[k])'
  <2>1. ASSUME NEW k \in DOMAIN ctl' PROVE Due(ctl[k])'
    <3>1. PICK j \in DOMAIN ctl : ctl'[k] = ctl[j]
      BY <1>7, <2>1
    <3>2. Due(ctl[j])
      BY DEF Lifecycle
    <3>3. QED
      BY <1>5, <3>1, <3>2 DEF Due
  <2>2. QED
    BY <2>1
<1>11. \A k \in DOMAIN ctlcpl' : Due(ctlcpl[k])'
  <2>1. ASSUME NEW k \in DOMAIN ctlcpl' PROVE Due(ctlcpl[k])'
    <3>1. CASE k \in DOMAIN ctlcpl /\ ctlcpl'[k] = ctlcpl[k]
      <4>1. Due(ctlcpl[k])
        BY <3>1 DEF Lifecycle
      <4>2. QED
        BY <1>5, <3>1, <4>1 DEF Due
    <3>2. CASE ctlcpl'[k] = a
      <4>1. Due(m)
        BY <1>2 DEF Lifecycle
      <4>2. QED
        BY <1>4, <1>5, <3>2, <4>1 DEF Due
    <3>3. QED
      BY <1>6, <2>1, <3>1, <3>2
  <2>2. QED
    BY <2>1
<1>12. /\ \A j \in DOMAIN ctl', k \in DOMAIN ctlcpl' : ctl'[j].flow # ctlcpl'[k].flow
       /\ \A j \in DOMAIN work_queue, k \in DOMAIN ctl' : work_queue[j] # ctl'[k].flow
       /\ \A j \in DOMAIN work_queue, k \in DOMAIN ctlcpl' : work_queue[j] # ctlcpl'[k].flow
  BY <1>6, <1>7, <1>8 DEF Lifecycle, Ring
<1>13. dpc # "idle" => /\ status[dflow] = "CLOSING"
                       /\ \A k \in DOMAIN ctl' : ctl'[k].flow # dflow
                       /\ \A k \in DOMAIN ctlcpl' : ctlcpl'[k].flow # dflow
  BY <1>6, <1>7, <1>8 DEF Lifecycle, Ring
<1>14. /\ \A k \in DOMAIN work_queue : status[work_queue[k]] = "CLOSED"
       /\ \A j, k \in DOMAIN work_queue : work_queue[j] = work_queue[k] => j = k
       /\ \A g \in Flows : status[g] = "OPEN" => buf[g]
       /\ wpc = "post" => status[wflow] = "OPEN"
  BY DEF Lifecycle
<1>15. QED
  BY <1>5, <1>7, <1>9, <1>10, <1>11, <1>12, <1>13, <1>14 DEF Lifecycle, Distinct, Ring

LEMMA DeviceLifecycle ==
  ASSUME TypeOK, Lifecycle, DeviceStep
  PROVE  Lifecycle'
<1>1. ASSUME NEW f \in Flows, DevTake(f) PROVE Lifecycle'
  BY <1>1, SameLifecycle DEF DevTake, rings, deleter, worker, control
<1>2. ASSUME NEW f \in Flows, DevComplete(f) PROVE Lifecycle'
  BY <1>2, SameLifecycle DEF DevComplete, rings, deleter, worker, control
<1>3. QED
  BY <1>1, <1>2, DevControlLifecycle DEF DeviceStep

(* The ring of the answer that is handled is nowhere else.                 *)
LEMMA AnsweredRing ==
  ASSUME TypeOK, Lifecycle, ctlcpl # << >>
  PROVE  /\ 1 \in DOMAIN ctlcpl /\ Head(ctlcpl) = ctlcpl[1] /\ Due(ctlcpl[1]) /\ ctlcpl[1].flow \in Flows
         /\ ctlcpl[1].kind \in {"create", "delete"}
         /\ \A k \in DOMAIN work_queue : work_queue[k] # ctlcpl[1].flow
         /\ \A k \in DOMAIN ctl : ctl[k].flow # ctlcpl[1].flow
         /\ dpc # "idle" => dflow # ctlcpl[1].flow
         /\ \A k \in DOMAIN Tail(ctlcpl) : /\ k \in Nat \ {0} /\ k + 1 \in DOMAIN ctlcpl
                                           /\ Tail(ctlcpl)[k] = ctlcpl[k + 1]
                                           /\ Tail(ctlcpl)[k].flow # ctlcpl[1].flow
<1>1. /\ 1 \in DOMAIN ctlcpl /\ Head(ctlcpl) = ctlcpl[1]
      /\ \A k \in DOMAIN Tail(ctlcpl) : /\ k \in Nat \ {0} /\ k + 1 \in DOMAIN ctlcpl
                                        /\ Tail(ctlcpl)[k] = ctlcpl[k + 1]
  BY Front, Roundtrips
<1>2. \A k \in DOMAIN Tail(ctlcpl) : Tail(ctlcpl)[k].flow # ctlcpl[1].flow
  BY <1>1 DEF Lifecycle, Distinct, Ring
<1>3. Due(ctlcpl[1]) /\ ctlcpl[1].flow \in Flows /\ ctlcpl[1].kind \in {"create", "delete"}
  BY <1>1, Roundtrips DEF Lifecycle
<1>4. /\ \A k \in DOMAIN work_queue : work_queue[k] # ctlcpl[1].flow
      /\ \A k \in DOMAIN ctl : ctl[k].flow # ctlcpl[1].flow
      /\ dpc # "idle" => dflow # ctlcpl[1].flow
  BY <1>1 DEF Lifecycle, Ring
<1>5. QED
  BY <1>1, <1>2, <1>3, <1>4

LEMMA OpeningLifecycle ==
  ASSUME TypeOK, Lifecycle, ctlcpl # << >>, ctlcpl[1].kind = "create",
         status' = [status EXCEPT ![ctlcpl[1].flow] = "OPEN"], ctlcpl' = Tail(ctlcpl),
         UNCHANGED << buf, work_queue, ctl, dpc, dflow, wpc, wflow >>
  PROVE  Lifecycle'
<1> DEFINE f == ctlcpl[1].flow
<1>1. /\ f \in Flows /\ buf[f]
      /\ \A k \in DOMAIN work_queue : work_queue[k] # f
      /\ \A k \in DOMAIN ctl : ctl[k].flow # f
      /\ dpc # "idle" => dflow # f
  BY AnsweredRing DEF Due
<1>2. /\ \A k \in DOMAIN ctlcpl' : \E j \in DOMAIN ctlcpl : ctlcpl'[k] = ctlcpl[j]
      /\ \A k \in DOMAIN ctlcpl' : ctlcpl'[k].flow # f
      /\ \A j, k \in DOMAIN ctlcpl' : ctlcpl'[j].flow = ctlcpl'[k].flow => j = k
  BY AnsweredRing DEF Lifecycle, Distinct, Ring
<1> HIDE DEF f
<1>3. status' = [status EXCEPT ![f] = "OPEN"] /\ status \in [Flows -> {"NULL", "CLOSED", "CLOSING", "OPEN"}]
  BY Roundtrips DEF f
<1>4. \A k \in DOMAIN ctl : Due(ctl[k])'
  <2>1. ASSUME NEW k \in DOMAIN ctl PROVE Due(ctl[k])'
    BY <1>1, <1>3, <2>1, Roundtrips DEF Lifecycle, Due
  <2>2. QED
    BY <2>1
<1>5. \A k \in DOMAIN ctlcpl' : Due(ctlcpl[k])'
  <2>1. ASSUME NEW k \in DOMAIN ctlcpl' PROVE Due(ctlcpl[k])'
    <3>1. PICK j \in DOMAIN ctlcpl : ctlcpl'[k] = ctlcpl[j]
      BY <1>2, <2>1
    <3>2. Due(ctlcpl[j]) /\ ctlcpl[j].flow \in Flows /\ ctlcpl[j].flow # f
      BY <1>2, <2>1, <3>1, Roundtrips DEF Lifecycle
    <3>3. QED
      BY <1>3, <3>1, <3>2 DEF Due
  <2>2. QED
    BY <2>1
<1>6. /\ \A k \in DOMAIN work_queue : status'[work_queue[k]] = "CLOSED"
      /\ dpc # "idle" => status'[dflow] = "CLOSING"
      /\ \A g \in Flows : status'[g] = "OPEN" => buf[g]
      /\ wpc = "post" => status'[wflow] = "OPEN"
  BY <1>1, <1>3, Roundtrips DEF Lifecycle
<1>7. /\ \A j \in DOMAIN ctl, k \in DOMAIN ctlcpl' : ctl[j].flow # ctlcpl'[k].flow
      /\ \A j \in DOMAIN work_queue, k \in DOMAIN ctlcpl' : work_queue[j] # ctlcpl'[k].flow
      /\ dpc # "idle" => \A k \in DOMAIN ctlcpl' : ctlcpl'[k].flow # dflow
  BY <1>2 DEF Lifecycle, Ring
<1>8. /\ \A j, k \in DOMAIN work_queue : work_queue[j] = work_queue[k] => j = k
      /\ \A j, k \in DOMAIN ctl : ctl[j].flow = ctl[k].flow => j = k
      /\ \A j \in DOMAIN work_queue, k \in DOMAIN ctl : work_queue[j] # ctl[k].flow
      /\ dpc # "idle" => \A k \in DOMAIN ctl : ctl[k].flow # dflow
  BY DEF Lifecycle, Distinct, Ring
<1>9. QED
  BY <1>2, <1>4, <1>5, <1>6, <1>7, <1>8 DEF Lifecycle, Distinct, Ring

LEMMA IsrLifecycle ==
  ASSUME TypeOK, Lifecycle, IsrStep
  PROVE  Lifecycle'
<1> USE DEF rings, worker, posts, deleter, control, device
<1>1. CASE StartIsr
  BY <1>1, SameLifecycle DEF StartIsr
<1>2. CASE ProcessTxstatus
  BY <1>2, SameLifecycle DEF ProcessTxstatus
<1>3. CASE TxDone
  BY <1>3, SameLifecycle DEF TxDone
<1>4. CASE CreateResponse
  <2> DEFINE f == ctlcpl[1].flow
  <2>1. /\ ctlcpl # << >> /\ Head(ctlcpl) = ctlcpl[1] /\ ctlcpl[1].kind = "create" /\ ctlcpl' = Tail(ctlcpl)
        /\ UNCHANGED << work_queue, ctl, dpc, dflow, wpc, wflow >>
    BY <1>4, AnsweredRing DEF CreateResponse
  <2>2. f \in Flows /\ status[f] = "CLOSED"
    BY <2>1, AnsweredRing DEF Due
  <2>3. CASE status' = [status EXCEPT ![f] = "OPEN"] /\ UNCHANGED buf
    BY <2>1, <2>3, OpeningLifecycle
  <2>4. CASE status' = [status EXCEPT ![f] = "NULL"] /\ buf' = [buf EXCEPT ![f] = FALSE]
    <3>1. \A g \in Flows : g # f => buf'[g] = buf[g]
      BY <2>4, Roundtrips
    <3>2. QED
      BY <2>1, <2>2, <2>4, <3>1, AnsweredRing, RemovalLifecycle
  <2>5. QED
    BY <1>4, <2>1, <2>2, <2>3, <2>4 DEF CreateResponse, RemoveFlowring, FlowringDelete
<1>5. CASE DeleteResponse
  <2> DEFINE f == ctlcpl[1].flow
  <2>1. /\ ctlcpl # << >> /\ Head(ctlcpl) = ctlcpl[1] /\ ctlcpl[1].kind = "delete" /\ ctlcpl' = Tail(ctlcpl)
        /\ UNCHANGED << work_queue, ctl, dpc, dflow, wpc, wflow >>
    BY <1>5, AnsweredRing DEF DeleteResponse
  <2>2. f \in Flows /\ status[f] = "CLOSING"
    BY <2>1, AnsweredRing DEF Due
  <2>3. status' = [status EXCEPT ![f] = "NULL"] /\ \A g \in Flows : g # f => buf'[g] = buf[g]
    BY <1>5, <2>1, Roundtrips DEF DeleteResponse, FlowringDelete
  <2>4. QED
    BY <2>1, <2>2, <2>3, AnsweredRing, RemovalLifecycle
<1>6. CASE ControlDone
  BY <1>6, SameLifecycle DEF ControlDone
<1>7. CASE Trigger
  BY <1>7, SameLifecycle DEF Trigger
<1>8. QED
  BY <1>1, <1>2, <1>3, <1>4, <1>5, <1>6, <1>7 DEF IsrStep

LEMMA LeftoverStays == Next \/ UNCHANGED vars => (leftover => leftover')
  <1>1. ASSUME Next PROVE leftover => leftover'
    <2>1. CASE SenderStep
      BY <2>1 DEF SenderStep, FlowringCreate, Enqueue, EnqueueNew, MarkFlow, QueueWork, control
    <2>2. CASE WorkerStep
      BY <2>2 DEF WorkerStep, StartWork, Scan, Dequeue, NothingQueued, Post, PutBack, control
    <2>3. CASE CreatorStep
      BY <2>3 DEF CreatorStep, CreateWorker, CreateWorkerFails, Submit, control
    <2>4. CASE DeleterStep
      BY <2>4 DEF DeleterStep, Closing, WaitOutstanding, WaitTimesOut, CheckBus, WriteDelete, RemoveAtOnce,
                  Submit, control
    <2>5. CASE DeviceStep
      BY <2>5 DEF DeviceStep, DevControl, DevTake, DevComplete, control
    <2>6. CASE IsrStep
      BY <2>6 DEF IsrStep, StartIsr, ProcessTxstatus, TxDone, CreateResponse, DeleteResponse, ControlDone,
                  Trigger, control
    <2>7. CASE BusDownUp
      BY <2>7 DEF BusDownUp, control
    <2>8. QED
      BY <1>1, <2>1, <2>2, <2>3, <2>4, <2>5, <2>6, <2>7 DEF Next
  <1>2. QED
    BY <1>1 DEF vars, control

(* Every ring that is not open stays in one place of its round trip: queued *)
(* for creation, asked for, answered, or with the deleting thread.         *)
THEOREM StepLifecycle ==
  ASSUME TypeOK, ~leftover => Lifecycle, [Next]_vars
  PROVE  ~leftover' => Lifecycle'
<1> SUFFICES ASSUME ~leftover' PROVE Lifecycle'
  OBVIOUS
<1>1. Lifecycle
  BY LeftoverStays
<1>2. CASE WorkerStep
  BY <1>1, <1>2, WorkerLifecycle
<1>3. CASE CreatorStep
  BY <1>1, <1>3, CreatorLifecycle
<1>4. CASE DeleterStep
  BY <1>1, <1>4, DeleterLifecycle
<1>5. CASE BusDownUp \/ UNCHANGED vars
  BY <1>1, <1>5, SameLifecycle DEF BusDownUp, vars, rings, worker, deleter, control, device
<1>6. QED
  BY <1>1, <1>2, <1>3, <1>4, <1>5, SenderLifecycle, DeviceLifecycle, IsrLifecycle DEF Next

-----------------------------------------------------------------------------
(* Packet ids. *)

LEMMA SameIds == IdsOnce /\ UNCHANGED << ring, tx_pktids, held, txcpl >> => IdsOnce'
  BY DEF IdsOnce

LEMMA IdTypes ==
  ASSUME TypeOK
  PROVE  /\ ring \in [Flows -> Seq(PktIds)] /\ held \in [Flows -> SUBSET PktIds]
         /\ tx_pktids \in [PktIds -> Packets \cup {NoPkt}] /\ txcpl \in Seq([flow : Flows, id : PktIds])
         /\ \A f \in Flows : \A k \in DOMAIN ring[f] : ring[f][k] \in PktIds
         /\ \A k \in DOMAIN txcpl : txcpl[k].id \in PktIds /\ txcpl[k].flow \in Flows
<1>1. /\ ring \in [Flows -> Seq(PktIds)] /\ held \in [Flows -> SUBSET PktIds]
      /\ tx_pktids \in [PktIds -> Packets \cup {NoPkt}] /\ txcpl \in Seq([flow : Flows, id : PktIds])
  BY DEF TypeOK, PostsOK, DeviceOK
<1>2. ASSUME NEW f \in Flows, NEW k \in DOMAIN ring[f] PROVE ring[f][k] \in PktIds
  BY <1>1, Elements
<1>3. ASSUME NEW k \in DOMAIN txcpl PROVE txcpl[k].id \in PktIds /\ txcpl[k].flow \in Flows
  <2>1. txcpl[k] \in [flow : Flows, id : PktIds]
    BY <1>1, Elements
  <2>2. QED
    BY <2>1
<1>4. QED
  BY <1>1, <1>2, <1>3

LEMMA CreateIds == TypeOK /\ IdsOnce /\ CreatorStep => IdsOnce'
<1> SUFFICES ASSUME TypeOK, IdsOnce, CreatorStep PROVE IdsOnce'
  OBVIOUS
<1> DEFINE f == Head(work_queue)
<1>1. /\ ring' = [ring EXCEPT ![f] = << >>] \/ UNCHANGED ring
      /\ UNCHANGED << tx_pktids, held, txcpl >>
  BY DEF CreatorStep, CreateWorker, CreateWorkerFails, device
<1>2. \A g \in Flows : \A k \in DOMAIN ring'[g] : k \in DOMAIN ring[g] /\ ring'[g][k] = ring[g][k]
  <2>1. CASE UNCHANGED ring
    BY <2>1
  <2>2. CASE ring' = [ring EXCEPT ![f] = << >>]
    BY <2>2, IdTypes
  <2>3. QED
    BY <1>1, <2>1, <2>2
<1>3. QED
  BY <1>1, <1>2 DEF IdsOnce

LEMMA PostIds == TypeOK /\ IdsOnce /\ Post => IdsOnce'
<1> SUFFICES ASSUME TypeOK, IdsOnce, Post PROVE IdsOnce'
  OBVIOUS
<1>1. wflow \in Flows /\ hand \in Packets /\ hand # NoPkt
  BY NoPktAssumption DEF TypeOK, WorkerOK, Post
<1>2. PICK i \in FreeIds : /\ tx_pktids' = [tx_pktids EXCEPT ![i] = hand]
                           /\ ring' = [ring EXCEPT ![wflow] = Append(@, i)]
                           /\ UNCHANGED << held, txcpl >>
  BY DEF Post, device
<1>3. i \in PktIds /\ tx_pktids[i] = NoPkt
  BY DEF FreeIds
<1>4. \A g \in Flows : \A k \in DOMAIN ring'[g] :
        \/ k \in DOMAIN ring[g] /\ ring'[g][k] = ring[g][k]
        \/ g = wflow /\ k = Len(ring[g]) + 1 /\ ring'[g][k] = i
  <2>1. ring[wflow] \in Seq(PktIds) /\ ring'[wflow] = Append(ring[wflow], i)
    BY <1>1, <1>2, IdTypes
  <2>2. \A k \in DOMAIN ring'[wflow] : \/ k \in DOMAIN ring[wflow] /\ ring'[wflow][k] = ring[wflow][k]
                                       \/ k = Len(ring[wflow]) + 1 /\ ring'[wflow][k] = i
    BY <1>3, <2>1, Back
  <2>3. \A g \in Flows : g # wflow => ring'[g] = ring[g]
    BY <1>2, IdTypes
  <2>4. QED
    BY <2>2, <2>3
<1>5. /\ \A g \in Flows : \A k \in DOMAIN ring[g] : ring[g][k] # i
      /\ \A g \in Flows : i \notin held[g]
      /\ \A k \in DOMAIN txcpl : txcpl[k].id # i
  BY <1>3 DEF IdsOnce
<1>6. tx_pktids'[i] # NoPkt /\ \A j \in PktIds : j # i => tx_pktids'[j] = tx_pktids[j]
  BY <1>1, <1>2, <1>3, IdTypes
<1>7. /\ \A g \in Flows : \A k \in DOMAIN ring'[g] : tx_pktids'[ring'[g][k]] # NoPkt
      /\ \A g \in Flows : \A j \in held[g] : tx_pktids'[j] # NoPkt
      /\ \A k \in DOMAIN txcpl : tx_pktids'[txcpl[k].id] # NoPkt
  BY <1>4, <1>5, <1>6, IdTypes DEF IdsOnce
<1>8. \A g, h \in Flows : \A j \in DOMAIN ring'[g], k \in DOMAIN ring'[h] :
        ring'[g][j] = ring'[h][k] => g = h /\ j = k
  BY <1>4, <1>5 DEF IdsOnce
<1>9. /\ \A g, h \in Flows : \A k \in DOMAIN ring'[g] : ring'[g][k] \notin held[h]
      /\ \A g \in Flows : \A j \in DOMAIN ring'[g], k \in DOMAIN txcpl : ring'[g][j] # txcpl[k].id
  BY <1>4, <1>5 DEF IdsOnce
<1>10. QED
  BY <1>2, <1>7, <1>8, <1>9 DEF IdsOnce

LEMMA TakeIds ==
  ASSUME TypeOK, IdsOnce, NEW f \in Flows, DevTake(f)
  PROVE  IdsOnce'
<1>1. ring[f] \in Seq(PktIds) /\ ring[f] # << >>
  <2>1. ring[f] \in Seq(PktIds) /\ pub[f] \in Nat /\ pub[f] <= Len(ring[f]) /\ pub[f] > 0
    BY DEF TypeOK, PostsOK, DevTake
  <2>2. QED
    BY <2>1
<1> DEFINE i == ring[f][1]
<1>2. /\ 1 \in DOMAIN ring[f] /\ Head(ring[f]) = i
      /\ \A k \in DOMAIN Tail(ring[f]) : k \in Nat \ {0} /\ k + 1 \in DOMAIN ring[f] /\ Tail(ring[f])[k] = ring[f][k + 1]
  BY <1>1, Front
<1>3. i \in PktIds /\ tx_pktids[i] # NoPkt
  BY <1>2, IdTypes DEF IdsOnce
<1>4. /\ ring' = [ring EXCEPT ![f] = Tail(@)] /\ held' = [held EXCEPT ![f] = @ \cup {i}]
      /\ UNCHANGED << tx_pktids, txcpl >>
  BY <1>2 DEF DevTake
<1>5. /\ ring'[f] = Tail(ring[f]) /\ \A g \in Flows : g # f => ring'[g] = ring[g]
      /\ held'[f] = held[f] \cup {i} /\ \A g \in Flows : g # f => held'[g] = held[g]
  BY <1>4, IdTypes
<1>tail. \A k \in DOMAIN ring'[f] : k \in Nat /\ k + 1 \in DOMAIN ring[f] /\ ring'[f][k] = ring[f][k + 1]
  BY <1>2, <1>5
<1>6. \A g \in Flows : \A k \in DOMAIN ring'[g] : ring'[g][k] # i
  <2>1. \A k \in DOMAIN ring'[f] : ring'[f][k] # i
    BY <1>2, <1>5 DEF IdsOnce
  <2>2. \A g \in Flows : g # f => \A k \in DOMAIN ring'[g] : ring'[g][k] # i
    BY <1>2, <1>5 DEF IdsOnce
  <2>3. QED
    BY <2>1, <2>2
<1>7. \A g \in Flows : \A k \in DOMAIN ring'[g] : \E j \in DOMAIN ring[g] : ring'[g][k] = ring[g][j]
  <2>1. ASSUME NEW g \in Flows, NEW k \in DOMAIN ring'[g] PROVE \E j \in DOMAIN ring[g] : ring'[g][k] = ring[g][j]
    <3>1. CASE g = f
      BY <1>tail, <2>1, <3>1
    <3>2. CASE g # f
      BY <1>5, <2>1, <3>2
    <3>3. QED
      BY <3>1, <3>2
  <2>2. QED
    BY <2>1
<1>8. /\ \A g \in Flows : i \notin held[g]
      /\ \A k \in DOMAIN txcpl : txcpl[k].id # i
  BY <1>2 DEF IdsOnce
<1> HIDE DEF i
<1>9. \A g \in Flows : held'[g] \subseteq held[g] \cup {i} /\ (g # f => held'[g] = held[g])
  BY <1>5
<1>10. /\ \A g \in Flows : \A k \in DOMAIN ring'[g] : tx_pktids[ring'[g][k]] # NoPkt
       /\ \A g \in Flows : \A j \in held'[g] : tx_pktids[j] # NoPkt
       /\ \A k \in DOMAIN txcpl : tx_pktids[txcpl[k].id] # NoPkt
  BY <1>3, <1>7, <1>9 DEF IdsOnce
<1>11. \A g, h \in Flows : \A j \in DOMAIN ring'[g], k \in DOMAIN ring'[h] :
         ring'[g][j] = ring'[h][k] => g = h /\ j = k
  <2>1. ASSUME NEW g \in Flows, NEW h \in Flows, NEW j \in DOMAIN ring'[g], NEW k \in DOMAIN ring'[h],
               ring'[g][j] = ring'[h][k]
        PROVE  g = h /\ j = k
    <3>1. g = h
      BY <1>7, <2>1 DEF IdsOnce
    <3>2. CASE g = f
      <4>1. /\ j \in Nat /\ k \in Nat /\ j + 1 \in DOMAIN ring[f] /\ k + 1 \in DOMAIN ring[f]
            /\ ring[f][j + 1] = ring[f][k + 1]
        BY <1>tail, <2>1, <3>1, <3>2
      <4>2. j + 1 = k + 1
        BY <4>1 DEF IdsOnce
      <4>3. QED
        BY <3>1, <4>1, <4>2
    <3>3. CASE g # f
      BY <1>5, <2>1, <3>1, <3>3 DEF IdsOnce
    <3>4. QED
      BY <3>1, <3>2, <3>3
  <2>2. QED
    BY <2>1
<1>12. /\ \A g, h \in Flows : \A k \in DOMAIN ring'[g] : ring'[g][k] \notin held'[h]
       /\ \A g \in Flows : \A j \in DOMAIN ring'[g], k \in DOMAIN txcpl : ring'[g][j] # txcpl[k].id
  BY <1>6, <1>7, <1>9 DEF IdsOnce
<1>13. /\ \A g, h \in Flows : g # h => held'[g] \cap held'[h] = {}
       /\ \A g \in Flows : \A k \in DOMAIN txcpl : txcpl[k].id \notin held'[g]
  BY <1>8, <1>9 DEF IdsOnce
<1>14. \A j, k \in DOMAIN txcpl : txcpl[j].id = txcpl[k].id => j = k
  BY DEF IdsOnce
<1>15. QED
  BY <1>4, <1>10, <1>11, <1>12, <1>13, <1>14 DEF IdsOnce

LEMMA CompleteIds ==
  ASSUME TypeOK, IdsOnce, NEW f \in Flows, DevComplete(f)
  PROVE  IdsOnce'
<1>1. PICK i \in held[f] : /\ held' = [held EXCEPT ![f] = @ \ {i}]
                           /\ txcpl' = Append(txcpl, [flow |-> f, id |-> i])
                           /\ UNCHANGED << ring, tx_pktids >>
  BY DEF DevComplete, posts
<1>2. i \in PktIds /\ tx_pktids[i] # NoPkt /\ [flow |-> f, id |-> i] \in [flow : Flows, id : PktIds]
  BY IdTypes DEF IdsOnce
<1>3. \A k \in DOMAIN txcpl' : \/ k \in DOMAIN txcpl /\ txcpl'[k] = txcpl[k]
                               \/ k = Len(txcpl) + 1 /\ txcpl'[k].id = i
  BY <1>1, <1>2, Back, IdTypes
<1>4. \A g \in Flows : held'[g] \subseteq held[g] /\ i \notin held'[g]
  BY <1>1, IdTypes DEF IdsOnce
<1>5. /\ \A g \in Flows : \A k \in DOMAIN ring[g] : ring[g][k] # i
      /\ \A k \in DOMAIN txcpl : txcpl[k].id # i
  BY DEF IdsOnce
<1>6. /\ \A k \in DOMAIN txcpl' : tx_pktids[txcpl'[k].id] # NoPkt
      /\ \A g \in Flows : \A j \in DOMAIN ring[g], k \in DOMAIN txcpl' : ring[g][j] # txcpl'[k].id
      /\ \A g \in Flows : \A k \in DOMAIN txcpl' : txcpl'[k].id \notin held'[g]
      /\ \A j, k \in DOMAIN txcpl' : txcpl'[j].id = txcpl'[k].id => j = k
  <2>1. \A k \in DOMAIN txcpl' : tx_pktids[txcpl'[k].id] # NoPkt
    BY <1>2, <1>3 DEF IdsOnce
  <2>2. \A g \in Flows : \A j \in DOMAIN ring[g], k \in DOMAIN txcpl' : ring[g][j] # txcpl'[k].id
    BY <1>3, <1>5 DEF IdsOnce
  <2>3. \A g \in Flows : \A k \in DOMAIN txcpl' : txcpl'[k].id \notin held'[g]
    BY <1>3, <1>4 DEF IdsOnce
  <2>4. \A j, k \in DOMAIN txcpl' : txcpl'[j].id = txcpl'[k].id => j = k
    BY <1>3, <1>5 DEF IdsOnce
  <2>5. QED
    BY <2>1, <2>2, <2>3, <2>4
<1>7. QED
  BY <1>1, <1>4, <1>6 DEF IdsOnce

LEMMA StatusIds == TypeOK /\ IdsOnce /\ ProcessTxstatus => IdsOnce'
<1> SUFFICES ASSUME TypeOK, IdsOnce, ProcessTxstatus PROVE IdsOnce'
  OBVIOUS
<1> DEFINE i == txcpl[1].id
<1>1. /\ 1 \in DOMAIN txcpl /\ Head(txcpl) = txcpl[1] /\ txcpl' = Tail(txcpl)
      /\ \A k \in DOMAIN txcpl' : k \in Nat \ {0} /\ k + 1 \in DOMAIN txcpl /\ txcpl'[k] = txcpl[k + 1]
  BY Front, IdTypes DEF ProcessTxstatus
<1>2. UNCHANGED << ring, held >> /\ (tx_pktids' = tx_pktids \/ tx_pktids' = [tx_pktids EXCEPT ![i] = NoPkt])
  BY <1>1 DEF ProcessTxstatus
<1>3. /\ \A g \in Flows : \A k \in DOMAIN ring[g] : ring[g][k] # i
      /\ \A g \in Flows : i \notin held[g]
      /\ \A k \in DOMAIN txcpl' : txcpl'[k].id # i
  BY <1>1 DEF IdsOnce
<1>4. \A j \in PktIds : j # i => tx_pktids'[j] = tx_pktids[j]
  BY <1>2, IdTypes
<1>5. \A k \in DOMAIN txcpl' : \E j \in DOMAIN txcpl : txcpl'[k] = txcpl[j]
  BY <1>1
<1>6. /\ \A g \in Flows : \A k \in DOMAIN ring[g] : tx_pktids'[ring[g][k]] # NoPkt
      /\ \A g \in Flows : \A j \in held[g] : tx_pktids'[j] # NoPkt
      /\ \A k \in DOMAIN txcpl' : tx_pktids'[txcpl'[k].id] # NoPkt
  <2>1. \A g \in Flows : \A k \in DOMAIN ring[g] : tx_pktids'[ring[g][k]] # NoPkt
    BY <1>3, <1>4, IdTypes DEF IdsOnce
  <2>2. ASSUME NEW g \in Flows, NEW j \in held[g] PROVE tx_pktids'[j] # NoPkt
    <3>1. j \in PktIds /\ j # i
      BY <1>3, <2>2, IdTypes
    <3>2. tx_pktids[j] # NoPkt
      BY <2>2 DEF IdsOnce
    <3>3. QED
      BY <1>4, <3>1, <3>2
  <2>3. ASSUME NEW k \in DOMAIN txcpl' PROVE tx_pktids'[txcpl'[k].id] # NoPkt
    <3>1. PICK j \in DOMAIN txcpl : txcpl'[k] = txcpl[j]
      BY <1>5
    <3>2. QED
      BY <1>3, <1>4, <3>1, IdTypes DEF IdsOnce
  <2>4. QED
    BY <2>1, <2>2, <2>3
<1>7. /\ \A j, k \in DOMAIN txcpl' : txcpl'[j].id = txcpl'[k].id => j = k
      /\ \A g \in Flows : \A j \in DOMAIN ring[g], k \in DOMAIN txcpl' : ring[g][j] # txcpl'[k].id
      /\ \A g \in Flows : \A k \in DOMAIN txcpl' : txcpl'[k].id \notin held[g]
  <2>1. ASSUME NEW j \in DOMAIN txcpl', NEW k \in DOMAIN txcpl', txcpl'[j].id = txcpl'[k].id PROVE j = k
    <3>1. j + 1 = k + 1
      BY <1>1, <2>1 DEF IdsOnce
    <3>2. QED
      BY <1>1, <3>1
  <2>2. ASSUME NEW k \in DOMAIN txcpl'
        PROVE  /\ \A g \in Flows : \A j \in DOMAIN ring[g] : ring[g][j] # txcpl'[k].id
               /\ \A g \in Flows : txcpl'[k].id \notin held[g]
    <3>1. PICK j \in DOMAIN txcpl : txcpl'[k] = txcpl[j]
      BY <1>5
    <3>2. QED
      BY <3>1 DEF IdsOnce
  <2>3. QED
    BY <2>1, <2>2
<1>8. QED
  BY <1>2, <1>6, <1>7 DEF IdsOnce

(* brcmf_msgbuf_alloc_pktid never gives away an id that the ring, the      *)
(* device or a completion still refers to.                                 *)
THEOREM StepIds == TypeOK /\ IdsOnce /\ [Next]_vars => IdsOnce'
<1> SUFFICES ASSUME TypeOK, IdsOnce, [Next]_vars PROVE IdsOnce'
  OBVIOUS
<1> USE SameIds DEF posts, device
<1>1. CASE SenderStep
  BY <1>1 DEF SenderStep, FlowringCreate, Enqueue, EnqueueNew, MarkFlow, QueueWork
<1>2. CASE WorkerStep
  <2>1. CASE StartWork \/ Scan \/ Dequeue
    BY <2>1 DEF StartWork, Scan, Dequeue
  <2>2. CASE NothingQueued \/ PutBack
    BY <2>2 DEF NothingQueued, PutBack
  <2>3. QED
    BY <1>2, <2>1, <2>2, PostIds DEF WorkerStep
<1>3. CASE CreatorStep
  BY <1>3, CreateIds
<1>4. CASE DeleterStep
  BY <1>4 DEF DeleterStep, Closing, WaitOutstanding, WaitTimesOut, CheckBus, WriteDelete, RemoveAtOnce
<1>5. CASE DeviceStep
  BY <1>5, TakeIds, CompleteIds DEF DeviceStep, DevControl
<1>6. CASE IsrStep
  BY <1>6, StatusIds DEF IsrStep, StartIsr, TxDone, CreateResponse, DeleteResponse, ControlDone, Trigger
<1>7. CASE BusDownUp \/ UNCHANGED vars
  BY <1>7 DEF BusDownUp, vars
<1>8. QED
  BY <1>1, <1>2, <1>3, <1>4, <1>5, <1>6, <1>7 DEF Next

-----------------------------------------------------------------------------
(* What the steps of the threads other than the sender and the worker do   *)
(* to the packets: nothing, or they remove a ring nobody is using.         *)

Untouched(f) == ~(wpc = "post" /\ wflow = f) /\ ~(spc = "new" /\ sflow = f)

Removes == \E f \in Flows : Untouched(f) /\ FlowringDelete(f)

Keeps ==
  /\ UNCHANGED << queue, fin >>
  /\ \A f \in Flows : status'[f] = "NULL" <=> status[f] = "NULL"

Shortens == \A f \in Flows : \/ ring'[f] = ring[f] \/ ring'[f] = << >>
                             \/ ring[f] # << >> /\ ring'[f] = Tail(ring[f])

Aside ==
  /\ UNCHANGED << spc, sflow, sent, wpc, wflow, hand, tx_pktids >>
  /\ Keeps \/ Removes
  /\ Shortens

LEMMA NotOpenUntouched ==
  ASSUME ~leftover => Lifecycle, NEW f \in Flows, ~InUse(f), ~leftover => status[f] # "OPEN"
  PROVE  Untouched(f)
  BY DEF Lifecycle, InUse, Untouched

LEMMA CreatorAside == TypeOK /\ (~leftover => Lifecycle) /\ CreatorStep => Aside
<1> SUFFICES ASSUME TypeOK, ~leftover => Lifecycle, CreatorStep PROVE Aside
  OBVIOUS
<1> USE DEF sender, worker, posts
<1> DEFINE f == Head(work_queue)
<1>1. work_queue # << >> /\ f \in Flows /\ (~leftover => status[f] = "CLOSED")
  <2>1. work_queue # << >>
    BY DEF CreatorStep, CreateWorker, CreateWorkerFails
  <2>2. f \in Flows /\ 1 \in DOMAIN work_queue /\ f = work_queue[1]
    BY <2>1, Front, Roundtrips
  <2>3. QED
    BY <2>1, <2>2 DEF Lifecycle
<1> HIDE DEF f
<1>2. ~InUse(f) => Untouched(f)
  BY <1>1, NotOpenUntouched
<1>3. CASE CreateWorker
  <2>1. UNCHANGED << spc, sflow, sent, wpc, wflow, hand, tx_pktids >>
    BY <1>3 DEF CreateWorker
  <2>2. Keeps \/ Removes
    <3>1. CASE up
      BY <1>3, <3>1 DEF CreateWorker, Keeps
    <3>2. CASE ~up
      <4>1. ~InUse(f) /\ FlowringDelete(f)
        BY <1>3, <3>2 DEF CreateWorker, RemoveFlowring, f
      <4>2. QED
        BY <1>1, <1>2, <4>1 DEF Removes
    <3>3. QED
      BY <3>1, <3>2
  <2>3. Shortens
    <3>1. ring' = [ring EXCEPT ![f] = << >>]
      BY <1>3 DEF CreateWorker, f
    <3>2. QED
      BY <3>1, IdTypes DEF Shortens
  <2>4. QED
    BY <2>1, <2>2, <2>3 DEF Aside
<1>4. CASE CreateWorkerFails
  <2>1. ~InUse(f) /\ FlowringDelete(f)
    BY <1>4 DEF CreateWorkerFails, RemoveFlowring, f
  <2>2. Removes
    BY <1>1, <1>2, <2>1 DEF Removes
  <2>3. Shortens
    <3>1. ring' = [ring EXCEPT ![f] = << >>] \/ UNCHANGED ring
      BY <1>4 DEF CreateWorkerFails, f
    <3>2. QED
      BY <3>1, IdTypes DEF Shortens
  <2>4. QED
    BY <1>4, <2>2, <2>3 DEF CreateWorkerFails, Aside
<1>5. QED
  BY <1>3, <1>4 DEF CreatorStep

LEMMA DeleterAside == TypeOK /\ (~leftover => Lifecycle) /\ DeleterStep => Aside
<1> SUFFICES ASSUME TypeOK, ~leftover => Lifecycle, DeleterStep PROVE Aside
  OBVIOUS
<1> USE DEF rings, sender, worker, posts
<1>1. ASSUME dpc # "idle", ~InUse(dflow) PROVE Untouched(dflow) /\ dflow \in Flows
  BY <1>1, NotOpenUntouched, Roundtrips DEF Lifecycle
<1>2. ASSUME NEW f \in Flows, Closing(f) PROVE Aside
  <2>1. Keeps
    BY <1>2, Roundtrips DEF Closing, Keeps
  <2>2. QED
    BY <1>2, <2>1 DEF Closing, Aside, Shortens
<1>3. CASE WaitOutstanding \/ WaitTimesOut \/ CheckBus
  BY <1>3 DEF WaitOutstanding, WaitTimesOut, CheckBus, Aside, Keeps, Shortens
<1>4. CASE WriteDelete
  <2>1. Keeps \/ (~InUse(dflow) /\ FlowringDelete(dflow))
    BY <1>4 DEF WriteDelete, RemoveFlowring, Keeps
  <2>2. Keeps \/ Removes
    BY <1>1, <1>4, <2>1 DEF WriteDelete, Removes
  <2>3. QED
    BY <1>4, <2>2 DEF WriteDelete, Aside, Shortens
<1>5. CASE RemoveAtOnce
  <2>1. dpc # "idle" /\ ~InUse(dflow) /\ FlowringDelete(dflow)
    BY <1>5 DEF RemoveAtOnce, RemoveFlowring
  <2>2. Removes
    BY <1>1, <2>1 DEF Removes
  <2>3. QED
    BY <1>5, <2>2 DEF RemoveAtOnce, Aside, Shortens
<1>6. QED
  BY <1>2, <1>3, <1>4, <1>5 DEF DeleterStep

LEMMA DeviceAside == TypeOK /\ DeviceStep => Aside
<1> SUFFICES ASSUME TypeOK, DeviceStep PROVE Aside
  OBVIOUS
<1> USE DEF rings, sender, worker, posts
<1>1. CASE DevControl
  BY <1>1 DEF DevControl, Aside, Keeps, Shortens
<1>2. ASSUME NEW f \in Flows, DevTake(f) PROVE Aside
  <2>1. ring[f] # << >>
    <3>1. ring[f] \in Seq(PktIds) /\ pub[f] \in Nat /\ pub[f] <= Len(ring[f]) /\ pub[f] > 0
      BY <1>2 DEF TypeOK, PostsOK, DevTake
    <3>2. QED
      BY <3>1
  <2>2. ring' = [ring EXCEPT ![f] = Tail(@)]
    BY <1>2 DEF DevTake
  <2>3. Shortens
    BY <2>1, <2>2, IdTypes DEF Shortens
  <2>4. QED
    BY <1>2, <2>3 DEF DevTake, Aside, Keeps
<1>3. ASSUME NEW f \in Flows, DevComplete(f) PROVE Aside
  BY <1>3 DEF DevComplete, Aside, Keeps, Shortens
<1>4. QED
  BY <1>1, <1>2, <1>3 DEF DeviceStep

LEMMA IsrAside == TypeOK /\ (~leftover => Lifecycle) /\ IsrStep /\ ~ProcessTxstatus => Aside
<1> SUFFICES ASSUME TypeOK, ~leftover => Lifecycle, IsrStep, ~ProcessTxstatus PROVE Aside
  OBVIOUS
<1> USE DEF rings, sender, worker, posts
<1>1. CASE StartIsr \/ TxDone \/ ControlDone
  BY <1>1 DEF StartIsr, TxDone, ControlDone, Aside, Keeps, Shortens
<1>2. CASE Trigger
  BY <1>2 DEF Trigger, Aside, Keeps, Shortens
<1> DEFINE f == ctlcpl[1].flow
<1>3. ctlcpl # << >> => /\ Head(ctlcpl) = ctlcpl[1] /\ f \in Flows
                        /\ ~leftover => status[f] # "OPEN"
  <2>1. ASSUME ctlcpl # << >> PROVE 1 \in DOMAIN ctlcpl /\ Head(ctlcpl) = ctlcpl[1] /\ f \in Flows
    BY <2>1, Front, Roundtrips
  <2>2. ctlcpl # << >> => (~leftover => status[f] # "OPEN")
    BY <2>1, AnsweredRing DEF Due
  <2>3. QED
    BY <2>1, <2>2
<1> HIDE DEF f
<1>4. CASE CreateResponse
  <2>1. ctlcpl # << >> /\ Head(ctlcpl).flow = f
    BY <1>3, <1>4 DEF CreateResponse, f
  <2>2. CASE status' = (IF status[f] = "NULL" THEN status ELSE [status EXCEPT ![f] = "OPEN"]) /\ UNCHANGED << queue, fin >>
    <3>1. Keeps
      BY <1>3, <2>1, <2>2, Roundtrips DEF Keeps
    <3>2. QED
      BY <1>4, <3>1 DEF CreateResponse, Aside, Shortens
  <2>3. CASE ~InUse(f) /\ FlowringDelete(f)
    <3>1. Removes
      BY <1>3, <2>1, <2>3, NotOpenUntouched DEF Removes
    <3>2. QED
      BY <1>4, <3>1 DEF CreateResponse, Aside, Shortens
  <2>4. QED
    BY <1>4, <2>1, <2>2, <2>3 DEF CreateResponse, RemoveFlowring
<1>5. CASE DeleteResponse
  <2>1. ctlcpl # << >> /\ ~InUse(f) /\ FlowringDelete(f)
    BY <1>3, <1>5 DEF DeleteResponse, f
  <2>2. Removes
    BY <1>3, <2>1, NotOpenUntouched DEF Removes
  <2>3. QED
    BY <1>5, <2>2 DEF DeleteResponse, Aside, Shortens
<1>6. QED
  BY <1>1, <1>2, <1>4, <1>5 DEF IsrStep

LEMMA FourKinds ==
  TypeOK /\ (~leftover => Lifecycle) /\ [Next]_vars => SenderStep \/ WorkerStep \/ ProcessTxstatus \/ Aside
<1>1. BusDownUp \/ UNCHANGED vars => Aside
  BY DEF BusDownUp, vars, rings, sender, worker, posts, Aside, Keeps, Shortens
<1>2. QED
  BY <1>1, CreatorAside, DeleterAside, DeviceAside, IsrAside DEF Next

-----------------------------------------------------------------------------
(* Rings in use stay, and one that is gone has no packets. *)

LEMMA QueueTypes ==
  ASSUME TypeOK
  PROVE  /\ status \in [Flows -> {"NULL", "CLOSED", "CLOSING", "OPEN"}] /\ queue \in [Flows -> Seq(Packets)]
         /\ fin \in [Packets -> Nat] /\ sflow \in Flows /\ sent \in 0 .. NPackets
         /\ (spc = "new" => sent < NPackets) /\ (wpc \in {"loop", "post"} => wflow \in Flows)
         /\ hand \in Packets \cup {NoPkt} /\ (wpc = "post" <=> hand # NoPkt)
         /\ \A f \in Flows : \A k \in DOMAIN queue[f] : queue[f][k] \in Packets
         /\ \A p \in Packets : p \in Nat /\ p # NoPkt
<1>1. /\ status \in [Flows -> {"NULL", "CLOSED", "CLOSING", "OPEN"}] /\ queue \in [Flows -> Seq(Packets)]
      /\ fin \in [Packets -> Nat] /\ sflow \in Flows /\ sent \in 0 .. NPackets
      /\ (spc = "new" => sent < NPackets) /\ (wpc \in {"loop", "post"} => wflow \in Flows)
      /\ hand \in Packets \cup {NoPkt} /\ (wpc = "post" <=> hand # NoPkt)
  BY DEF TypeOK, RingsOK, SenderOK, WorkerOK
<1>2. \A f \in Flows : \A k \in DOMAIN queue[f] : queue[f][k] \in Packets
  BY <1>1, Elements
<1>3. \A p \in Packets : p \in Nat /\ p # NoPkt
  BY NoPktAssumption, SizeAssumption DEF Packets
<1>4. QED
  BY <1>1, <1>2, <1>3

LEMMA SenderAlive == TypeOK /\ RingsAlive /\ SenderStep => RingsAlive'
<1> SUFFICES ASSUME TypeOK, RingsAlive, SenderStep PROVE RingsAlive'
  OBVIOUS
<1> USE DEF rings, worker
<1>1. ASSUME NEW f \in Flows, FlowringCreate(f) PROVE RingsAlive'
  BY <1>1, QueueTypes DEF FlowringCreate, RingsAlive
<1>2. ASSUME NEW f \in Flows, Enqueue(f) PROVE RingsAlive'
  <2>1. status[f] # "NULL" /\ \A g \in Flows : g # f => queue'[g] = queue[g]
    BY <1>2, QueueTypes DEF Enqueue
  <2>2. QED
    BY <1>2, <2>1 DEF Enqueue, RingsAlive
<1>3. CASE EnqueueNew
  <2>1. \A g \in Flows : g # sflow => queue'[g] = queue[g]
    BY <1>3, QueueTypes DEF EnqueueNew
  <2>2. QED
    BY <1>3, <2>1 DEF EnqueueNew, RingsAlive
<1>4. CASE MarkFlow \/ QueueWork
  BY <1>4 DEF MarkFlow, QueueWork, RingsAlive
<1>5. QED
  BY <1>1, <1>2, <1>3, <1>4 DEF SenderStep

LEMMA WorkerAlive == TypeOK /\ RingsAlive /\ WorkerStep => RingsAlive'
<1> SUFFICES ASSUME TypeOK, RingsAlive, WorkerStep PROVE RingsAlive'
  OBVIOUS
<1> USE DEF rings, sender
<1>1. CASE StartWork \/ Scan
  BY <1>1 DEF StartWork, Scan, RingsAlive
<1>2. CASE NothingQueued \/ Post
  BY <1>2 DEF NothingQueued, FinishFlow, Post, RingsAlive
<1>3. CASE Dequeue
  <2>1. wflow \in Flows /\ status[wflow] = "OPEN" /\ \A g \in Flows : g # wflow => queue'[g] = queue[g]
    BY <1>3, QueueTypes DEF Dequeue
  <2>2. QED
    BY <1>3, <2>1 DEF Dequeue, RingsAlive
<1>4. CASE PutBack
  <2>1. wflow \in Flows /\ status[wflow] # "NULL" /\ \A g \in Flows : g # wflow => queue'[g] = queue[g]
    BY <1>4, QueueTypes DEF PutBack, RingsAlive
  <2>2. QED
    BY <1>4, <2>1 DEF PutBack, FinishFlow, RingsAlive
<1>5. QED
  BY <1>1, <1>2, <1>3, <1>4 DEF WorkerStep

LEMMA AsideAlive == TypeOK /\ RingsAlive /\ Aside => RingsAlive'
<1> SUFFICES ASSUME TypeOK, RingsAlive, Aside PROVE RingsAlive'
  OBVIOUS
<1>1. UNCHANGED << spc, sflow, wpc, wflow >> /\ (wpc = "post" => wflow \in Flows) /\ sflow \in Flows
  BY QueueTypes DEF Aside
<1>2. CASE Keeps
  BY <1>1, <1>2 DEF Keeps, RingsAlive
<1>3. ASSUME NEW f \in Flows, Untouched(f), FlowringDelete(f) PROVE RingsAlive'
  <2>1. /\ \A g \in Flows : g # f => status'[g] = status[g] /\ queue'[g] = queue[g]
        /\ queue'[f] = << >>
    BY <1>3, QueueTypes DEF FlowringDelete
  <2>2. (wpc = "post" => wflow # f) /\ (spc = "new" => sflow # f)
    BY <1>3 DEF Untouched
  <2>3. QED
    BY <1>1, <2>1, <2>2 DEF RingsAlive
<1>4. QED
  BY <1>2, <1>3 DEF Aside, Removes

(* No deletion or refused creation takes a ring away under the worker (nor *)
(* under the sender, which InUse assumes), and a deleted one has no        *)
(* packets.                                                                *)
THEOREM StepAlive ==
  ASSUME TypeOK, ~leftover => Lifecycle, RingsAlive, [Next]_vars
  PROVE  RingsAlive'
<1>1. CASE ProcessTxstatus
  BY <1>1 DEF ProcessTxstatus, rings, sender, worker, RingsAlive
<1>2. QED
  BY <1>1, FourKinds, SenderAlive, WorkerAlive, AsideAlive

-----------------------------------------------------------------------------
(* The order of packets. *)

LEMMA OrderTypes ==
  ASSUME TypeOK, IdsOnce
  PROVE  \A f \in Flows : \A k \in DOMAIN ring[f] :
           ring[f][k] \in PktIds /\ tx_pktids[ring[f][k]] \in Packets /\ tx_pktids[ring[f][k]] \in Nat
  BY IdTypes, QueueTypes DEF IdsOnce

(* What was accepted is not above sent.                                    *)
LEMMA Accepted ==
  ASSUME TypeOK, IdsOnce, OnePlace
  PROVE  /\ \A f \in Flows : \A k \in DOMAIN queue[f] : queue[f][k] <= sent
         /\ \A f \in Flows : \A k \in DOMAIN ring[f] : tx_pktids[ring[f][k]] <= sent
         /\ hand # NoPkt => hand <= sent
<1>1. ASSUME NEW f \in Flows, NEW k \in DOMAIN queue[f] PROVE queue[f][k] <= sent
  <2>1. queue[f][k] \in Packets /\ Queued(queue[f][k])
    BY QueueTypes DEF Queued, Range
  <2>2. QED
    BY <2>1 DEF OnePlace
<1>2. ASSUME NEW f \in Flows, NEW k \in DOMAIN ring[f] PROVE tx_pktids[ring[f][k]] <= sent
  <2>1. tx_pktids[ring[f][k]] \in Packets /\ HasId(tx_pktids[ring[f][k]])
    BY OrderTypes DEF HasId
  <2>2. QED
    BY <2>1 DEF OnePlace
<1>3. hand # NoPkt => hand <= sent
  BY QueueTypes DEF OnePlace
<1>4. QED
  BY <1>1, <1>2, <1>3

LEMMA EnqueueOrder ==
  ASSUME TypeOK, IdsOnce, OnePlace, Order, NEW f \in Flows, sent < NPackets,
         queue' = [queue EXCEPT ![f] = Append(@, sent + 1)],
         UNCHANGED << ring, tx_pktids, hand, wflow >>
  PROVE  Order'
<1>1. sent + 1 \in Packets /\ sent \in Nat
  BY QueueTypes, SizeAssumption DEF Packets
<1>2. \A g \in Flows : \A k \in DOMAIN queue'[g] :
        \/ k \in DOMAIN queue[g] /\ queue'[g][k] = queue[g][k]
        \/ g = f /\ k = Len(queue[g]) + 1 /\ queue'[g][k] = sent + 1
  <2>1. queue[f] \in Seq(Packets) /\ queue'[f] = Append(queue[f], sent + 1)
        /\ \A g \in Flows : g # f => queue'[g] = queue[g]
    BY QueueTypes
  <2>2. \A k \in DOMAIN queue'[f] : \/ k \in DOMAIN queue[f] /\ queue'[f][k] = queue[f][k]
                                    \/ k = Len(queue[f]) + 1 /\ queue'[f][k] = sent + 1
    BY <1>1, <2>1, Back
  <2>3. QED
    BY <2>1, <2>2
<1>3. \A g \in Flows : \A j \in DOMAIN ring[g], k \in DOMAIN queue'[g] : tx_pktids[ring[g][j]] < queue'[g][k]
  BY <1>1, <1>2, Accepted, OrderTypes DEF Order
<1>4. \A g \in Flows : \A j, k \in DOMAIN queue'[g] : j < k => queue'[g][j] < queue'[g][k]
  <2>1. \A g \in Flows : DOMAIN queue[g] = 1 .. Len(queue[g]) /\ Len(queue[g]) \in Nat
    BY QueueTypes, Elements
  <2>2. ASSUME NEW g \in Flows, NEW j \in DOMAIN queue'[g], NEW k \in DOMAIN queue'[g], j < k
        PROVE  queue'[g][j] < queue'[g][k]
    <3>1. j \in DOMAIN queue[g] /\ queue'[g][j] = queue[g][j]
      <4>1. j \in Nat /\ k \in 1 .. Len(queue[g]) + 1
        BY <1>2, <2>1, <2>2
      <4>2. j # Len(queue[g]) + 1
        BY <2>1, <2>2, <4>1
      <4>3. QED
        BY <1>2, <2>2, <4>2
    <3>2. CASE k \in DOMAIN queue[g] /\ queue'[g][k] = queue[g][k]
      BY <2>2, <3>1, <3>2 DEF Order
    <3>3. CASE queue'[g][k] = sent + 1
      <4>1. queue[g][j] \in Nat /\ queue[g][j] <= sent
        BY <3>1, Accepted, QueueTypes
      <4>2. QED
        BY <1>1, <3>1, <3>3, <4>1
    <3>4. QED
      BY <1>2, <2>2, <3>2, <3>3
  <2>3. QED
    BY <2>2
<1>5. ASSUME hand # NoPkt PROVE \A k \in DOMAIN queue'[wflow] : hand < queue'[wflow][k]
  <2>1. wflow \in Flows /\ hand \in Nat /\ hand <= sent
    BY <1>5, QueueTypes, Accepted
  <2>2. QED
    BY <1>1, <1>2, <1>5, <2>1 DEF Order
<1>6. QED
  BY <1>3, <1>4, <1>5 DEF Order

LEMMA DequeueOrder == TypeOK /\ IdsOnce /\ Order /\ Dequeue => Order'
<1> SUFFICES ASSUME TypeOK, IdsOnce, Order, Dequeue PROVE Order'
  OBVIOUS
<1>1. /\ wflow \in Flows /\ queue[wflow] \in Seq(Packets) /\ queue[wflow] # << >> /\ wflow' = wflow
      /\ UNCHANGED << ring, tx_pktids >> /\ hand' = Head(queue[wflow])
      /\ queue' = [queue EXCEPT ![wflow] = Tail(@)]
  BY QueueTypes DEF Dequeue, posts
<1>2. /\ 1 \in DOMAIN queue[wflow] /\ hand' = queue[wflow][1] /\ hand' \in Packets
      /\ \A k \in DOMAIN queue'[wflow] : k \in Nat \ {0} /\ k + 1 \in DOMAIN queue[wflow] /\ queue'[wflow][k] = queue[wflow][k + 1]
      /\ \A g \in Flows : g # wflow => queue'[g] = queue[g]
  <2>1. queue'[wflow] = Tail(queue[wflow]) /\ \A g \in Flows : g # wflow => queue'[g] = queue[g]
    BY <1>1, QueueTypes
  <2>2. /\ 1 \in DOMAIN queue[wflow] /\ hand' = queue[wflow][1] /\ hand' \in Packets
        /\ queue'[wflow] \in Seq(Packets)
        /\ \A k \in DOMAIN Tail(queue[wflow]) : k + 1 \in DOMAIN queue[wflow] /\ Tail(queue[wflow])[k] = queue[wflow][k + 1]
    BY <1>1, <2>1, Front
  <2>3. \A k \in DOMAIN queue'[wflow] : k \in Nat \ {0}
    BY <2>2
  <2>4. QED
    BY <2>1, <2>2, <2>3
<1>3. \A g \in Flows : \A j \in DOMAIN ring[g], k \in DOMAIN queue'[g] : tx_pktids[ring[g][j]] < queue'[g][k]
  BY <1>2 DEF Order
<1>4. \A g \in Flows : \A j, k \in DOMAIN queue'[g] : j < k => queue'[g][j] < queue'[g][k]
  <2>1. ASSUME NEW j \in DOMAIN queue'[wflow], NEW k \in DOMAIN queue'[wflow], j < k
        PROVE  queue'[wflow][j] < queue'[wflow][k]
    <3>1. j + 1 < k + 1
      BY <1>2, <2>1
    <3>2. QED
      BY <1>1, <1>2, <2>1, <3>1 DEF Order
  <2>2. QED
    BY <1>2, <2>1 DEF Order
<1>5. \A k \in DOMAIN ring[wflow] : tx_pktids[ring[wflow][k]] < hand'
  BY <1>1, <1>2 DEF Order
<1>6. \A k \in DOMAIN queue'[wflow] : hand' < queue'[wflow][k]
  <2>1. \A k \in DOMAIN queue'[wflow] : 1 < k + 1
    BY <1>2
  <2>2. QED
    BY <1>1, <1>2, <2>1 DEF Order
<1>7. QED
  BY <1>1, <1>3, <1>4, <1>5, <1>6 DEF Order

LEMMA PostOrder == TypeOK /\ IdsOnce /\ Order /\ Post => Order'
<1> SUFFICES ASSUME TypeOK, IdsOnce, Order, Post PROVE Order'
  OBVIOUS
<1>1. wflow \in Flows /\ hand \in Packets /\ hand # NoPkt /\ hand' = NoPkt /\ queue' = queue
  BY QueueTypes DEF Post, rings
<1>2. PICK i \in FreeIds : /\ tx_pktids' = [tx_pktids EXCEPT ![i] = hand]
                           /\ ring' = [ring EXCEPT ![wflow] = Append(@, i)]
  BY DEF Post
<1>3. /\ i \in PktIds /\ tx_pktids'[i] = hand /\ \A j \in PktIds : j # i => tx_pktids'[j] = tx_pktids[j]
      /\ \A g \in Flows : \A k \in DOMAIN ring[g] : ring[g][k] # i
  BY <1>2, IdTypes DEF FreeIds, IdsOnce
<1>4. \A g \in Flows : \A k \in DOMAIN ring'[g] :
        \/ k \in DOMAIN ring[g] /\ ring'[g][k] = ring[g][k] /\ tx_pktids'[ring'[g][k]] = tx_pktids[ring[g][k]]
        \/ g = wflow /\ k = Len(ring[g]) + 1 /\ tx_pktids'[ring'[g][k]] = hand
  <2>1. /\ ring[wflow] \in Seq(PktIds) /\ ring'[wflow] = Append(ring[wflow], i)
        /\ \A g \in Flows : g # wflow => ring'[g] = ring[g]
    BY <1>1, <1>2, IdTypes
  <2>2. \A k \in DOMAIN ring'[wflow] : \/ k \in DOMAIN ring[wflow] /\ ring'[wflow][k] = ring[wflow][k]
                                       \/ k = Len(ring[wflow]) + 1 /\ ring'[wflow][k] = i
    BY <1>3, <2>1, Back
  <2>3. \A g \in Flows : \A k \in DOMAIN ring[g] : tx_pktids'[ring[g][k]] = tx_pktids[ring[g][k]]
    BY <1>3, IdTypes
  <2>4. QED
    BY <1>3, <2>1, <2>2, <2>3
<1>5. \A g \in Flows : \A j \in DOMAIN ring'[g], k \in DOMAIN queue[g] : tx_pktids'[ring'[g][j]] < queue[g][k]
  BY <1>1, <1>4 DEF Order
<1>6. ASSUME NEW g \in Flows, NEW j \in DOMAIN ring'[g], NEW k \in DOMAIN ring'[g], j < k
      PROVE  tx_pktids'[ring'[g][j]] < tx_pktids'[ring'[g][k]]
  <2>1. DOMAIN ring[g] = 1 .. Len(ring[g]) /\ Len(ring[g]) \in Nat
    BY IdTypes, Elements
  <2>2. j # Len(ring[g]) + 1
    <3>1. j \in Nat /\ k \in 1 .. Len(ring[g]) + 1
      BY <1>4, <1>6, <2>1
    <3>2. QED
      BY <1>6, <2>1, <3>1
  <2>3. j \in DOMAIN ring[g] /\ tx_pktids'[ring'[g][j]] = tx_pktids[ring[g][j]]
    BY <1>4, <1>6, <2>2
  <2>4. CASE k \in DOMAIN ring[g] /\ tx_pktids'[ring'[g][k]] = tx_pktids[ring[g][k]]
    BY <1>6, <2>3, <2>4 DEF Order
  <2>5. CASE g = wflow /\ tx_pktids'[ring'[g][k]] = hand
    BY <1>1, <2>3, <2>5 DEF Order
  <2>6. QED
    BY <1>4, <1>6, <2>4, <2>5
<1>7. \A g \in Flows : \A j, k \in DOMAIN queue[g] : j < k => queue[g][j] < queue[g][k]
  BY DEF Order
<1>8. QED
  BY <1>1, <1>5, <1>6, <1>7 DEF Order

LEMMA PutBackOrder == TypeOK /\ IdsOnce /\ Order /\ PutBack => Order'
<1> SUFFICES ASSUME TypeOK, IdsOnce, Order, PutBack PROVE Order'
  OBVIOUS
<1>1. /\ wflow \in Flows /\ queue[wflow] \in Seq(Packets) /\ hand \in Packets /\ hand # NoPkt /\ hand' = NoPkt
      /\ UNCHANGED << ring, tx_pktids >> /\ queue' = [queue EXCEPT ![wflow] = << hand >> \o queue[wflow]]
  BY QueueTypes DEF PutBack, Reinserted
<1>2. /\ \A g \in Flows : g # wflow => queue'[g] = queue[g]
      /\ \A k \in DOMAIN queue'[wflow] : \/ k = 1 /\ queue'[wflow][k] = hand
                                         \/ k - 1 \in DOMAIN queue[wflow] /\ queue'[wflow][k] = queue[wflow][k - 1]
  <2>1. /\ queue'[wflow] = << hand >> \o queue[wflow]
        /\ \A g \in Flows : g # wflow => queue'[g] = queue[g]
    BY <1>1, QueueTypes
  <2>2. QED
    BY <1>1, <2>1, Before
<1>3. \A g \in Flows : \A j \in DOMAIN ring[g], k \in DOMAIN queue'[g] : tx_pktids[ring[g][j]] < queue'[g][k]
  BY <1>1, <1>2 DEF Order
<1>4. ASSUME NEW j \in DOMAIN queue'[wflow], NEW k \in DOMAIN queue'[wflow], j < k
      PROVE  queue'[wflow][j] < queue'[wflow][k]
  <2>1. DOMAIN queue'[wflow] \subseteq Nat \ {0}
    <3>1. queue'[wflow] \in Seq(Packets)
      BY <1>1, Before, QueueTypes
    <3>2. QED
      BY <3>1
  <2>2. k # 1 /\ j \in Nat /\ k \in Nat
    BY <1>4, <2>1
  <2>3. k - 1 \in DOMAIN queue[wflow] /\ queue'[wflow][k] = queue[wflow][k - 1]
    BY <1>2, <1>4, <2>2
  <2>4. CASE j = 1 /\ queue'[wflow][j] = hand
    BY <1>1, <2>3, <2>4 DEF Order
  <2>5. CASE j - 1 \in DOMAIN queue[wflow] /\ queue'[wflow][j] = queue[wflow][j - 1]
    <3>1. j - 1 < k - 1
      BY <1>4, <2>2
    <3>2. QED
      BY <1>1, <2>3, <2>5, <3>1 DEF Order
  <2>6. QED
    BY <1>2, <1>4, <2>4, <2>5
<1>5. \A g \in Flows : g # wflow => \A j, k \in DOMAIN queue'[g] : j < k => queue'[g][j] < queue'[g][k]
  BY <1>2 DEF Order
<1>6. \A g \in Flows : \A j, k \in DOMAIN ring[g] : j < k => tx_pktids[ring[g][j]] < tx_pktids[ring[g][k]]
  BY DEF Order
<1>7. QED
  BY <1>1, <1>3, <1>4, <1>5, <1>6 DEF Order

LEMMA StatusOrder == TypeOK /\ IdsOnce /\ Order /\ ProcessTxstatus => Order'
<1> SUFFICES ASSUME TypeOK, IdsOnce, Order, ProcessTxstatus PROVE Order'
  OBVIOUS
<1> DEFINE i == txcpl[1].id
<1>1. 1 \in DOMAIN txcpl /\ Head(txcpl) = txcpl[1]
  BY Front, IdTypes DEF ProcessTxstatus
<1>2. /\ UNCHANGED << ring, queue, hand, wflow >>
      /\ tx_pktids' = tx_pktids \/ tx_pktids' = [tx_pktids EXCEPT ![i] = NoPkt]
  BY <1>1 DEF ProcessTxstatus, rings, worker
<1>3. \A g \in Flows : \A k \in DOMAIN ring[g] : ring[g][k] # i /\ ring[g][k] \in PktIds
  BY <1>1, IdTypes DEF IdsOnce
<1>4. \A g \in Flows : \A k \in DOMAIN ring[g] : tx_pktids'[ring[g][k]] = tx_pktids[ring[g][k]]
  BY <1>2, <1>3, IdTypes
<1>5. hand # NoPkt => wflow \in Flows
  BY QueueTypes
<1>6. QED
  BY <1>2, <1>4, <1>5 DEF Order

LEMMA AsideOrder == TypeOK /\ Order /\ Aside => Order'
<1> SUFFICES ASSUME TypeOK, Order, Aside PROVE Order'
  OBVIOUS
<1>1. UNCHANGED << wflow, hand, tx_pktids >> /\ (hand # NoPkt => wflow \in Flows)
  BY QueueTypes DEF Aside
<1>2. \A g \in Flows : queue'[g] = queue[g] \/ queue'[g] = << >>
  <2>1. ASSUME NEW f \in Flows, FlowringDelete(f) PROVE \A g \in Flows : queue'[g] = queue[g] \/ queue'[g] = << >>
    BY <2>1, QueueTypes DEF FlowringDelete
  <2>2. QED
    BY <2>1 DEF Aside, Keeps, Removes
<1>3. \A g \in Flows : \A k \in DOMAIN queue'[g] : k \in DOMAIN queue[g] /\ queue'[g][k] = queue[g][k]
  BY <1>2
<1>4. \A g \in Flows : \/ \A k \in DOMAIN ring'[g] : k \in DOMAIN ring[g] /\ ring'[g][k] = ring[g][k]
                       \/ \A k \in DOMAIN ring'[g] : k \in Nat /\ k + 1 \in DOMAIN ring[g] /\ ring'[g][k] = ring[g][k + 1]
  <2>1. ASSUME NEW g \in Flows, ring[g] # << >>, ring'[g] = Tail(ring[g])
        PROVE  \A k \in DOMAIN ring'[g] : k \in Nat /\ k + 1 \in DOMAIN ring[g] /\ ring'[g][k] = ring[g][k + 1]
    <3>1. ring[g] \in Seq(PktIds)
      BY IdTypes
    <3>2. QED
      BY <2>1, <3>1, Front
  <2>2. QED
    BY <2>1 DEF Aside, Shortens
<1>5. \A g \in Flows : \A k \in DOMAIN ring'[g] : \E j \in DOMAIN ring[g] : ring'[g][k] = ring[g][j]
  BY <1>4
<1>6. ASSUME NEW g \in Flows, NEW j \in DOMAIN ring'[g], NEW k \in DOMAIN ring'[g], j < k
      PROVE  tx_pktids[ring'[g][j]] < tx_pktids[ring'[g][k]]
  <2>1. CASE \A l \in DOMAIN ring'[g] : l \in DOMAIN ring[g] /\ ring'[g][l] = ring[g][l]
    BY <1>6, <2>1 DEF Order
  <2>2. CASE \A l \in DOMAIN ring'[g] : l \in Nat /\ l + 1 \in DOMAIN ring[g] /\ ring'[g][l] = ring[g][l + 1]
    <3>1. j + 1 < k + 1
      BY <1>6, <2>2
    <3>2. QED
      BY <1>6, <2>2, <3>1 DEF Order
  <2>3. QED
    BY <1>4, <1>6, <2>1, <2>2
<1>7. \A g \in Flows : \A j \in DOMAIN ring'[g], k \in DOMAIN queue'[g] : tx_pktids[ring'[g][j]] < queue'[g][k]
  <2>1. ASSUME NEW g \in Flows, NEW j \in DOMAIN ring'[g], NEW k \in DOMAIN queue'[g]
        PROVE  tx_pktids[ring'[g][j]] < queue'[g][k]
    <3>1. PICK l \in DOMAIN ring[g] : ring'[g][j] = ring[g][l]
      BY <1>5, <2>1
    <3>2. QED
      BY <1>3, <2>1, <3>1 DEF Order
  <2>2. QED
    BY <2>1
<1>8. \A g \in Flows : \A j, k \in DOMAIN queue'[g] : j < k => queue'[g][j] < queue'[g][k]
  BY <1>3 DEF Order
<1>9. hand # NoPkt => /\ \A k \in DOMAIN ring'[wflow] : tx_pktids[ring'[wflow][k]] < hand
                      /\ \A k \in DOMAIN queue'[wflow] : hand < queue'[wflow][k]
  <2>1. ASSUME hand # NoPkt, NEW k \in DOMAIN ring'[wflow] PROVE tx_pktids[ring'[wflow][k]] < hand
    <3>1. PICK l \in DOMAIN ring[wflow] : ring'[wflow][k] = ring[wflow][l]
      BY <1>1, <1>5, <2>1
    <3>2. QED
      BY <2>1, <3>1 DEF Order
  <2>2. ASSUME hand # NoPkt, NEW k \in DOMAIN queue'[wflow] PROVE hand < queue'[wflow][k]
    BY <1>1, <1>3, <2>2 DEF Order
  <2>3. QED
    BY <2>1, <2>2
<1>10. QED
  BY <1>1, <1>6, <1>7, <1>8, <1>9 DEF Order

(* Neither a dequeue nor a packet put back changes the order of a flow.    *)
THEOREM StepOrder ==
  ASSUME TypeOK, ~leftover => Lifecycle, IdsOnce, OnePlace, Order, [Next]_vars
  PROVE  Order'
<1>1. CASE SenderStep
  <2>1. CASE \E f \in Flows : FlowringCreate(f)
    BY <2>1 DEF FlowringCreate, posts, worker, Order
  <2>2. ASSUME NEW f \in Flows, Enqueue(f) PROVE Order'
    BY <2>2, EnqueueOrder DEF Enqueue, posts, worker
  <2>3. CASE EnqueueNew
    BY <2>3, EnqueueOrder, QueueTypes DEF EnqueueNew, posts, worker
  <2>4. CASE MarkFlow \/ QueueWork
    BY <2>4 DEF MarkFlow, QueueWork, posts, worker, rings, Order
  <2>5. QED
    BY <1>1, <2>1, <2>2, <2>3, <2>4 DEF SenderStep
<1>2. CASE WorkerStep
  <2>1. CASE StartWork \/ Scan \/ NothingQueued
    <3>1. hand = NoPkt /\ hand' = NoPkt /\ UNCHANGED << queue, ring, tx_pktids >>
      BY <2>1, QueueTypes DEF StartWork, Scan, NothingQueued, rings, posts
    <3>2. QED
      BY <3>1 DEF Order
  <2>2. QED
    BY <1>2, <2>1, DequeueOrder, PostOrder, PutBackOrder DEF WorkerStep
<1>3. QED
  BY <1>1, <1>2, FourKinds, StatusOrder, AsideOrder

-----------------------------------------------------------------------------
(* No packet is lost or doubled. *)

LEMMA RangeAppend ==
  ASSUME NEW S, NEW s \in Seq(S), NEW e \in S
  PROVE  Range(Append(s, e)) = Range(s) \cup {e}
<1>1. Range(Append(s, e)) \subseteq Range(s) \cup {e}
  BY Back DEF Range
<1>2. Range(s) \subseteq Range(Append(s, e))
  BY DEF Range
<1>3. e \in Range(Append(s, e))
  <2>1. Len(s) + 1 \in DOMAIN Append(s, e) /\ Append(s, e)[Len(s) + 1] = e
    OBVIOUS
  <2>2. QED
    BY <2>1 DEF Range
<1>4. QED
  BY <1>1, <1>2, <1>3

LEMMA RangeFront ==
  ASSUME NEW S, NEW s \in Seq(S), s # << >>, \A j, k \in DOMAIN s : j < k => s[j] # s[k]
  PROVE  Head(s) \in Range(s) /\ Range(Tail(s)) = Range(s) \ {Head(s)}
<1>1. 1 \in DOMAIN s /\ Head(s) = s[1]
  BY Front
<1>2. Head(s) \in Range(s)
  BY <1>1 DEF Range
<1>3. ASSUME NEW k \in DOMAIN Tail(s) PROVE Tail(s)[k] \in Range(s) \ {Head(s)}
  <2>1. k \in Nat \ {0} /\ k + 1 \in DOMAIN s /\ Tail(s)[k] = s[k + 1]
    BY <1>3, Front
  <2>2. 1 < k + 1
    BY <2>1
  <2>3. QED
    BY <1>1, <2>1, <2>2 DEF Range
<1>4. ASSUME NEW k \in DOMAIN s, s[k] # Head(s) PROVE s[k] \in Range(Tail(s))
  <2>1. k # 1 /\ k \in 1 .. Len(s)
    BY <1>1, <1>4
  <2>2. k - 1 \in DOMAIN Tail(s) /\ Tail(s)[k - 1] = s[k]
    BY <2>1
  <2>3. QED
    BY <2>2 DEF Range
<1>5. Range(Tail(s)) \subseteq Range(s) \ {Head(s)}
  BY <1>3 DEF Range
<1>6. Range(s) \ {Head(s)} \subseteq Range(Tail(s))
  BY <1>4 DEF Range
<1>7. QED
  BY <1>2, <1>5, <1>6

LEMMA RangeBefore ==
  ASSUME NEW S, NEW s \in Seq(S), NEW e \in S
  PROVE  Range(<< e >> \o s) = Range(s) \cup {e}
<1>1. Range(<< e >> \o s) \subseteq Range(s) \cup {e}
  BY Before DEF Range
<1>2. e \in Range(<< e >> \o s)
  <2>1. 1 \in DOMAIN (<< e >> \o s) /\ (<< e >> \o s)[1] = e
    OBVIOUS
  <2>2. QED
    BY <2>1 DEF Range
<1>3. ASSUME NEW k \in DOMAIN s PROVE s[k] \in Range(<< e >> \o s)
  <2>1. k + 1 \in DOMAIN (<< e >> \o s) /\ (<< e >> \o s)[k + 1] = s[k]
    OBVIOUS
  <2>2. QED
    BY <2>1 DEF Range
<1>4. Range(s) \subseteq Range(<< e >> \o s)
  BY <1>3 DEF Range
<1>5. QED
  BY <1>1, <1>2, <1>4

LEMMA RangeEmpty == Range(<< >>) = {}
  BY DEF Range

LEMMA EnqueuePlace ==
  ASSUME TypeOK, OnePlace, NEW f \in Flows, sent < NPackets, sent' = sent + 1,
         queue' = [queue EXCEPT ![f] = Append(@, sent + 1)],
         UNCHANGED << tx_pktids, hand, fin >>
  PROVE  OnePlace'
<1> DEFINE q == sent + 1
<1>1. q \in Packets /\ q = sent + 1 /\ sent \in Nat /\ sent' = q
  BY QueueTypes, SizeAssumption DEF Packets
<1> HIDE DEF q
<1>2. ~Queued(q) /\ ~HasId(q) /\ hand # q /\ fin[q] = 0
  <2>1. ~(q <= sent)
    BY <1>1
  <2>2. QED
    BY <1>1, <2>1 DEF OnePlace
<1>3. Range(queue'[f]) = Range(queue[f]) \cup {q} /\ \A g \in Flows : g # f => queue'[g] = queue[g]
  <2>1. queue[f] \in Seq(Packets) /\ queue'[f] = Append(queue[f], q)
    BY <1>1, QueueTypes
  <2>2. Range(queue'[f]) = Range(queue[f]) \cup {q}
    BY <1>1, <2>1, RangeAppend
  <2>3. QED
    BY <2>2, QueueTypes
<1>4. \A p \in Packets : Queued(p)' <=> Queued(p) \/ p = q
  BY <1>3 DEF Queued
<1>5. \A p \in Packets : (HasId(p)' <=> HasId(p)) /\ (p <= sent' <=> p <= sent \/ p = q)
  BY <1>1, QueueTypes DEF HasId
<1>6. \A g, h \in Flows : g # h => Range(queue'[g]) \cap Range(queue'[h]) = {}
  <2>1. \A g \in Flows : q \notin Range(queue[g])
    BY <1>2 DEF Queued
  <2>2. \A g, h \in Flows : g # h => Range(queue[g]) \cap Range(queue[h]) = {}
    BY DEF OnePlace
  <2>3. \A g \in Flows : g # f => Range(queue'[g]) = Range(queue[g])
    BY <1>3
  <2>4. \A g \in Flows : g # f => Range(queue'[f]) \cap Range(queue'[g]) = {}
    <3>1. ASSUME NEW g \in Flows, g # f, NEW p \in Range(queue'[f]), p \in Range(queue'[g]) PROVE FALSE
      <4>1. p \in Range(queue[f]) \/ p = q
        BY <1>3, <3>1
      <4>2. p \in Range(queue[g])
        BY <2>3, <3>1
      <4>3. QED
        BY <2>1, <2>2, <3>1, <4>1, <4>2
    <3>2. QED
      BY <3>1
  <2>5. \A g, h \in Flows : g # h /\ g # f /\ h # f => Range(queue'[g]) \cap Range(queue'[h]) = {}
    BY <2>2, <2>3
  <2>6. QED
    BY <2>4, <2>5
<1>7. \A i, j \in PktIds : tx_pktids[i] = tx_pktids[j] /\ tx_pktids[i] # NoPkt => i = j
  BY DEF OnePlace
<1>8. ASSUME NEW p \in Packets
      PROVE  /\ fin[p] \in {0, 1}
             /\ p <= sent' <=> (Queued(p)' \/ HasId(p)' \/ hand = p \/ fin[p] = 1)
             /\ ~(Queued(p)' /\ HasId(p)') /\ ~(Queued(p)' /\ hand = p) /\ ~(HasId(p)' /\ hand = p)
             /\ fin[p] = 1 => ~Queued(p)' /\ ~HasId(p)' /\ hand # p
  <2>1. CASE p = q
    BY <1>1, <1>2, <1>4, <1>5, <2>1
  <2>2. CASE p # q
    <3>1. (Queued(p)' <=> Queued(p)) /\ (HasId(p)' <=> HasId(p)) /\ (p <= sent' <=> p <= sent)
      BY <1>4, <1>5, <2>2
    <3>2. QED
      BY <3>1 DEF OnePlace
  <2>3. QED
    BY <2>1, <2>2
<1>9. QED
  BY <1>6, <1>7, <1>8 DEF OnePlace

LEMMA DequeuePlace == TypeOK /\ Order /\ OnePlace /\ Dequeue => OnePlace'
<1> SUFFICES ASSUME TypeOK, Order, OnePlace, Dequeue PROVE OnePlace'
  OBVIOUS
<1>1. /\ wflow \in Flows /\ queue[wflow] \in Seq(Packets) /\ queue[wflow] # << >> /\ hand = NoPkt
      /\ UNCHANGED << sent, tx_pktids, fin >> /\ hand' = Head(queue[wflow])
      /\ queue'[wflow] = Tail(queue[wflow]) /\ \A g \in Flows : g # wflow => queue'[g] = queue[g]
  BY QueueTypes DEF Dequeue, posts, sender
<1>2. \A j, k \in DOMAIN queue[wflow] : j < k => queue[wflow][j] # queue[wflow][k]
  BY <1>1, QueueTypes DEF Order
<1>3. hand' \in Range(queue[wflow]) /\ Range(queue'[wflow]) = Range(queue[wflow]) \ {hand'}
  BY <1>1, <1>2, RangeFront
<1>4. \A g \in Flows : g # wflow => hand' \notin Range(queue[g])
  BY <1>1, <1>3 DEF OnePlace
<1>5. hand' \in Packets
  BY <1>1, Front
<1>6. \A p \in Packets : Queued(p)' <=> Queued(p) /\ p # hand'
  BY <1>1, <1>3, <1>4 DEF Queued
<1>7. Queued(hand')
  BY <1>1, <1>3 DEF Queued
<1>8. \A p \in Packets : (HasId(p)' <=> HasId(p)) /\ hand # p
  BY <1>1, QueueTypes DEF HasId
<1>9. \A g, h \in Flows : g # h => Range(queue'[g]) \cap Range(queue'[h]) = {}
  BY <1>1, <1>3 DEF OnePlace
<1>10. \A i, j \in PktIds : tx_pktids[i] = tx_pktids[j] /\ tx_pktids[i] # NoPkt => i = j
  BY DEF OnePlace
<1>11. ASSUME NEW p \in Packets
       PROVE  /\ fin[p] \in {0, 1}
              /\ p <= sent <=> (Queued(p)' \/ HasId(p)' \/ hand' = p \/ fin[p] = 1)
              /\ ~(Queued(p)' /\ HasId(p)') /\ ~(Queued(p)' /\ hand' = p) /\ ~(HasId(p)' /\ hand' = p)
              /\ fin[p] = 1 => ~Queued(p)' /\ ~HasId(p)' /\ hand' # p
  BY <1>6, <1>7, <1>8 DEF OnePlace
<1>12. QED
  BY <1>1, <1>9, <1>10, <1>11 DEF OnePlace

LEMMA PostPlace == TypeOK /\ OnePlace /\ Post => OnePlace'
<1> SUFFICES ASSUME TypeOK, OnePlace, Post PROVE OnePlace'
  OBVIOUS
<1>1. /\ hand \in Packets /\ hand # NoPkt /\ hand' = NoPkt
      /\ UNCHANGED << sent, queue, fin >>
  BY QueueTypes DEF Post, rings, sender
<1>2. PICK i \in FreeIds : tx_pktids' = [tx_pktids EXCEPT ![i] = hand]
  BY DEF Post
<1>3. i \in PktIds /\ tx_pktids[i] = NoPkt /\ tx_pktids'[i] = hand /\ \A j \in PktIds : j # i => tx_pktids'[j] = tx_pktids[j]
  BY <1>2, IdTypes DEF FreeIds
<1>4. \A p \in Packets : HasId(p)' <=> HasId(p) \/ p = hand
  BY <1>3, QueueTypes DEF HasId
<1>5. \A p \in Packets : (Queued(p)' <=> Queued(p)) /\ hand' # p
  BY <1>1, QueueTypes DEF Queued
<1>6. ~HasId(hand)
  BY <1>1 DEF OnePlace
<1>7. \A j, k \in PktIds : tx_pktids'[j] = tx_pktids'[k] /\ tx_pktids'[j] # NoPkt => j = k
  <2>1. \A j \in PktIds : j # i => tx_pktids[j] # hand
    BY <1>6 DEF HasId
  <2>2. QED
    BY <1>3, <2>1 DEF OnePlace
<1>8. ASSUME NEW p \in Packets
      PROVE  /\ fin[p] \in {0, 1}
             /\ p <= sent <=> (Queued(p)' \/ HasId(p)' \/ hand' = p \/ fin[p] = 1)
             /\ ~(Queued(p)' /\ HasId(p)') /\ ~(Queued(p)' /\ hand' = p) /\ ~(HasId(p)' /\ hand' = p)
             /\ fin[p] = 1 => ~Queued(p)' /\ ~HasId(p)' /\ hand' # p
  BY <1>4, <1>5, <1>6 DEF OnePlace
<1>9. QED
  BY <1>1, <1>7, <1>8 DEF OnePlace

LEMMA PutBackPlace == TypeOK /\ OnePlace /\ PutBack => OnePlace'
<1> SUFFICES ASSUME TypeOK, OnePlace, PutBack PROVE OnePlace'
  OBVIOUS
<1>1. /\ wflow \in Flows /\ queue[wflow] \in Seq(Packets) /\ hand \in Packets /\ hand # NoPkt /\ hand' = NoPkt
      /\ UNCHANGED << sent, tx_pktids, fin >>
      /\ queue'[wflow] = << hand >> \o queue[wflow] /\ \A g \in Flows : g # wflow => queue'[g] = queue[g]
  BY QueueTypes DEF PutBack, Reinserted, sender
<1>2. Range(queue'[wflow]) = Range(queue[wflow]) \cup {hand}
  BY <1>1, RangeBefore
<1>3. ~Queued(hand) /\ \A p \in Packets : Queued(p)' <=> Queued(p) \/ p = hand
  <2>1. ~Queued(hand)
    BY <1>1 DEF OnePlace
  <2>2. \A p \in Packets : Queued(p)' <=> Queued(p) \/ p = hand
    BY <1>1, <1>2 DEF Queued
  <2>3. QED
    BY <2>1, <2>2
<1>4. \A p \in Packets : (HasId(p)' <=> HasId(p)) /\ hand' # p
  BY <1>1, QueueTypes DEF HasId
<1>5. \A g, h \in Flows : g # h => Range(queue'[g]) \cap Range(queue'[h]) = {}
  <2>1. \A g \in Flows : hand \notin Range(queue[g])
    BY <1>3 DEF Queued
  <2>2. \A g, h \in Flows : g # h => Range(queue[g]) \cap Range(queue[h]) = {}
    BY DEF OnePlace
  <2>3. \A g \in Flows : g # wflow => Range(queue'[g]) = Range(queue[g])
    BY <1>1
  <2>4. QED
    BY <1>2, <2>1, <2>2, <2>3
<1>6. \A i, j \in PktIds : tx_pktids[i] = tx_pktids[j] /\ tx_pktids[i] # NoPkt => i = j
  BY DEF OnePlace
<1>7. ASSUME NEW p \in Packets
      PROVE  /\ fin[p] \in {0, 1}
             /\ p <= sent <=> (Queued(p)' \/ HasId(p)' \/ hand' = p \/ fin[p] = 1)
             /\ ~(Queued(p)' /\ HasId(p)') /\ ~(Queued(p)' /\ hand' = p) /\ ~(HasId(p)' /\ hand' = p)
             /\ fin[p] = 1 => ~Queued(p)' /\ ~HasId(p)' /\ hand' # p
  BY <1>1, <1>3, <1>4 DEF OnePlace
<1>8. QED
  BY <1>1, <1>5, <1>6, <1>7 DEF OnePlace

LEMMA StatusPlace == TypeOK /\ OnePlace /\ ProcessTxstatus => OnePlace'
<1> SUFFICES ASSUME TypeOK, OnePlace, ProcessTxstatus PROVE OnePlace'
  OBVIOUS
<1> DEFINE i == txcpl[1].id
           q == tx_pktids[i]
<1>1. 1 \in DOMAIN txcpl /\ Head(txcpl) = txcpl[1] /\ i \in PktIds
  BY Front, IdTypes DEF ProcessTxstatus
<1>2. UNCHANGED << queue, hand, sent >>
  BY DEF ProcessTxstatus, rings, worker, sender
<1>3. CASE UNCHANGED << tx_pktids, fin >>
  BY <1>2, <1>3 DEF OnePlace, Queued, HasId
<1>4. CASE q # NoPkt /\ tx_pktids' = [tx_pktids EXCEPT ![i] = NoPkt] /\ fin' = [fin EXCEPT ![q] = @ + 1]
  <2>1. q \in Packets /\ HasId(q)
    BY <1>1, <1>4, IdTypes DEF HasId
  <2>2. fin[q] = 0
    BY <2>1 DEF OnePlace
  <2>3. fin'[q] = 1 /\ \A p \in Packets : p # q => fin'[p] = fin[p]
    BY <1>4, <2>1, <2>2, QueueTypes
  <2>4. tx_pktids'[i] = NoPkt /\ \A j \in PktIds : j # i => tx_pktids'[j] = tx_pktids[j]
    BY <1>1, <1>4, IdTypes
  <2>5. \A j \in PktIds : j # i => tx_pktids[j] # q
    BY <1>1, <1>4 DEF OnePlace
  <2>6. \A p \in Packets : HasId(p)' <=> HasId(p) /\ p # q
    BY <1>1, <2>4, <2>5, QueueTypes DEF HasId
  <2>7. \A p \in Packets : Queued(p)' <=> Queued(p)
    BY <1>2 DEF Queued
  <2>8. \A j, k \in PktIds : tx_pktids'[j] = tx_pktids'[k] /\ tx_pktids'[j] # NoPkt => j = k
    BY <2>4 DEF OnePlace
  <2> HIDE DEF q, i
  <2>9. ASSUME NEW p \in Packets
        PROVE  /\ fin'[p] \in {0, 1}
               /\ p <= sent <=> (Queued(p)' \/ HasId(p)' \/ hand = p \/ fin'[p] = 1)
               /\ ~(Queued(p)' /\ HasId(p)') /\ ~(Queued(p)' /\ hand = p) /\ ~(HasId(p)' /\ hand = p)
               /\ fin'[p] = 1 => ~Queued(p)' /\ ~HasId(p)' /\ hand # p
    <3>1. CASE p = q
      BY <2>1, <2>3, <2>6, <2>7, <3>1 DEF OnePlace
    <3>2. CASE p # q
      BY <2>3, <2>6, <2>7, <3>2 DEF OnePlace
    <3>3. QED
      BY <3>1, <3>2
  <2>10. \A g, h \in Flows : g # h => Range(queue[g]) \cap Range(queue[h]) = {}
    BY DEF OnePlace
  <2>11. QED
    BY <1>2, <2>8, <2>9, <2>10 DEF OnePlace
<1>5. QED
  BY <1>1, <1>3, <1>4 DEF ProcessTxstatus

LEMMA AsidePlace == TypeOK /\ RingsAlive /\ OnePlace /\ Aside => OnePlace'
<1> SUFFICES ASSUME TypeOK, RingsAlive, OnePlace, Aside PROVE OnePlace'
  OBVIOUS
<1>1. UNCHANGED << sent, hand, tx_pktids >>
  BY DEF Aside
<1>2. CASE Keeps
  BY <1>1, <1>2 DEF Keeps, OnePlace, Queued, HasId
<1>3. ASSUME NEW f \in Flows, FlowringDelete(f) PROVE OnePlace'
  <2>1. Dropped(f) = Range(queue[f])
    BY <1>3, RangeEmpty DEF Dropped, RingsAlive
  <2>2. Range(queue'[f]) = {} /\ \A g \in Flows : g # f => queue'[g] = queue[g]
    BY <1>3, QueueTypes, RangeEmpty DEF FlowringDelete
  <2>3. \A p \in Packets : fin'[p] = fin[p] + (IF p \in Range(queue[f]) THEN 1 ELSE 0)
    BY <1>3, <2>1 DEF FlowringDelete
  <2>4. \A p \in Packets : Queued(p)' <=> Queued(p) /\ p \notin Range(queue[f])
    BY <2>2 DEF Queued, OnePlace
  <2>5. \A p \in Packets : p \in Range(queue[f]) => Queued(p)
    BY DEF Queued
  <2>6. \A p \in Packets : HasId(p)' <=> HasId(p)
    BY <1>1 DEF HasId
  <2>7. ASSUME NEW p \in Packets
        PROVE  /\ fin'[p] \in {0, 1}
               /\ p <= sent <=> (Queued(p)' \/ HasId(p)' \/ hand = p \/ fin'[p] = 1)
               /\ ~(Queued(p)' /\ HasId(p)') /\ ~(Queued(p)' /\ hand = p) /\ ~(HasId(p)' /\ hand = p)
               /\ fin'[p] = 1 => ~Queued(p)' /\ ~HasId(p)' /\ hand # p
    <3>1. CASE p \in Range(queue[f])
      BY <2>3, <2>4, <2>5, <2>6, <3>1 DEF OnePlace
    <3>2. CASE p \notin Range(queue[f])
      <4>1. fin'[p] = fin[p]
        BY <2>3, <3>2, QueueTypes
      <4>2. QED
        BY <2>4, <2>6, <3>2, <4>1 DEF OnePlace
    <3>3. QED
      BY <3>1, <3>2
  <2>8. \A g, h \in Flows : g # h => Range(queue'[g]) \cap Range(queue'[h]) = {}
    BY <2>2 DEF OnePlace
  <2>9. \A i, j \in PktIds : tx_pktids[i] = tx_pktids[j] /\ tx_pktids[i] # NoPkt => i = j
    BY DEF OnePlace
  <2>10. QED
    BY <1>1, <2>7, <2>8, <2>9 DEF OnePlace
<1>4. QED
  BY <1>2, <1>3 DEF Aside, Removes

(* Every step takes a packet from one place to one other place.            *)
THEOREM StepPlace ==
  ASSUME TypeOK, ~leftover => Lifecycle, Order, RingsAlive, OnePlace, [Next]_vars
  PROVE  OnePlace'
<1>1. UNCHANGED << queue, sent, hand, tx_pktids, fin >> => OnePlace'
  BY DEF OnePlace, Queued, HasId
<1>2. CASE SenderStep
  <2>1. CASE (\E f \in Flows : FlowringCreate(f)) \/ MarkFlow \/ QueueWork
    BY <1>1, <2>1 DEF FlowringCreate, MarkFlow, QueueWork, posts, worker, rings
  <2>2. ASSUME NEW f \in Flows, Enqueue(f) PROVE OnePlace'
    BY <2>2, EnqueuePlace DEF Enqueue, posts, worker
  <2>3. CASE EnqueueNew
    BY <2>3, EnqueuePlace, QueueTypes DEF EnqueueNew, posts, worker
  <2>4. QED
    BY <1>2, <2>1, <2>2, <2>3 DEF SenderStep
<1>3. CASE WorkerStep
  <2>1. CASE StartWork \/ Scan \/ NothingQueued
    BY <1>1, <2>1 DEF StartWork, Scan, NothingQueued, rings, posts, sender
  <2>2. QED
    BY <1>3, <2>1, DequeuePlace, PostPlace, PutBackPlace DEF WorkerStep
<1>4. QED
  BY <1>2, <1>3, FourKinds, StatusPlace, AsidePlace

-----------------------------------------------------------------------------
(* The invariant. *)

(* No run of the driver starts outside of the invariant: it starts with no *)
(* ring, no request and no packet.                                         *)
THEOREM InitInv == Init => IInv
<1> SUFFICES ASSUME Init PROVE IInv
  OBVIOUS
<1> USE DEF Init
<1>1. \A f \in Flows : status[f] = "NULL" /\ queue[f] = << >> /\ ring[f] = << >> /\ held[f] = {}
  OBVIOUS
<1>2. Lifecycle
  BY <1>1 DEF Lifecycle, Distinct
<1>3. IdsOnce
  BY <1>1 DEF IdsOnce
<1>4. Order
  BY <1>1 DEF Order
<1>5. RingsAlive
  BY <1>1 DEF RingsAlive
<1>6. OnePlace
  <2>1. \A p \in Packets : ~(p <= sent) /\ p # NoPkt /\ fin[p] = 0
    BY NoPktAssumption, SizeAssumption DEF Packets
  <2>2. \A f \in Flows : Range(queue[f]) = {}
    BY <1>1, RangeEmpty
  <2>3. \A p \in Packets : ~Queued(p) /\ ~HasId(p) /\ hand # p
    BY <2>1, <2>2 DEF Queued, HasId
  <2>4. QED
    BY <2>1, <2>2, <2>3 DEF OnePlace
<1>7. QED
  BY <1>2, <1>3, <1>4, <1>5, <1>6, InitType DEF IInv

(* No step of the sender, the workers, the deleting thread, the device,    *)
(* the interrupt thread or the bus leaves the invariant.                   *)
THEOREM StepInv == IInv /\ [Next]_vars => IInv'
  BY StepType, StepLifecycle, StepIds, StepOrder, StepAlive, StepPlace DEF IInv

(* The invariant holds in every run, with any number of flows, packets,    *)
(* packet ids and slots, whatever is refused, times out or suspends.       *)
THEOREM Safety == Spec => []IInv
  BY InitInv, StepInv, PTL DEF Spec

(* The variables of the transmit path keep their types: among others, a    *)
(* ring holds no more messages than it has slots and the published ones    *)
(* are among the written ones.                                             *)
THEOREM TypeCorrect == Spec => []TypeOK
<1>1. IInv => TypeOK
  BY DEF IInv
<1>2. QED
  BY <1>1, Safety, PTL

(* The worker of brcmf_msgbuf_txflow, which holds the lock of the ring     *)
(* while brcmf_msgbuf_delete_flowring looks for it, never has a packet in  *)
(* hand for a ring that is not open or has no buffer, unless a request was *)
(* left over in the control ring.                                          *)
THEOREM PostsOnOpenRings == Spec => []WorkerOnOpenRing
<1>1. IInv => WorkerOnOpenRing
  <2> SUFFICES ASSUME IInv, wpc = "post", ~leftover PROVE status[wflow] = "OPEN" /\ buf[wflow]
    BY DEF WorkerOnOpenRing
  <2>1. wflow \in Flows
    BY DEF IInv, TypeOK, WorkerOK
  <2>2. QED
    BY <2>1 DEF IInv, Lifecycle
<1>2. QED
  BY <1>1, Safety, PTL

LEMMA AscendingConcat ==
  ASSUME NEW s \in Seq(Int), NEW t \in Seq(Int), Ascending(s), Ascending(t),
         \A j \in DOMAIN s, k \in DOMAIN t : s[j] < t[k]
  PROVE  s \o t \in Seq(Int) /\ Ascending(s \o t)
<1>1. /\ s \o t \in Seq(Int) /\ DOMAIN (s \o t) = 1 .. Len(s) + Len(t)
      /\ Len(s) \in Nat /\ Len(t) \in Nat /\ DOMAIN s = 1 .. Len(s) /\ DOMAIN t = 1 .. Len(t)
  OBVIOUS
<1>2. \A k \in 1 .. Len(s) : (s \o t)[k] = s[k]
  OBVIOUS
<1>3. \A k \in Len(s) + 1 .. Len(s) + Len(t) : (s \o t)[k] = t[k - Len(s)]
  OBVIOUS
<1>4. ASSUME NEW j \in DOMAIN (s \o t), NEW k \in DOMAIN (s \o t), j < k
      PROVE  (s \o t)[j] < (s \o t)[k]
  <2>1. CASE k \in 1 .. Len(s)
    <3>1. j \in 1 .. Len(s)
      BY <1>1, <1>4, <2>1
    <3>2. QED
      BY <1>1, <1>2, <1>4, <2>1, <3>1 DEF Ascending
  <2>2. CASE j \in 1 .. Len(s) /\ k \in Len(s) + 1 .. Len(s) + Len(t)
    <3>1. k - Len(s) \in DOMAIN t
      BY <1>1, <2>2
    <3>2. QED
      BY <1>1, <1>2, <1>3, <2>2, <3>1
  <2>3. CASE j \in Len(s) + 1 .. Len(s) + Len(t) /\ k \in Len(s) + 1 .. Len(s) + Len(t)
    <3>1. j - Len(s) \in DOMAIN t /\ k - Len(s) \in DOMAIN t /\ j - Len(s) < k - Len(s)
      BY <1>1, <1>4, <2>3
    <3>2. QED
      BY <1>3, <2>3, <3>1 DEF Ascending
  <2>4. QED
    BY <1>1, <1>4, <2>1, <2>2, <2>3
<1>5. QED
  BY <1>1, <1>4 DEF Ascending

(* The packets of a flow, those posted in its ring, the one in the hand of *)
(* the worker and those still queued, stand in the order in which the      *)
(* stack gave them: brcmf_flowring_reinsert puts back what was dequeued    *)
(* last.                                                                   *)
THEOREM OrderKept == Spec => []PacketsInOrder
<1>1. IInv => PacketsInOrder
  <2> SUFFICES ASSUME IInv, NEW f \in Flows PROVE Ascending(Posted(f) \o InHand(f) \o queue[f])
    BY DEF PacketsInOrder
  <2>1. TypeOK /\ Order /\ IdsOnce
    BY DEF IInv
  <2>2. /\ ring[f] \in Seq(PktIds) /\ queue[f] \in Seq(Packets) /\ tx_pktids \in [PktIds -> Packets \cup {NoPkt}]
        /\ hand \in Packets \cup {NoPkt}
    BY <2>1 DEF TypeOK, RingsOK, PostsOK, WorkerOK
  <2>3. Packets \subseteq Int
    BY SizeAssumption DEF Packets
  <2>4. Posted(f) \in Seq(Int) /\ DOMAIN Posted(f) = DOMAIN ring[f]
        /\ \A k \in DOMAIN ring[f] : Posted(f)[k] = tx_pktids[ring[f][k]]
    <3>1. \A k \in 1 .. Len(ring[f]) : ring[f][k] \in PktIds /\ tx_pktids[ring[f][k]] \in Int
      <4>1. \A k \in 1 .. Len(ring[f]) : k \in DOMAIN ring[f] /\ ring[f][k] \in PktIds
        BY <2>2, Elements
      <4>2. \A k \in DOMAIN ring[f] : tx_pktids[ring[f][k]] # NoPkt
        BY <2>1 DEF IdsOnce
      <4>3. QED
        BY <2>2, <2>3, <4>1, <4>2
    <3>2. Len(ring[f]) \in Nat /\ DOMAIN ring[f] = 1 .. Len(ring[f])
      BY <2>2, Elements
    <3>3. Posted(f) \in [1 .. Len(ring[f]) -> Int]
      BY <3>1 DEF Posted
    <3>4. Posted(f) \in Seq(Int)
      BY <3>2, <3>3
    <3>5. QED
      BY <3>2, <3>4 DEF Posted
  <2>5. InHand(f) \in Seq(Int) /\ \A k \in DOMAIN InHand(f) : wflow = f /\ hand # NoPkt /\ InHand(f)[k] = hand
    BY <2>2, <2>3 DEF InHand
  <2>6. queue[f] \in Seq(Int)
    BY <2>2, <2>3, Elements
  <2>7. Ascending(Posted(f)) /\ Ascending(queue[f])
    BY <2>1, <2>4 DEF Ascending, Order
  <2>8. Ascending(InHand(f))
    <3>1. \A j, k \in DOMAIN InHand(f) : ~(j < k)
      BY DEF InHand
    <3>2. QED
      BY <3>1 DEF Ascending
  <2>9. \A j \in DOMAIN Posted(f), k \in DOMAIN InHand(f) : Posted(f)[j] < InHand(f)[k]
    <3>1. ASSUME NEW j \in DOMAIN Posted(f), NEW k \in DOMAIN InHand(f)
          PROVE  Posted(f)[j] < InHand(f)[k]
      <4>1. wflow = f /\ hand # NoPkt /\ InHand(f)[k] = hand
        BY <2>5, <3>1
      <4>2. j \in DOMAIN ring[f] /\ Posted(f)[j] = tx_pktids[ring[f][j]]
        BY <2>4, <3>1
      <4>3. tx_pktids[ring[f][j]] < hand
        BY <2>1, <4>1, <4>2 DEF Order
      <4>4. QED
        BY <4>1, <4>2, <4>3
    <3>2. QED
      BY <3>1
  <2>10. Posted(f) \o InHand(f) \in Seq(Int) /\ Ascending(Posted(f) \o InHand(f))
    BY <2>4, <2>5, <2>7, <2>8, <2>9, AscendingConcat
  <2>11. ASSUME NEW j \in DOMAIN (Posted(f) \o InHand(f)), NEW k \in DOMAIN queue[f]
         PROVE  (Posted(f) \o InHand(f))[j] < queue[f][k]
    <3>1. \/ j \in DOMAIN Posted(f) /\ (Posted(f) \o InHand(f))[j] = Posted(f)[j]
          \/ (j - Len(Posted(f))) \in DOMAIN InHand(f) /\ (Posted(f) \o InHand(f))[j] = InHand(f)[j - Len(Posted(f))]
      BY <2>4, <2>5, <2>11
    <3>2. \A l \in DOMAIN Posted(f) : Posted(f)[l] < queue[f][k]
      BY <2>1, <2>4, <2>11 DEF Order
    <3>3. \A l \in DOMAIN InHand(f) : InHand(f)[l] < queue[f][k]
      BY <2>1, <2>5, <2>11 DEF Order
    <3>4. QED
      BY <3>1, <3>2, <3>3
  <2>12. QED
    BY <2>6, <2>7, <2>10, <2>11, AscendingConcat
<1>2. QED
  BY <1>1, Safety, PTL

LEMMA AtMostOne ==
  ASSUME NEW S, \A x, y \in S : x = y
  PROVE  Cardinality(S) = IF S = {} THEN 0 ELSE 1
<1>1. CASE S = {}
  BY <1>1, FS_EmptySet
<1>2. CASE S # {}
  <2>1. PICK x \in S : S = {x}
    BY <1>2
  <2>2. QED
    BY <2>1, FS_Singleton
<1>3. QED
  BY <1>1, <1>2

(* "We always eat the packet": one the driver accepted is queued, in the   *)
(* worker's hand or posted, in one place, until it is finalised, once; no  *)
(* refusal, timeout or suspension loses or doubles it.                     *)
THEOREM PacketsKept == Spec => []PacketsConserved
<1>1. IInv => PacketsConserved
  <2> SUFFICES ASSUME IInv, NEW p \in Packets PROVE Places(p) = IF p <= sent THEN 1 ELSE 0
    BY DEF PacketsConserved
  <2> DEFINE Q == {f \in Flows : p \in Range(queue[f])}
             H == {i \in PktIds : tx_pktids[i] = p}
  <2>1. OnePlace /\ p # NoPkt
    BY NoPktAssumption DEF IInv
  <2>2. \A f, g \in Q : f = g
    BY <2>1 DEF OnePlace
  <2>3. \A i, j \in H : i = j
    BY <2>1 DEF OnePlace
  <2>4. Cardinality(Q) = (IF Queued(p) THEN 1 ELSE 0)
    BY <2>2, AtMostOne DEF Queued
  <2>5. Cardinality(H) = (IF HasId(p) THEN 1 ELSE 0)
    BY <2>3, AtMostOne DEF HasId
  <2> HIDE DEF Q, H
  <2>6. Places(p) = Cardinality(Q) + Cardinality(H) + (IF hand = p THEN 1 ELSE 0) + fin[p]
    BY DEF Places, Q, H
  <2>7. /\ fin[p] \in {0, 1}
        /\ p <= sent <=> (Queued(p) \/ HasId(p) \/ hand = p \/ fin[p] = 1)
        /\ ~(Queued(p) /\ HasId(p)) /\ ~(Queued(p) /\ hand = p) /\ ~(HasId(p) /\ hand = p)
        /\ fin[p] = 1 => ~Queued(p) /\ ~HasId(p) /\ hand # p
    BY <2>1 DEF OnePlace
  <2>8. QED
    BY <2>4, <2>5, <2>6, <2>7
<1>2. QED
  BY <1>1, Safety, PTL

-----------------------------------------------------------------------------
(* What deletion waits for.  Without a timeout the count of a ring that is *)
(* closed or being removed is zero, unless the deleting thread still waits *)
(* for it.                                                                 *)
Drainable ==
  \A f \in Flows :
    /\ status[f] \in {"NULL", "CLOSED"} => outstanding_tx[f] = 0
    /\ status[f] = "CLOSING" => buf[f] /\ (outstanding_tx[f] = 0 \/ (dpc = "wait" /\ dflow = f))

(* OutstandingExact, with the sets it counts finite.                       *)
Of(s, f) == {k \in DOMAIN s : s[k].flow = f}
Exact ==
  \A f \in Flows :
    /\ IsFiniteSet(held[f])
    /\ outstanding_tx[f] = Len(ring[f]) + Cardinality(held[f]) + Cardinality(Of(txcpl, f))

Quiet == Exact /\ Drainable

LEMMA OfFinite ==
  ASSUME NEW S, NEW s \in Seq(S), NEW f
  PROVE  IsFiniteSet(Of(s, f)) /\ Cardinality(Of(s, f)) \in Nat
<1>1. IsFiniteSet(DOMAIN s)
  BY Elements, FS_Interval
<1>2. IsFiniteSet(Of(s, f))
  BY <1>1, FS_Subset DEF Of
<1>3. QED
  BY <1>2, FS_CardinalityType

LEMMA OfAppend ==
  ASSUME NEW S, NEW s \in Seq(S), NEW e \in S, NEW f
  PROVE  Cardinality(Of(Append(s, e), f)) = Cardinality(Of(s, f)) + IF e.flow = f THEN 1 ELSE 0
<1>1. /\ DOMAIN s = 1 .. Len(s) /\ DOMAIN Append(s, e) = 1 .. Len(s) + 1 /\ Len(s) \in Nat
      /\ \A k \in 1 .. Len(s) : Append(s, e)[k] = s[k]
      /\ Append(s, e)[Len(s) + 1] = e
  OBVIOUS
<1>2. IsFiniteSet(Of(s, f)) /\ Cardinality(Of(s, f)) \in Nat
  BY OfFinite
<1>3. CASE e.flow = f
  <2>1. Of(Append(s, e), f) = Of(s, f) \cup {Len(s) + 1} /\ Len(s) + 1 \notin Of(s, f)
    BY <1>1, <1>3 DEF Of
  <2>2. Cardinality(Of(s, f) \cup {Len(s) + 1}) = Cardinality(Of(s, f)) + 1
    BY <1>2, <2>1, FS_AddElement
  <2>3. QED
    BY <1>3, <2>1, <2>2
<1>4. CASE e.flow # f
  <2>1. Of(Append(s, e), f) = Of(s, f)
    BY <1>1, <1>4 DEF Of
  <2>2. QED
    BY <1>2, <1>4, <2>1
<1>5. QED
  BY <1>3, <1>4

LEMMA OfTail ==
  ASSUME NEW S, NEW s \in Seq(S), s # << >>, NEW f
  PROVE  Cardinality(Of(s, f)) = Cardinality(Of(Tail(s), f)) + IF s[1].flow = f THEN 1 ELSE 0
<1> DEFINE A == Of(Tail(s), f)
           B == Of(s, f) \ {1}
           shift == [k \in A |-> k + 1]
<1>1. /\ DOMAIN s = 1 .. Len(s) /\ DOMAIN Tail(s) = 1 .. Len(s) - 1 /\ Len(s) \in Nat \ {0}
      /\ \A k \in 1 .. Len(s) - 1 : Tail(s)[k] = s[k + 1]
      /\ Tail(s) \in Seq(S)
  OBVIOUS
<1>2. /\ IsFiniteSet(Of(s, f)) /\ Cardinality(Of(s, f)) \in Nat
      /\ IsFiniteSet(A) /\ Cardinality(A) \in Nat
  BY <1>1, OfFinite
<1>3. A \subseteq Nat /\ \A k \in A : k + 1 \in B
  BY <1>1 DEF Of
<1>4. \A k \in B : k - 1 \in A /\ (k - 1) + 1 = k
  BY <1>1 DEF Of
<1> HIDE DEF A, B
<1>5. shift \in Bijection(A, B)
  <2>1. shift \in [A -> B]
    BY <1>3
  <2>2. \A j, k \in A : shift[j] = shift[k] => j = k
    BY <1>3
  <2>3. \A k \in B : \E j \in A : shift[j] = k
    BY <1>4
  <2>4. QED
    BY <2>1, <2>2, <2>3 DEF Bijection, Injection, Surjection, IsInjective
<1>6. Cardinality(B) = Cardinality(A)
  BY <1>2, <1>5, FS_Bijection DEF ExistsBijection
<1>7. Cardinality(B) = IF 1 \in Of(s, f) THEN Cardinality(Of(s, f)) - 1 ELSE Cardinality(Of(s, f))
  BY <1>2, FS_RemoveElement DEF B
<1>8. 1 \in Of(s, f) <=> s[1].flow = f
  BY <1>1 DEF Of
<1>9. QED
  BY <1>2, <1>6, <1>7, <1>8 DEF A

LEMMA CountTypes ==
  ASSUME TypeOK, Exact, NEW f \in Flows
  PROVE  /\ ring[f] \in Seq(PktIds) /\ Len(ring[f]) \in Nat /\ outstanding_tx \in [Flows -> Int]
         /\ IsFiniteSet(held[f]) /\ Cardinality(held[f]) \in Nat
         /\ IsFiniteSet(Of(txcpl, f)) /\ Cardinality(Of(txcpl, f)) \in Nat
<1>1. ring[f] \in Seq(PktIds) /\ outstanding_tx \in [Flows -> Int]
  BY DEF TypeOK, PostsOK
<1>2. IsFiniteSet(held[f]) /\ Cardinality(held[f]) \in Nat
  BY FS_CardinalityType DEF Exact
<1>3. IsFiniteSet(Of(txcpl, f)) /\ Cardinality(Of(txcpl, f)) \in Nat
  BY IdTypes, OfFinite
<1>4. QED
  BY <1>1, <1>2, <1>3, Elements

LEMMA SameExact == Exact /\ UNCHANGED << ring, held, txcpl, outstanding_tx >> => Exact'
  BY DEF Exact

(* The ring a creation empties has nothing posted in it.                   *)
LEMMA CreateExact ==
  ASSUME TypeOK, Lifecycle, Quiet, CreatorStep
  PROVE  Exact'
<1> DEFINE f == Head(work_queue)
<1>1. f \in Flows /\ status[f] = "CLOSED"
  <2>1. f \in Flows /\ 1 \in DOMAIN work_queue /\ f = work_queue[1]
    BY Front, Roundtrips DEF CreatorStep, CreateWorker, CreateWorkerFails
  <2>2. QED
    BY <2>1 DEF Lifecycle
<1>2. /\ ring' = [ring EXCEPT ![f] = <<>>] \/ UNCHANGED ring
      /\ ring \in [Flows -> Seq(PktIds)]
      /\ UNCHANGED << held, txcpl, outstanding_tx >>
  BY IdTypes DEF CreatorStep, CreateWorker, CreateWorkerFails, device
<1>3. Len(ring[f]) = 0
  <2>1. outstanding_tx[f] = 0
    BY <1>1 DEF Quiet, Drainable
  <2>2. QED
    BY <1>1, <2>1, CountTypes DEF Quiet, Exact
<1> HIDE DEF f
<1>4. \A g \in Flows : Len(ring'[g]) = Len(ring[g])
  BY <1>1, <1>2, <1>3
<1>5. QED
  BY <1>2, <1>4 DEF Quiet, Exact

LEMMA PostExact ==
  ASSUME TypeOK, Exact, Post
  PROVE  Exact'
<1>1. PICK i \in FreeIds : ring' = [ring EXCEPT ![wflow] = Append(@, i)]
  BY DEF Post
<1>2. wflow \in Flows /\ i \in PktIds
  BY <1>1, QueueTypes DEF Post, FreeIds
<1>3. /\ outstanding_tx' = [outstanding_tx EXCEPT ![wflow] = @ + 1]
      /\ UNCHANGED << held, txcpl >>
  BY DEF Post, CountPost, device
<1>4. ring \in [Flows -> Seq(PktIds)] /\ outstanding_tx \in [Flows -> Int]
  BY <1>2, IdTypes, CountTypes
<1>5. Len(ring'[wflow]) = Len(ring[wflow]) + 1 /\ \A g \in Flows : g # wflow => ring'[g] = ring[g]
  <2>1. ring'[wflow] = Append(ring[wflow], i) /\ \A g \in Flows : g # wflow => ring'[g] = ring[g]
    BY <1>1, <1>2, <1>4
  <2>2. ring[wflow] \in Seq(PktIds)
    BY <1>2, <1>4
  <2>3. QED
    BY <1>2, <2>1, <2>2, Back
<1>6. /\ outstanding_tx'[wflow] = outstanding_tx[wflow] + 1
      /\ \A g \in Flows : g # wflow => outstanding_tx'[g] = outstanding_tx[g]
  BY <1>2, <1>3, <1>4
<1>7. \A g \in Flows : outstanding_tx'[g] = Len(ring'[g]) + Cardinality(held[g]) + Cardinality(Of(txcpl, g))
  <2>1. outstanding_tx'[wflow] = Len(ring'[wflow]) + Cardinality(held[wflow]) + Cardinality(Of(txcpl, wflow))
    BY <1>2, <1>5, <1>6, CountTypes DEF Exact
  <2>2. QED
    BY <1>5, <1>6, <2>1 DEF Exact
<1>8. QED
  BY <1>3, <1>7 DEF Exact

LEMMA TakeExact ==
  ASSUME TypeOK, IdsOnce, Exact, NEW f \in Flows, DevTake(f)
  PROVE  Exact'
<1>1. ring[f] \in Seq(PktIds) /\ ring[f] # << >>
  <2>1. ring[f] \in Seq(PktIds) /\ pub[f] \in Nat /\ pub[f] <= Len(ring[f]) /\ pub[f] > 0
    BY DEF TypeOK, PostsOK, DevTake
  <2>2. QED
    BY <2>1
<1> DEFINE i == Head(ring[f])
<1>2. Len(Tail(ring[f])) = Len(ring[f]) - 1 /\ 1 \in DOMAIN ring[f] /\ i = ring[f][1]
  BY <1>1, Front
<1>3. i \notin held[f]
  BY <1>2 DEF IdsOnce
<1>4. /\ ring'[f] = Tail(ring[f]) /\ held'[f] = held[f] \cup {i}
      /\ \A g \in Flows : g # f => ring'[g] = ring[g] /\ held'[g] = held[g]
      /\ UNCHANGED << outstanding_tx, txcpl >>
  BY IdTypes DEF DevTake
<1> HIDE DEF i
<1>5. IsFiniteSet(held'[f]) /\ Cardinality(held'[f]) = Cardinality(held[f]) + 1
  <2>1. IsFiniteSet(held[f])
    BY CountTypes
  <2>2. IsFiniteSet(held[f] \cup {i}) /\ Cardinality(held[f] \cup {i}) = Cardinality(held[f]) + 1
    BY <1>3, <2>1, FS_AddElement
  <2>3. QED
    BY <1>4, <2>2
<1>6. outstanding_tx[f] = Len(ring'[f]) + Cardinality(held'[f]) + Cardinality(Of(txcpl, f))
  BY <1>2, <1>4, <1>5, CountTypes DEF Exact
<1>7. QED
  BY <1>4, <1>5, <1>6 DEF Exact

LEMMA CompleteExact ==
  ASSUME TypeOK, Exact, NEW f \in Flows, DevComplete(f)
  PROVE  Exact'
<1>1. PICK i \in held[f] : /\ held' = [held EXCEPT ![f] = @ \ {i}]
                           /\ txcpl' = Append(txcpl, [flow |-> f, id |-> i])
  BY DEF DevComplete
<1>2. UNCHANGED << ring, outstanding_tx >>
  BY DEF DevComplete, posts
<1>3. held'[f] = held[f] \ {i} /\ \A g \in Flows : g # f => held'[g] = held[g]
  BY <1>1, IdTypes
<1>4. IsFiniteSet(held'[f]) /\ Cardinality(held'[f]) = Cardinality(held[f]) - 1
  <2>1. IsFiniteSet(held[f])
    BY CountTypes
  <2>2. IsFiniteSet(held[f] \ {i}) /\ Cardinality(held[f] \ {i}) = Cardinality(held[f]) - 1
    BY <1>1, <2>1, FS_RemoveElement
  <2>3. QED
    BY <1>3, <2>2
<1> DEFINE e == [flow |-> f, id |-> i]
<1>5. txcpl \in Seq([flow : Flows, id : PktIds]) /\ e \in [flow : Flows, id : PktIds] /\ e.flow = f
  BY <1>1, IdTypes
<1>6. txcpl' = Append(txcpl, e)
  BY <1>1
<1> HIDE DEF e
<1>7. \A g : Cardinality(Of(txcpl', g)) = Cardinality(Of(txcpl, g)) + IF f = g THEN 1 ELSE 0
  BY <1>5, <1>6, OfAppend
<1>8. ASSUME NEW g \in Flows
      PROVE  /\ IsFiniteSet(held'[g])
             /\ outstanding_tx[g] = Len(ring[g]) + Cardinality(held'[g]) + Cardinality(Of(txcpl', g))
  <2>1. CASE g = f
    BY <1>4, <1>7, <2>1, CountTypes DEF Exact
  <2>2. CASE g # f
    <3>1. Cardinality(Of(txcpl', g)) = Cardinality(Of(txcpl, g))
      BY <1>7, <1>8, <2>2, CountTypes
    <3>2. QED
      BY <1>3, <1>8, <2>2, <3>1 DEF Exact
  <2>3. QED
    BY <2>1, <2>2
<1>9. QED
  BY <1>2, <1>8 DEF Exact

(* The status of a packet is counted once, for a ring that counts it.      *)
LEMMA StatusExact ==
  ASSUME TypeOK, IdsOnce, Exact, ProcessTxstatus
  PROVE  /\ Exact'
         /\ txcpl[1].flow \in Flows /\ outstanding_tx[txcpl[1].flow] > 0
         /\ outstanding_tx' = [outstanding_tx EXCEPT ![txcpl[1].flow] = @ - 1]
<1> DEFINE f == txcpl[1].flow
<1>1. /\ 1 \in DOMAIN txcpl /\ Head(txcpl) = txcpl[1] /\ txcpl' = Tail(txcpl) /\ f \in Flows
      /\ tx_pktids[txcpl[1].id] # NoPkt
  BY Front, IdTypes DEF ProcessTxstatus, IdsOnce
<1>2. outstanding_tx' = [outstanding_tx EXCEPT ![f] = @ - 1] /\ UNCHANGED << ring, held >>
  BY <1>1 DEF ProcessTxstatus
<1>3. txcpl \in Seq([flow : Flows, id : PktIds]) /\ txcpl # << >>
  BY IdTypes DEF ProcessTxstatus
<1>4. txcpl' \in Seq([flow : Flows, id : PktIds])
  BY <1>1, <1>3, Front
<1> HIDE DEF f
<1>5. \A g : Cardinality(Of(txcpl, g)) = Cardinality(Of(txcpl', g)) + IF f = g THEN 1 ELSE 0
  BY <1>1, <1>3, OfTail DEF f
<1>6. \A g : Cardinality(Of(txcpl', g)) \in Nat
  BY <1>4, OfFinite
<1>7. outstanding_tx \in [Flows -> Int]
  BY <1>1, CountTypes
<1>8. outstanding_tx[f] > 0
  <2>1. Cardinality(Of(txcpl, f)) > 0
    BY <1>5, <1>6
  <2>2. Len(ring[f]) \in Nat /\ Cardinality(held[f]) \in Nat /\ Cardinality(Of(txcpl, f)) \in Nat
    BY <1>1, CountTypes
  <2>3. QED
    BY <1>1, <2>1, <2>2 DEF Exact
<1>9. ASSUME NEW g \in Flows
      PROVE  /\ IsFiniteSet(held[g])
             /\ outstanding_tx'[g] = Len(ring[g]) + Cardinality(held[g]) + Cardinality(Of(txcpl', g))
  <2>1. CASE g = f
    <3>1. outstanding_tx'[g] = outstanding_tx[g] - 1
      BY <1>1, <1>2, <1>7, <2>1
    <3>2. Cardinality(Of(txcpl, g)) = Cardinality(Of(txcpl', g)) + 1
      BY <1>5, <2>1
    <3>3. /\ Len(ring[g]) \in Nat /\ Cardinality(held[g]) \in Nat
          /\ Cardinality(Of(txcpl, g)) \in Nat /\ Cardinality(Of(txcpl', g)) \in Nat
      BY <1>6, <1>9, CountTypes
    <3>4. /\ IsFiniteSet(held[g])
          /\ outstanding_tx[g] = Len(ring[g]) + Cardinality(held[g]) + Cardinality(Of(txcpl, g))
      BY <1>9 DEF Exact
    <3>5. QED
      BY <3>1, <3>2, <3>3, <3>4
  <2>2. CASE g # f
    <3>1. outstanding_tx'[g] = outstanding_tx[g]
      BY <1>1, <1>2, <1>7, <1>9, <2>2
    <3>2. Cardinality(Of(txcpl, g)) = Cardinality(Of(txcpl', g))
      BY <1>5, <1>6, <2>2
    <3>3. QED
      BY <1>9, <3>1, <3>2 DEF Exact
  <2>3. QED
    BY <2>1, <2>2
<1>10. Exact'
  BY <1>2, <1>9 DEF Exact
<1>11. QED
  BY <1>1, <1>2, <1>8, <1>10 DEF f

LEMMA SameDrainable ==
  Drainable /\ UNCHANGED << status, buf, outstanding_tx, dpc, dflow >> => Drainable'
  BY DEF Drainable

LEMMA RemovalDrainable ==
  ASSUME TypeOK, Drainable, NEW f \in Flows, outstanding_tx[f] = 0,
         status' = [status EXCEPT ![f] = "NULL"], \A g \in Flows : g # f => buf'[g] = buf[g],
         UNCHANGED << outstanding_tx, dflow >>, dpc' = dpc \/ dflow = f
  PROVE  Drainable'
<1>1. status'[f] = "NULL" /\ \A g \in Flows : g # f => status'[g] = status[g]
  BY Roundtrips
<1>2. ASSUME NEW g \in Flows
      PROVE  /\ status'[g] \in {"NULL", "CLOSED"} => outstanding_tx[g] = 0
             /\ status'[g] = "CLOSING" => buf'[g] /\ (outstanding_tx[g] = 0 \/ (dpc' = "wait" /\ dflow = g))
  <2>1. CASE g = f
    BY <1>1, <2>1
  <2>2. CASE g # f
    BY <1>1, <1>2, <2>2 DEF Drainable
  <2>3. QED
    BY <2>1, <2>2
<1>3. QED
  BY <1>2 DEF Drainable

LEMMA SenderQuiet ==
  ASSUME TypeOK, Quiet, SenderStep
  PROVE  Quiet'
<1> USE DEF posts, deleter, device
<1>1. Exact'
  BY SameExact DEF Quiet, SenderStep, FlowringCreate, Enqueue, EnqueueNew, MarkFlow, QueueWork
<1>2. ASSUME NEW f \in Flows, FlowringCreate(f) PROVE Drainable'
  <2>1. /\ status[f] = "NULL" /\ status' = [status EXCEPT ![f] = "CLOSED"]
        /\ UNCHANGED << buf, outstanding_tx, dpc, dflow >>
    BY <1>2 DEF FlowringCreate
  <2>2. QED
    BY <2>1, Roundtrips DEF Quiet, Drainable
<1>3. CASE \E f \in Flows : Enqueue(f)
  BY <1>1, <1>3, SameDrainable DEF Quiet, Enqueue
<1>4. CASE EnqueueNew \/ MarkFlow \/ QueueWork
  BY <1>1, <1>4, SameDrainable DEF Quiet, EnqueueNew, MarkFlow, QueueWork, rings
<1>5. QED
  BY <1>1, <1>2, <1>3, <1>4 DEF SenderStep, Quiet

LEMMA WorkerQuiet ==
  ASSUME TypeOK, Lifecycle, Quiet, WorkerStep
  PROVE  Quiet'
<1> USE DEF posts, deleter, device
<1>1. CASE Post
  <2>1. Exact'
    BY <1>1, PostExact DEF Quiet
  <2>2. wflow \in Flows /\ status[wflow] = "OPEN"
    BY <1>1, Roundtrips DEF Post, Lifecycle
  <2>3. /\ outstanding_tx' = [outstanding_tx EXCEPT ![wflow] = @ + 1] /\ outstanding_tx \in [Flows -> Int]
        /\ UNCHANGED << status, buf, dpc, dflow >>
    BY <1>1, <2>2, CountTypes DEF Post, CountPost, rings, Quiet
  <2>4. \A g \in Flows : g # wflow => outstanding_tx'[g] = outstanding_tx[g]
    BY <2>2, <2>3
  <2>5. QED
    BY <2>1, <2>2, <2>3, <2>4 DEF Quiet, Drainable
<1>2. CASE StartWork \/ Scan
  BY <1>2, SameExact, SameDrainable DEF StartWork, Scan, rings, Quiet
<1>3. CASE Dequeue
  BY <1>3, SameExact, SameDrainable DEF Dequeue, Quiet
<1>4. CASE NothingQueued \/ PutBack
  BY <1>4, SameExact, SameDrainable DEF NothingQueued, PutBack, rings, Quiet
<1>5. QED
  BY <1>1, <1>2, <1>3, <1>4 DEF WorkerStep

LEMMA CreatorQuiet ==
  ASSUME TypeOK, Lifecycle, Quiet, CreatorStep, ~leftover'
  PROVE  Quiet'
<1> DEFINE f == Head(work_queue)
<1>1. f \in Flows /\ status[f] = "CLOSED" /\ outstanding_tx[f] = 0
  <2>1. f \in Flows /\ 1 \in DOMAIN work_queue /\ f = work_queue[1]
    BY Front, Roundtrips DEF CreatorStep, CreateWorker, CreateWorkerFails
  <2>2. status[f] = "CLOSED"
    BY <2>1 DEF Lifecycle
  <2>3. QED
    BY <2>1, <2>2 DEF Quiet, Drainable
<1>2. CASE CreateWorker
  <2>1. /\ buf' = [buf EXCEPT ![f] = TRUE] /\ UNCHANGED << status, outstanding_tx, dpc, dflow >>
    BY <1>2 DEF CreateWorker, Submit, deleter
  <2>2. \A g \in Flows : buf[g] => buf'[g]
    BY <1>1, <2>1, Roundtrips
  <2> HIDE DEF f
  <2>3. Drainable'
    BY <2>1, <2>2 DEF Quiet, Drainable
  <2>4. QED
    BY <2>3, CreateExact DEF Quiet
<1>3. CASE CreateWorkerFails
  <2>1. /\ status' = [status EXCEPT ![f] = "NULL"] /\ buf' = [buf EXCEPT ![f] = FALSE]
        /\ UNCHANGED << outstanding_tx, dpc, dflow >>
    BY <1>3 DEF CreateWorkerFails, RemoveFlowring, FlowringDelete, posts, deleter, device
  <2>2. \A g \in Flows : g # f => buf'[g] = buf[g]
    BY <2>1, Roundtrips
  <2> HIDE DEF f
  <2>3. QED
    BY <1>1, <2>1, <2>2, RemovalDrainable, CreateExact DEF Quiet
<1>4. QED
  BY <1>2, <1>3 DEF CreatorStep

(* A ring is removed by the deleting thread when its count has come to     *)
(* zero.                                                                   *)
LEMMA DeleterQuiet ==
  ASSUME TypeOK, Lifecycle, Quiet, DeleterStep, ~TimesOut, ~leftover'
  PROVE  Quiet'
<1> USE DEF rings, posts, device
<1>0. dflow \in Flows /\ (dpc # "idle" => status[dflow] = "CLOSING")
  BY Roundtrips DEF Lifecycle
<1>1. Exact'
  BY SameExact DEF Quiet, DeleterStep, Closing, WaitOutstanding, WaitTimesOut, CheckBus, WriteDelete, RemoveAtOnce
<1>2. ASSUME NEW f \in Flows, Closing(f) PROVE Drainable'
  <2>1. /\ dpc = "idle" /\ status[f] = "OPEN" /\ buf[f]
        /\ status' = [status EXCEPT ![f] = "CLOSING"] /\ dpc' = "wait" /\ dflow' = f
        /\ UNCHANGED << buf, outstanding_tx >>
    BY <1>2 DEF Closing, Lifecycle
  <2>2. QED
    BY <2>1, Roundtrips DEF Quiet, Drainable
<1>3. CASE WaitOutstanding
  <2>1. /\ dpc' = "submit" /\ outstanding_tx[dflow] = 0
        /\ UNCHANGED << status, buf, outstanding_tx, dflow >>
    BY <1>3 DEF WaitOutstanding, Drained
  <2>2. QED
    BY <1>1, <2>1 DEF Quiet, Drainable
<1>4. CASE CheckBus \/ (WriteDelete /\ up)
  <2>1. dpc # "wait" /\ UNCHANGED << status, buf, outstanding_tx, dflow >>
    BY <1>4 DEF CheckBus, WriteDelete
  <2>2. QED
    BY <1>1, <2>1 DEF Quiet, Drainable
<1>5. CASE RemoveAtOnce
  <2>1. /\ dpc # "idle" /\ dpc # "wait" /\ UNCHANGED << outstanding_tx, dflow >>
        /\ status' = [status EXCEPT ![dflow] = "NULL"] /\ buf' = [buf EXCEPT ![dflow] = FALSE]
    BY <1>5 DEF RemoveAtOnce, RemoveFlowring, FlowringDelete
  <2>2. outstanding_tx[dflow] = 0
    BY <1>0, <2>1 DEF Quiet, Drainable
  <2>3. \A g \in Flows : g # dflow => buf'[g] = buf[g]
    BY <2>1, Roundtrips
  <2>4. QED
    BY <1>1, <1>0, <2>1, <2>2, <2>3, RemovalDrainable DEF Quiet
<1>6. ~WaitTimesOut /\ (WriteDelete => up)
  BY DEF WaitTimesOut, WriteDelete, Submit
<1>7. QED
  BY <1>1, <1>2, <1>3, <1>4, <1>5, <1>6 DEF DeleterStep, Quiet

LEMMA DeviceQuiet ==
  ASSUME TypeOK, IdsOnce, Quiet, DeviceStep
  PROVE  Quiet'
<1>1. Drainable'
  BY SameDrainable DEF Quiet, DeviceStep, DevControl, DevTake, DevComplete, rings, posts, deleter
<1>2. CASE DevControl
  BY <1>1, <1>2, SameExact DEF DevControl, posts, Quiet
<1>3. QED
  BY <1>1, <1>2, TakeExact, CompleteExact DEF DeviceStep, Quiet

LEMMA IsrQuiet ==
  ASSUME TypeOK, Lifecycle, IdsOnce, Quiet, IsrStep
  PROVE  Quiet'
<1> USE DEF rings, posts, deleter, device
<1>1. CASE ProcessTxstatus
  <2> DEFINE f == txcpl[1].flow
  <2>1. /\ Exact' /\ f \in Flows /\ outstanding_tx[f] > 0
        /\ outstanding_tx' = [outstanding_tx EXCEPT ![f] = @ - 1]
    BY <1>1, StatusExact DEF Quiet
  <2>2. outstanding_tx \in [Flows -> Int] /\ UNCHANGED << status, buf, dpc, dflow >>
    BY <1>1, <2>1, CountTypes DEF ProcessTxstatus, Quiet
  <2>3. \A g \in Flows : g # f => outstanding_tx'[g] = outstanding_tx[g]
    BY <2>1, <2>2
  <2> HIDE DEF f
  <2>4. /\ status[f] \notin {"NULL", "CLOSED"}
        /\ status[f] = "CLOSING" => buf[f] /\ dpc = "wait" /\ dflow = f
    BY <2>1, <2>2 DEF Quiet, Drainable
  <2>5. Drainable'
    BY <2>1, <2>2, <2>3, <2>4 DEF Quiet, Drainable
  <2>6. QED
    BY <2>1, <2>5 DEF Quiet
<1>2. CASE CreateResponse
  <2> DEFINE f == ctlcpl[1].flow
  <2>1. ctlcpl # << >> /\ Head(ctlcpl) = ctlcpl[1] /\ ctlcpl[1].kind = "create"
    BY <1>2, AnsweredRing DEF CreateResponse
  <2>2. f \in Flows /\ status[f] = "CLOSED" /\ outstanding_tx[f] = 0
    BY <2>1, AnsweredRing DEF Due, Quiet, Drainable
  <2>3. UNCHANGED << ring, held, txcpl, outstanding_tx, dpc, dflow >>
    BY <1>2 DEF CreateResponse
  <2>4. CASE status' = [status EXCEPT ![f] = "OPEN"] /\ UNCHANGED buf
    <3>1. Drainable'
      BY <2>2, <2>3, <2>4, Roundtrips DEF Quiet, Drainable
    <3>2. QED
      BY <2>3, <3>1, SameExact DEF Quiet
  <2>5. CASE status' = [status EXCEPT ![f] = "NULL"] /\ buf' = [buf EXCEPT ![f] = FALSE]
    <3>1. \A g \in Flows : g # f => buf'[g] = buf[g]
      BY <2>5, Roundtrips
    <3>2. QED
      BY <2>2, <2>3, <2>5, <3>1, RemovalDrainable, SameExact DEF Quiet
  <2>6. QED
    BY <1>2, <2>1, <2>2, <2>4, <2>5 DEF CreateResponse, RemoveFlowring, FlowringDelete
<1>3. CASE DeleteResponse
  <2> DEFINE f == ctlcpl[1].flow
  <2>1. ctlcpl # << >> /\ Head(ctlcpl) = ctlcpl[1] /\ ctlcpl[1].kind = "delete"
    BY <1>3, AnsweredRing DEF DeleteResponse
  <2>2. f \in Flows /\ status[f] = "CLOSING" /\ (dpc # "idle" => dflow # f)
    BY <2>1, AnsweredRing DEF Due
  <2>3. outstanding_tx[f] = 0
    BY <2>2 DEF Quiet, Drainable
  <2>4. /\ status' = [status EXCEPT ![f] = "NULL"] /\ \A g \in Flows : g # f => buf'[g] = buf[g]
        /\ UNCHANGED << ring, held, txcpl, outstanding_tx, dpc, dflow >>
    BY <1>3, <2>1, Roundtrips DEF DeleteResponse, FlowringDelete
  <2> HIDE DEF f
  <2>5. QED
    BY <2>2, <2>3, <2>4, RemovalDrainable, SameExact DEF Quiet
<1>4. CASE StartIsr \/ TxDone \/ ControlDone \/ Trigger
  BY <1>4, SameExact, SameDrainable DEF StartIsr, TxDone, ControlDone, Trigger, Quiet
<1>5. QED
  BY <1>1, <1>2, <1>3, <1>4 DEF IsrStep

(* Until a request is left over, no step miscounts a posted packet or      *)
(* takes a ring on which some are outstanding.                             *)
THEOREM StepQuiet ==
  ASSUME TypeOK, ~leftover => Lifecycle, IdsOnce, ~leftover => Quiet, ~TimesOut, [Next]_vars
  PROVE  ~leftover' => Quiet'
<1> SUFFICES ASSUME ~leftover' PROVE Quiet'
  OBVIOUS
<1>1. Lifecycle /\ Quiet
  BY LeftoverStays
<1>2. CASE CreatorStep
  BY <1>1, <1>2, CreatorQuiet
<1>3. CASE DeleterStep
  BY <1>1, <1>3, DeleterQuiet
<1>4. CASE BusDownUp \/ UNCHANGED vars
  BY <1>1, <1>4, SameExact, SameDrainable DEF BusDownUp, vars, rings, posts, deleter, device, Quiet
<1>5. QED
  BY <1>1, <1>2, <1>3, <1>4, SenderQuiet, WorkerQuiet, DeviceQuiet, IsrQuiet DEF Next

LEMMA InitQuiet == Init => Quiet
<1> SUFFICES ASSUME Init PROVE Quiet
  OBVIOUS
<1>1. \A f \in Flows : ring[f] = <<>> /\ held[f] = {} /\ outstanding_tx[f] = 0 /\ status[f] = "NULL"
  BY DEF Init
<1>2. \A f : Of(txcpl, f) = {}
  BY DEF Init, Of
<1>3. Len(<<>>) = 0 /\ IsFiniteSet({}) /\ Cardinality({}) = 0
  BY FS_EmptySet
<1>4. ASSUME NEW f \in Flows
      PROVE  /\ IsFiniteSet(held[f])
             /\ outstanding_tx[f] = Len(ring[f]) + Cardinality(held[f]) + Cardinality(Of(txcpl, f))
  <2>1. Len(ring[f]) = 0 /\ Cardinality(held[f]) = 0 /\ Cardinality(Of(txcpl, f)) = 0 /\ IsFiniteSet(held[f])
    BY <1>1, <1>2, <1>3, <1>4
  <2>2. outstanding_tx[f] = 0
    BY <1>1, <1>4
  <2>3. QED
    BY <2>1, <2>2
<1>5. Drainable
  BY <1>1 DEF Drainable
<1>6. QED
  BY <1>4, <1>5 DEF Quiet, Exact

(* If deletion never gives up waiting, the count of each ring is right and *)
(* rings go in peace, until a request is left over.                        *)
THEOREM QuietKept == ~TimesOut => (Spec => [](~leftover => Quiet))
<1> SUFFICES ASSUME ~TimesOut PROVE Spec => [](~leftover => Quiet)
  OBVIOUS
<1>1. Init => IInv /\ (~leftover => Quiet)
  BY InitInv, InitQuiet
<1>2. IInv /\ (~leftover => Quiet) /\ [Next]_vars => IInv' /\ (~leftover => Quiet)'
  BY StepInv, StepQuiet DEF IInv
<1>3. QED
  BY <1>1, <1>2, PTL DEF Spec

LEMMA QuietMeansExact == Quiet => OutstandingExact
  BY DEF Quiet, Exact, OutstandingExact, Of

LEMMA QuietMeansQuiet ==
  ASSUME TypeOK, Lifecycle, Quiet
  PROVE  QuietRemoval
<1> SUFFICES ASSUME NEW f \in Flows, ~buf[f]
             PROVE  /\ ring[f] = <<>> /\ held[f] = {}
                    /\ \A k \in DOMAIN txcpl : txcpl[k].flow # f
  BY DEF QuietRemoval
<1>1. outstanding_tx[f] = 0
  <2>1. status[f] \in {"NULL", "CLOSED"}
    BY Roundtrips DEF Lifecycle, Quiet, Drainable
  <2>2. QED
    BY <2>1 DEF Quiet, Drainable
<1>2. /\ ring[f] \in Seq(PktIds) /\ Len(ring[f]) \in Nat
      /\ IsFiniteSet(held[f]) /\ Cardinality(held[f]) \in Nat
      /\ IsFiniteSet(Of(txcpl, f)) /\ Cardinality(Of(txcpl, f)) \in Nat
  BY CountTypes DEF Quiet
<1>3. Len(ring[f]) = 0 /\ Cardinality(held[f]) = 0 /\ Cardinality(Of(txcpl, f)) = 0
  BY <1>1, <1>2 DEF Quiet, Exact
<1>4. ring[f] = <<>> /\ held[f] = {} /\ Of(txcpl, f) = {}
  BY <1>2, <1>3, FS_EmptySet
<1>5. QED
  BY <1>4 DEF Of

(* outstanding_tx, which brcmf_msgbuf_delete_flowring polls, counts the    *)
(* posted packets whose status brcmf_msgbuf_process_txstatus has not seen, *)
(* if the poll never gives up, until a request is left over in the control *)
(* ring, and whatever the device refuses.                                  *)
THEOREM OutstandingCounts == ~TimesOut => (Spec => [](~leftover => OutstandingExact))
<1> SUFFICES ASSUME ~TimesOut PROVE Spec => [](~leftover => OutstandingExact)
  OBVIOUS
<1>1. Spec => [](~leftover => Quiet)
  BY QuietKept
<1>2. QED
  BY <1>1, QuietMeansExact, PTL

(* A flow ring whose DMA buffer is given back has nothing in it, nothing   *)
(* with the device and no status on its way, if the poll never gives up,   *)
(* until a request is left over.                                           *)
THEOREM RemovedInPeace == ~TimesOut => (Spec => [](~leftover => QuietRemoval))
<1> SUFFICES ASSUME ~TimesOut PROVE Spec => [](~leftover => QuietRemoval)
  OBVIOUS
<1>1. Spec => [](~leftover => Quiet)
  BY QuietKept
<1>2. IInv /\ (~leftover => Quiet) => (~leftover => QuietRemoval)
  BY QuietMeansQuiet DEF IInv
<1>3. QED
  BY <1>1, <1>2, Safety, PTL

-----------------------------------------------------------------------------
(* The bus that never goes down.                                           *)

LEMMA SubmitUp ==
  ASSUME up, ~leftover, UNCHANGED up, UNCHANGED leftover \/ \E m : Submit(m)
  PROVE  up' /\ ~leftover'
<1>1. up'
  OBVIOUS
<1>2. ~leftover'
  BY DEF Submit
<1>3. QED
  BY <1>1, <1>2

(* Nothing is left over while the bus stays up.                            *)
LEMMA BusStaysUp == ~Suspends => (Spec => [](up /\ ~leftover))
<1> SUFFICES ASSUME ~Suspends PROVE Spec => [](up /\ ~leftover)
  OBVIOUS
<1>1. Init => up /\ ~leftover
  BY DEF Init
<1>2. ASSUME Next PROVE UNCHANGED up /\ (UNCHANGED leftover \/ \E m : Submit(m))
  <2> USE DEF control
  <2>1. CASE SenderStep
    BY <2>1 DEF SenderStep, FlowringCreate, Enqueue, EnqueueNew, MarkFlow, QueueWork
  <2>2. CASE WorkerStep
    BY <2>2 DEF WorkerStep, StartWork, Scan, Dequeue, NothingQueued, Post, PutBack
  <2>3. CASE CreatorStep
    BY <2>3 DEF CreatorStep, CreateWorker, CreateWorkerFails
  <2>4. CASE DeleterStep
    BY <2>4 DEF DeleterStep, Closing, WaitOutstanding, WaitTimesOut, CheckBus, WriteDelete, RemoveAtOnce
  <2>5. CASE DeviceStep
    BY <2>5 DEF DeviceStep, DevControl, DevTake, DevComplete
  <2>6. CASE IsrStep
    BY <2>6 DEF IsrStep, StartIsr, ProcessTxstatus, TxDone, CreateResponse, DeleteResponse, ControlDone, Trigger
  <2>7. ~BusDownUp
    BY DEF BusDownUp
  <2>8. QED
    BY <1>2, <2>1, <2>2, <2>3, <2>4, <2>5, <2>6, <2>7 DEF Next
<1>3. UNCHANGED vars /\ up /\ ~leftover => (up /\ ~leftover)'
  BY DEF vars, control
<1>4. (up /\ ~leftover) /\ [Next]_vars => (up /\ ~leftover)'
  BY <1>2, <1>3, SubmitUp
<1>5. QED
  BY <1>1, <1>4, PTL DEF Spec

(* A ring the device was told to delete is not open there, so its buffer   *)
(* can go when the answer comes.                                           *)
Backed ==
  /\ \A k \in DOMAIN ctlcpl : ctlcpl[k].ok /\ (ctlcpl[k].kind = "delete" => ctlcpl[k].flow \notin devopen)
  /\ \A f \in devopen : f \in Flows /\ buf[f]

LEMMA SameBacked == Backed /\ UNCHANGED << ctlcpl, devopen, buf >> => Backed'
  BY DEF Backed

LEMMA DevControlBacked ==
  ASSUME TypeOK, Lifecycle, Backed, ~Refuses, DevControl
  PROVE  Backed'
<1> DEFINE f == ctl[1].flow
           e == [kind |-> ctl[1].kind, flow |-> f, ok |-> TRUE]
<1>1. /\ ctl \in Seq(Requests) /\ ctl # << >> /\ 1 \in DOMAIN ctl /\ Head(ctl) = ctl[1]
      /\ f \in Flows /\ ctl[1].kind \in {"create", "delete"}
  <2>1. ctl \in Seq(Requests) /\ ctlpub \in 0 .. Len(ctl) /\ ctlpub > 0
    BY DEF TypeOK, ControlOK, DevControl
  <2>2. ctl # << >>
    BY <2>1
  <2>3. QED
    BY <2>1, <2>2, Front, Roundtrips
<1>2. /\ ctlcpl' = Append(ctlcpl, e) /\ UNCHANGED buf
      /\ devopen' = IF ctl[1].kind = "create" THEN devopen \cup {f} ELSE devopen \ {f}
  BY <1>1 DEF DevControl, Answers, rings
<1>3. ctlcpl \in Seq(Responses) /\ e \in Responses
  BY <1>1, Roundtrips DEF Responses
<1>4. \A k \in DOMAIN ctlcpl : ctlcpl[k].flow # f
  BY <1>1 DEF Lifecycle, Ring
<1>5. ctl[1].kind = "create" => buf[f]
  BY <1>1 DEF Lifecycle, Due
<1>6. \A k \in DOMAIN ctlcpl' : (k \in DOMAIN ctlcpl /\ ctlcpl'[k] = ctlcpl[k]) \/ ctlcpl'[k] = e
  BY <1>2, <1>3, Back
<1>7. e.ok /\ e.flow = f /\ e.kind = ctl[1].kind
  OBVIOUS
<1> HIDE DEF e, f
<1>8. \A k \in DOMAIN ctlcpl' : ctlcpl'[k].ok /\ (ctlcpl'[k].kind = "delete" => ctlcpl'[k].flow \notin devopen')
  BY <1>2, <1>4, <1>6, <1>7 DEF Backed
<1>9. \A g \in devopen' : g \in Flows /\ buf'[g]
  BY <1>1, <1>2, <1>5 DEF Backed, f
<1>10. QED
  BY <1>8, <1>9 DEF Backed

LEMMA ResponseBacked ==
  ASSUME TypeOK, Lifecycle, Backed, CreateResponse \/ DeleteResponse
  PROVE  Backed'
<1> DEFINE f == ctlcpl[1].flow
<1>1. /\ ctlcpl # << >> /\ ctlcpl' = Tail(ctlcpl) /\ 1 \in DOMAIN ctlcpl /\ Head(ctlcpl) = ctlcpl[1] /\ f \in Flows
      /\ \A k \in DOMAIN ctlcpl' : k + 1 \in DOMAIN ctlcpl /\ ctlcpl'[k] = ctlcpl[k + 1]
      /\ UNCHANGED devopen
  BY AnsweredRing DEF CreateResponse, DeleteResponse
<1>2. \A g \in devopen : buf'[g]
  <2>1. CASE CreateResponse
    BY <1>1, <2>1 DEF CreateResponse, Backed
  <2>2. CASE DeleteResponse
    <3>1. f \notin devopen
      BY <1>1, <2>2 DEF DeleteResponse, Backed
    <3>2. \A g \in Flows : g # f => buf'[g] = buf[g]
      BY <1>1, <2>2, Roundtrips DEF DeleteResponse
    <3>3. QED
      BY <3>1, <3>2 DEF Backed
  <2>3. QED
    BY <2>1, <2>2
<1>3. QED
  BY <1>1, <1>2 DEF Backed

LEMMA StepBacked ==
  ASSUME TypeOK, Lifecycle, Backed, ~Refuses, up, ~leftover', [Next]_vars
  PROVE  Backed'
<1> USE DEF device, rings
<1>1. CASE SenderStep
  BY <1>1, SameBacked DEF SenderStep, FlowringCreate, Enqueue, EnqueueNew, MarkFlow, QueueWork
<1>2. CASE WorkerStep
  BY <1>2, SameBacked DEF WorkerStep, StartWork, Scan, Dequeue, NothingQueued, Post, PutBack
<1>3. CASE CreatorStep
  <2>1. buf' = [buf EXCEPT ![Head(work_queue)] = TRUE] /\ UNCHANGED << ctlcpl, devopen >>
    BY <1>3 DEF CreatorStep, CreateWorker, CreateWorkerFails
  <2>2. \A g \in Flows : buf[g] => buf'[g]
    BY <2>1, Roundtrips
  <2>3. QED
    BY <2>1, <2>2 DEF Backed
<1>4. CASE DeleterStep
  BY <1>4, SameBacked DEF DeleterStep, Closing, WaitOutstanding, WaitTimesOut, CheckBus, WriteDelete, RemoveAtOnce
<1>5. CASE DeviceStep
  BY <1>5, SameBacked, DevControlBacked DEF DeviceStep, DevTake, DevComplete
<1>6. CASE IsrStep
  BY <1>6, SameBacked, ResponseBacked DEF IsrStep, StartIsr, ProcessTxstatus, TxDone, ControlDone, Trigger
<1>7. CASE BusDownUp \/ UNCHANGED vars
  BY <1>7, SameBacked DEF BusDownUp, vars
<1>8. QED
  BY <1>1, <1>2, <1>3, <1>4, <1>5, <1>6, <1>7 DEF Next

(* The device is not asked to open, and never has open, a flow ring whose  *)
(* DMA buffer was given back, if it refuses nothing and the bus stays up;  *)
(* it does not matter whether deletion gives up waiting for packets.       *)
THEOREM DeviceBacked == ~Refuses /\ ~Suspends => (Spec => []DeviceRingsBacked)
<1> SUFFICES ASSUME ~Refuses, ~Suspends PROVE Spec => []DeviceRingsBacked
  OBVIOUS
<1>1. Init => Backed
  BY DEF Init, Backed
<1>2. IInv /\ IInv' /\ up /\ ~leftover /\ (up /\ ~leftover)' /\ Backed /\ [Next]_vars => Backed'
  BY StepBacked DEF IInv
<1>3. IInv /\ up /\ ~leftover /\ Backed => DeviceRingsBacked
  BY DEF IInv, Lifecycle, Due, Backed, DeviceRingsBacked
<1>4. Spec => [](up /\ ~leftover)
  BY BusStaysUp
<1>5. QED
  BY <1>1, <1>2, <1>3, <1>4, Safety, PTL DEF Spec
=============================================================================
