------------------------------ MODULE MsgbufTx ------------------------------
(***************************************************************************)
(* The transmit path of msgbuf.c: a packet goes from the stack to the      *)
(* queue of its flow ring, is posted with a packet id by the TX worker,    *)
(* and is finalised when the device reports its status, while flow rings   *)
(* are created and deleted by requests the device answers.                 *)
(*                                                                         *)
(* Five threads take part: the sender (one, the stack serialises an        *)
(* interface's transmissions), the TX worker, the worker that asks for     *)
(* flow rings, the interrupt thread, and the thread that deletes a ring.   *)
(* A flow is identified with its ring, the hash that finds it being        *)
(* FlowHash; a packet is a number, in the order of acceptance; H2D rings   *)
(* are FIFOs with a published prefix, which CommonRing justifies.          *)
(***************************************************************************)
EXTENDS Integers, Sequences, FiniteSets, Functions

CONSTANTS NFlows,    \* flow rings, numbered from 0
          NPackets,  \* bound on the packets sent
          PktIds,    \* packet ids
          NoPkt,     \* no packet
          Slots,     \* messages a flow ring holds
          Trickle,   \* BRCMF_MSGBUF_TRICKLE_TXWORKER_THRS
          Delay,     \* BRCMF_MSGBUF_DELAY_TXWORKER_THRS
          Flush1, Flush2, \* BRCMF_MSGBUF_TX_FLUSH_CNT1 and CNT2
          Outruns,   \* a create response may overtake the sender's first enqueue
          Refuses,   \* the device may refuse a request, the host lack memory
          TimesOut,  \* deletion may give up waiting for outstanding packets
          Suspends   \* the bus may go down and up

Flows == 0 .. NFlows - 1
Packets == 1 .. NPackets

ASSUME SizeAssumption == NFlows \in Nat \ {0} /\ NPackets \in Nat /\ Slots \in Nat \ {0}
ASSUME ThresholdAssumption ==
  /\ Trickle \in Nat \ {0} /\ Delay \in Nat /\ Trickle <= Delay
  /\ Flush1 \in Nat \ {0} /\ Flush2 \in Nat /\ Flush1 < Flush2
ASSUME NoPktAssumption == NoPkt \notin Packets
ASSUME SwitchAssumption == {Outruns, Refuses, TimesOut, Suspends} \subseteq BOOLEAN

VARIABLES
  up,           \* the bus is up
  status,       \* of each flow ring; "NULL" when there is none
  queue,        \* each ring's skblist
  work_queue,   \* creations the flowring worker is to ask for
  spc, sflow, sent,  \* the sender: its place, its flow, packets accepted
  flow_map, txflow_work,  \* rings to look at, and whether the TX worker is queued
  wpc, wflow, hand, count, \* the TX worker: place, ring, packet in hand, unflushed
  ring, pub,    \* packet ids written to each flow ring, and how many are published
  tx_pktids,    \* the packet each id stands for
  outstanding_tx, \* of each ring
  buf,          \* the ring's DMA buffer is allocated
  dpc, dflow,   \* the deleting thread
  ctl, ctlpub,  \* control requests written, and how many are published
  leftover,     \* a request whose writer was told it failed stays in the control ring
  devopen, held,     \* the device: open rings, and ids it has taken from each
  txcpl, ctlcpl,     \* completions on their way to the host
  ipc, ipos, txstatus_done_map, \* the interrupt thread
  fin           \* how often each packet was finalised

rings == << status, queue, buf >>
sender == << spc, sflow, sent >>
worker == << wpc, wflow, hand, count >>
sched == << flow_map, txflow_work >>
posts == << ring, pub, tx_pktids, outstanding_tx >>
deleter == << dpc, dflow >>
control == << ctl, ctlpub, leftover >>
device == << devopen, held, txcpl, ctlcpl >>
isr == << ipc, ipos, txstatus_done_map >>
vars == << up, rings, work_queue, sender, sched, worker, posts, deleter, control,
           device, isr, fin >>

(* The worker holds the lock of the ring it works on.  (Operators named    *)
(* X_Y are faulty variants of X that the properties are tried against; no  *)
(* action uses them.)                                                      *)
Locked_Never(f) == FALSE
Locked(f) == wpc \in {"loop", "post"} /\ wflow = f

(* A sender about to enqueue would touch freed memory; the model does not  *)
(* take a ring away under it.  Nor under a worker with a packet in hand,   *)
(* which WorkerOnOpenRing shows to need a leftover request.                *)
InUse(f) == (spc = "new" /\ sflow = f) \/ (leftover /\ wpc = "post" /\ wflow = f)

Init ==
  /\ up = TRUE
  /\ status = [f \in Flows |-> "NULL"]
  /\ queue = [f \in Flows |-> <<>>]
  /\ work_queue = <<>>
  /\ spc = "idle" /\ sflow = 0 /\ sent = 0
  /\ flow_map = {} /\ txflow_work = FALSE
  /\ wpc = "idle" /\ wflow = 0 /\ hand = NoPkt /\ count = 0
  /\ ring = [f \in Flows |-> <<>>] /\ pub = [f \in Flows |-> 0]
  /\ tx_pktids = [i \in PktIds |-> NoPkt]
  /\ outstanding_tx = [f \in Flows |-> 0]
  /\ buf = [f \in Flows |-> FALSE]
  /\ dpc = "idle" /\ dflow = 0
  /\ ctl = <<>> /\ ctlpub = 0 /\ leftover = FALSE
  /\ devopen = {} /\ held = [f \in Flows |-> {}]
  /\ txcpl = <<>> /\ ctlcpl = <<>>
  /\ ipc = "idle" /\ ipos = 0 /\ txstatus_done_map = {}
  /\ fin = [p \in Packets |-> 0]

-----------------------------------------------------------------------------

Dropped_Forgotten(f) == {}
Dropped(f) == IF status[f] = "NULL" THEN {} ELSE Range(queue[f])

(* brcmf_flowring_delete: the ring goes, its packets are finalised.        *)
FlowringDelete(f) ==
  /\ status' = [status EXCEPT ![f] = "NULL"]
  /\ queue' = [queue EXCEPT ![f] = <<>>]
  /\ fin' = [p \in Packets |-> fin[p] + IF p \in Dropped(f) THEN 1 ELSE 0]

(* brcmf_msgbuf_remove_flowring: the DMA buffer goes first.                *)
RemoveFlowring(f) ==
  /\ buf' = [buf EXCEPT ![f] = FALSE]
  /\ FlowringDelete(f)

(* A control request is written; with the bus down it stays unpublished    *)
(* and the writer is told it failed; the next request publishes it.        *)
Submit(request) ==
  /\ ctl' = Append(ctl, request)
  /\ leftover' = (leftover \/ ~up)
  /\ ctlpub' = IF up THEN Len(ctl) + 1 ELSE ctlpub

(* brcmf_msgbuf_schedule_txdata with force.                                *)
ScheduleTx(f) ==
  /\ flow_map' = flow_map \cup {f}
  /\ txflow_work' = TRUE

(* brcmf_commonring_write_complete on a flow ring.                         *)
WriteComplete(f) ==
  pub' = IF up THEN [pub EXCEPT ![f] = Len(ring[f])] ELSE pub

-----------------------------------------------------------------------------
(* The sender: brcmf_msgbuf_tx_queue_data.                                 *)

(* No ring: brcmf_msgbuf_flowring_create ...                               *)
FlowringCreate(f) ==
  /\ spc = "idle" /\ sent < NPackets
  /\ status[f] = "NULL"
  /\ status' = [status EXCEPT ![f] = "CLOSED"]
  /\ work_queue' = Append(work_queue, f)
  /\ spc' = "new" /\ sflow' = f
  /\ UNCHANGED << up, queue, buf, sent, sched, worker, posts, deleter, control, device, isr, fin >>

(* ... and only then the packet, which is not scheduled.                   *)
EnqueueNew ==
  /\ spc = "new"
  /\ sent' = sent + 1
  /\ queue' = [queue EXCEPT ![sflow] = Append(@, sent + 1)]
  /\ spc' = "idle"
  /\ UNCHANGED << up, status, buf, work_queue, sflow, sched, worker, posts, deleter, control, device, isr, fin >>

(* The ring was found: the packet is queued ...                            *)
Enqueue(f) ==
  /\ spc = "idle" /\ sent < NPackets
  /\ status[f] # "NULL"
  /\ sent' = sent + 1
  /\ queue' = [queue EXCEPT ![f] = Append(@, sent + 1)]
  /\ spc' = IF Len(queue'[f]) % Trickle = 0 THEN "force" ELSE "sched"
  /\ sflow' = f
  /\ UNCHANGED << up, status, buf, work_queue, sched, worker, posts, deleter, control, device, isr, fin >>

(* ... and brcmf_msgbuf_schedule_txdata marks the ring ...                 *)
MarkFlow ==
  /\ spc \in {"force", "sched"}
  /\ flow_map' = flow_map \cup {sflow}
  /\ spc' = IF spc = "force" THEN "queue" ELSE "look"
  /\ UNCHANGED << up, rings, work_queue, sflow, sent, txflow_work, worker, posts, deleter, control, device, isr, fin >>

NeedsWork_Forced(f) == spc = "queue"
NeedsWork(f) == spc = "queue" \/ outstanding_tx[f] < Delay

(* ... and queues the worker, unless many packets are outstanding whose    *)
(* status will queue it.                                                   *)
QueueWork ==
  /\ spc \in {"queue", "look"}
  /\ txflow_work' = (txflow_work \/ NeedsWork(sflow))
  /\ spc' = "idle"
  /\ UNCHANGED << up, rings, work_queue, sflow, sent, flow_map, worker, posts, deleter, control, device, isr, fin >>

-----------------------------------------------------------------------------
(* The flowring worker: brcmf_msgbuf_flowring_create_worker.               *)

CreateWorker ==
  /\ work_queue # <<>>
  /\ LET f == Head(work_queue)
     IN  /\ up \/ ~InUse(f)
         /\ Submit([kind |-> "create", flow |-> f])
         /\ ring' = [ring EXCEPT ![f] = <<>>]
         /\ pub' = [pub EXCEPT ![f] = 0]
         /\ IF up
              THEN /\ buf' = [buf EXCEPT ![f] = TRUE]
                   /\ UNCHANGED << status, queue, fin >>
              ELSE RemoveFlowring(f)
  /\ work_queue' = Tail(work_queue)
  /\ UNCHANGED << up, sender, sched, worker, tx_pktids, outstanding_tx, deleter, device, isr >>

(* No request is written: there is no DMA memory, or no slot of the        *)
(* control ring once brcmf_commonring_config has emptied the flow's ring.  *)
CreateWorkerFails ==
  /\ Refuses /\ work_queue # <<>> /\ ~InUse(Head(work_queue))
  /\ RemoveFlowring(Head(work_queue))
  /\ \/ UNCHANGED << ring, pub >>
     \/ /\ ring' = [ring EXCEPT ![Head(work_queue)] = <<>>]
        /\ pub' = [pub EXCEPT ![Head(work_queue)] = 0]
  /\ work_queue' = Tail(work_queue)
  /\ UNCHANGED << up, sender, sched, worker, tx_pktids, outstanding_tx, deleter, control, device, isr >>

-----------------------------------------------------------------------------
(* The TX worker: brcmf_msgbuf_txflow_worker and brcmf_msgbuf_txflow.      *)

StartWork ==
  /\ wpc = "idle" /\ txflow_work
  /\ txflow_work' = FALSE
  /\ wpc' = "scan" /\ wflow' = 0
  /\ UNCHANGED << up, rings, work_queue, sender, flow_map, hand, count, posts, deleter, control, device, isr, fin >>

(* reserve_for_write and write_available find a free slot ...              *)
HasRoom(f) == Len(ring[f]) < Slots

(* ... but write_available finds none while no more than an eighth of the  *)
(* ring is free, if the ring was full before: was_full is not kept, either *)
(* value is taken.                                                         *)
Scarce(f) == Slots + 1 - Len(ring[f]) <= (Slots + 1) \div 8

(* The next ring marked from the worker's position on; its lock is taken   *)
(* if the ring has room.                                                   *)
Scan ==
  /\ wpc = "scan"
  /\ \/ /\ \A f \in flow_map : f < wflow
        /\ wpc' = "idle"
        /\ UNCHANGED << wflow, count, flow_map >>
     \/ \E f \in flow_map :
          /\ f >= wflow /\ \A g \in flow_map : g >= wflow => f <= g
          /\ flow_map' = flow_map \ {f}
          /\ \/ /\ HasRoom(f)
                /\ wpc' = "loop" /\ wflow' = f /\ count' = Flush2 - Flush1
             \/ /\ ~HasRoom(f) \/ Scarce(f)
                /\ wflow' = f + 1
                /\ UNCHANGED << wpc, count >>
  /\ UNCHANGED << up, rings, work_queue, sender, txflow_work, hand, posts, deleter, control, device, isr, fin >>

(* The ring is done with, for lack of packets, ids or slots: what was      *)
(* written is published and the lock let go.                               *)
FinishFlow ==
  /\ IF count > 0 THEN WriteComplete(wflow) ELSE UNCHANGED pub
  /\ wpc' = "scan" /\ wflow' = wflow + 1 /\ count' = 0

Dequeue ==
  /\ wpc = "loop" /\ status[wflow] = "OPEN" /\ queue[wflow] # <<>>
  /\ hand' = Head(queue[wflow])
  /\ queue' = [queue EXCEPT ![wflow] = Tail(@)]
  /\ wpc' = "post"
  /\ UNCHANGED << up, status, buf, work_queue, sender, sched, wflow, count, posts, deleter, control, device, isr, fin >>

NothingQueued ==
  /\ wpc = "loop" /\ (status[wflow] = "OPEN" => queue[wflow] = <<>>)
  /\ FinishFlow
  /\ UNCHANGED << up, rings, work_queue, sender, sched, hand, ring, tx_pktids, outstanding_tx, deleter, control, device, isr, fin >>

(* Any free id: brcmf_msgbuf_alloc_pktid goes round the array.             *)
FreeIds == {i \in PktIds : tx_pktids[i] = NoPkt}

CountPost_Missed(f) == UNCHANGED outstanding_tx
CountPost(f) == outstanding_tx' = [outstanding_tx EXCEPT ![f] = @ + 1]

Post ==
  /\ wpc = "post" /\ HasRoom(wflow)
  /\ \E i \in FreeIds :
       /\ tx_pktids' = [tx_pktids EXCEPT ![i] = hand]
       /\ ring' = [ring EXCEPT ![wflow] = Append(@, i)]
  /\ CountPost(wflow)
  /\ hand' = NoPkt
  /\ count' = IF count + 1 >= Flush2 THEN 0 ELSE count + 1
  /\ pub' = IF count + 1 >= Flush2 /\ up THEN [pub EXCEPT ![wflow] = Len(ring'[wflow])] ELSE pub
  /\ wpc' = "loop"
  /\ UNCHANGED << up, rings, work_queue, sender, sched, wflow, deleter, control, device, isr, fin >>

Reinserted_AtTail(f) == Append(queue[f], hand)
Reinserted(f) == << hand >> \o queue[f]

(* The buffer cannot be mapped, or there is no packet id, or no slot: the  *)
(* packet goes back to the head of its queue (and an id taken for it is    *)
(* given back).                                                            *)
PutBack ==
  /\ wpc = "post" /\ (Refuses \/ FreeIds = {} \/ ~HasRoom(wflow))
  /\ queue' = [queue EXCEPT ![wflow] = Reinserted(wflow)]
  /\ hand' = NoPkt
  /\ FinishFlow
  /\ UNCHANGED << up, status, buf, work_queue, sender, sched, ring, tx_pktids, outstanding_tx, deleter, control, device, isr, fin >>

-----------------------------------------------------------------------------
(* The deleting thread: brcmf_msgbuf_delete_flowring.                      *)

(* "make sure it is not in txflow"                                         *)
Closing(f) ==
  /\ dpc = "idle" /\ status[f] = "OPEN"
  /\ ~Locked(f)
  /\ status' = [status EXCEPT ![f] = "CLOSING"]
  /\ dpc' = "wait" /\ dflow' = f
  /\ UNCHANGED << up, queue, buf, work_queue, sender, sched, worker, posts, control, device, isr, fin >>

Drained_Assumed(f) == TRUE
Drained(f) == outstanding_tx[f] = 0

WaitOutstanding ==
  /\ dpc = "wait" /\ Drained(dflow)
  /\ dpc' = "submit"
  /\ UNCHANGED << up, rings, work_queue, sender, sched, worker, posts, dflow, control, device, isr, fin >>

(* The retries are used up: the count is forgotten.                        *)
WaitTimesOut ==
  /\ TimesOut /\ dpc = "wait"
  /\ outstanding_tx' = [outstanding_tx EXCEPT ![dflow] = 0]
  /\ dpc' = "submit"
  /\ UNCHANGED << up, rings, work_queue, sender, sched, worker, ring, pub, tx_pktids, dflow, control, device, isr, fin >>

(* The bus is up when the thread looks ...                                 *)
CheckBus ==
  /\ dpc = "submit" /\ up
  /\ dpc' = "write"
  /\ UNCHANGED << up, rings, work_queue, sender, sched, worker, posts, dflow, control, device, isr, fin >>

WriteDelete_NoAnswer ==
  /\ dpc = "write" /\ ~InUse(dflow)
  /\ Submit([kind |-> "delete", flow |-> dflow])
  /\ RemoveFlowring(dflow)
  /\ dpc' = "idle"
  /\ UNCHANGED << up, work_queue, sender, sched, worker, posts, dflow, device, isr >>

(* ... and the request is written; or it is not (bus down, ring full), or  *)
(* the write reports failure, and the ring is removed at once.             *)
WriteDelete ==
  /\ dpc = "write"
  /\ up \/ ~InUse(dflow)
  /\ Submit([kind |-> "delete", flow |-> dflow])
  /\ IF up THEN UNCHANGED << rings, fin >> ELSE RemoveFlowring(dflow)
  /\ dpc' = "idle"
  /\ UNCHANGED << up, work_queue, sender, sched, worker, posts, dflow, device, isr >>

RemoveAtOnce ==
  /\ (dpc = "submit" /\ ~up) \/ (dpc = "write" /\ Refuses)
  /\ ~InUse(dflow)
  /\ RemoveFlowring(dflow)
  /\ dpc' = "idle"
  /\ UNCHANGED << up, work_queue, sender, sched, worker, posts, dflow, control, device, isr >>

-----------------------------------------------------------------------------
(* The device: it takes control requests in order, posts of each open ring *)
(* in order, and completes what it holds in any order.                     *)

Answers == IF Refuses THEN BOOLEAN ELSE {TRUE}

DevControl ==
  /\ up /\ ctlpub > 0
  /\ LET request == Head(ctl)
         f == request.flow
     IN  /\ Outruns \/ ~(spc = "new" /\ sflow = f)
         /\ \E ok \in Answers :
              /\ ctlcpl' = Append(ctlcpl, [kind |-> request.kind, flow |-> f, ok |-> ok])
              /\ devopen' = CASE ~ok -> devopen
                              [] request.kind = "create" -> devopen \cup {f}
                              [] OTHER -> devopen \ {f}
  /\ ctl' = Tail(ctl) /\ ctlpub' = ctlpub - 1
  /\ UNCHANGED << leftover, up, rings, work_queue, sender, sched, worker, posts, deleter, held, txcpl, isr, fin >>

DevTake(f) ==
  /\ up /\ f \in devopen /\ pub[f] > 0
  /\ held' = [held EXCEPT ![f] = @ \cup {Head(ring[f])}]
  /\ ring' = [ring EXCEPT ![f] = Tail(@)]
  /\ pub' = [pub EXCEPT ![f] = @ - 1]
  /\ UNCHANGED << up, rings, work_queue, sender, sched, worker, tx_pktids, outstanding_tx, deleter, control, devopen, txcpl, ctlcpl, isr, fin >>

DevComplete(f) ==
  /\ up
  /\ \E i \in held[f] :
       /\ held' = [held EXCEPT ![f] = @ \ {i}]
       /\ txcpl' = Append(txcpl, [flow |-> f, id |-> i])
  /\ UNCHANGED << up, rings, work_queue, sender, sched, worker, posts, deleter, control, devopen, ctlcpl, isr, fin >>

-----------------------------------------------------------------------------
(* The interrupt thread: brcmf_proto_msgbuf_rx_trigger empties the TX      *)
(* completion ring, then the control completion ring, then looks at the    *)
(* rings that had a packet completed.                                      *)

StartIsr ==
  /\ ipc = "idle" /\ up /\ (txcpl # <<>> \/ ctlcpl # <<>>)
  /\ ipc' = "tx"
  /\ UNCHANGED << up, rings, work_queue, sender, sched, worker, posts, deleter, control, device, ipos, txstatus_done_map, fin >>

ProcessTxstatus ==
  /\ ipc = "tx" /\ txcpl # <<>>
  /\ LET c == Head(txcpl) p == tx_pktids[c.id]
     IN  IF p = NoPkt
           THEN UNCHANGED << tx_pktids, outstanding_tx, fin, txstatus_done_map >>
           ELSE /\ tx_pktids' = [tx_pktids EXCEPT ![c.id] = NoPkt]
                /\ outstanding_tx' = [outstanding_tx EXCEPT ![c.flow] = @ - 1]
                /\ fin' = [fin EXCEPT ![p] = @ + 1]
                /\ txstatus_done_map' = txstatus_done_map \cup {c.flow}
  /\ txcpl' = Tail(txcpl)
  /\ UNCHANGED << up, rings, work_queue, sender, sched, worker, ring, pub, deleter, control, devopen, held, ctlcpl, ipc, ipos >>

TxDone ==
  /\ ipc = "tx" /\ txcpl = <<>>
  /\ ipc' = "ctl"
  /\ UNCHANGED << up, rings, work_queue, sender, sched, worker, posts, deleter, control, device, ipos, txstatus_done_map, fin >>

(* brcmf_msgbuf_process_flow_ring_create_response                          *)
CreateResponse ==
  /\ ipc = "ctl" /\ ctlcpl # <<>> /\ Head(ctlcpl).kind = "create"
  /\ LET f == Head(ctlcpl).flow
     IN  \/ /\ Head(ctlcpl).ok
            /\ status' = IF status[f] = "NULL" THEN status ELSE [status EXCEPT ![f] = "OPEN"]
            /\ ScheduleTx(f)
            /\ UNCHANGED << queue, buf, fin >>
         \/ /\ ~Head(ctlcpl).ok /\ ~InUse(f)
            /\ RemoveFlowring(f)
            /\ UNCHANGED sched
  /\ ctlcpl' = Tail(ctlcpl)
  /\ UNCHANGED << up, work_queue, sender, worker, posts, deleter, control, devopen, held, txcpl, isr >>

(* brcmf_msgbuf_process_flow_ring_delete_response; after a failure the     *)
(* DMA buffer is not given back.                                           *)
DeleteResponse ==
  /\ ipc = "ctl" /\ ctlcpl # <<>> /\ Head(ctlcpl).kind = "delete"
  /\ LET f == Head(ctlcpl).flow
     IN  /\ ~InUse(f)
         /\ FlowringDelete(f)
         /\ buf' = IF Head(ctlcpl).ok THEN [buf EXCEPT ![f] = FALSE] ELSE buf
  /\ ctlcpl' = Tail(ctlcpl)
  /\ UNCHANGED << up, work_queue, sender, sched, worker, posts, deleter, control, devopen, held, txcpl, isr >>

ControlDone ==
  /\ ipc = "ctl" /\ ctlcpl = <<>>
  /\ ipc' = "trigger" /\ ipos' = 0
  /\ UNCHANGED << up, rings, work_queue, sender, sched, worker, posts, deleter, control, device, txstatus_done_map, fin >>

(* brcmf_flowring_qlen                                                     *)
Qlen(f) == IF status[f] = "OPEN" THEN Len(queue[f]) ELSE 0

WantsWork_OnlyLong(f) == Qlen(f) > Trickle
WantsWork(f) == Qlen(f) > Trickle \/ (Qlen(f) > 0 /\ outstanding_tx[f] < Trickle)

Trigger ==
  /\ ipc = "trigger"
  /\ \/ /\ \A f \in txstatus_done_map : f < ipos
        /\ ipc' = "idle"
        /\ UNCHANGED << sched, ipos, txstatus_done_map >>
     \/ \E f \in txstatus_done_map :
          /\ f >= ipos /\ \A g \in txstatus_done_map : g >= ipos => f <= g
          /\ txstatus_done_map' = txstatus_done_map \ {f}
          /\ ipos' = f + 1
          /\ IF WantsWork(f) THEN ScheduleTx(f) ELSE UNCHANGED sched
          /\ UNCHANGED ipc
  /\ UNCHANGED << up, rings, work_queue, sender, worker, posts, deleter, control, device, fin >>

(* The suspend code takes the bus down and brings it up again.             *)
BusDownUp ==
  /\ Suspends
  /\ up' = ~up
  /\ UNCHANGED << rings, work_queue, sender, sched, worker, posts, deleter, control, device, isr, fin >>

-----------------------------------------------------------------------------
SenderStep == (\E f \in Flows : FlowringCreate(f) \/ Enqueue(f)) \/ EnqueueNew \/ MarkFlow \/ QueueWork
WorkerStep == StartWork \/ Scan \/ Dequeue \/ NothingQueued \/ Post \/ PutBack
CreatorStep == CreateWorker \/ CreateWorkerFails
DeleterStep ==
  (\E f \in Flows : Closing(f)) \/ WaitOutstanding \/ WaitTimesOut \/ CheckBus \/ WriteDelete \/ RemoveAtOnce
DeviceStep == DevControl \/ \E f \in Flows : DevTake(f) \/ DevComplete(f)
IsrStep == StartIsr \/ ProcessTxstatus \/ TxDone \/ CreateResponse \/ DeleteResponse \/ ControlDone \/ Trigger

Next == SenderStep \/ WorkerStep \/ CreatorStep \/ DeleterStep \/ DeviceStep \/ IsrStep \/ BusDownUp

Spec == Init /\ [][Next]_vars

(* Every thread of the host runs on, and the device serves every ring and  *)
(* every packet it holds; nothing obliges the stack to send another packet *)
(* or to delete a ring.                                                    *)
Fairness ==
  /\ WF_vars(EnqueueNew \/ MarkFlow \/ QueueWork)
  /\ WF_vars(WorkerStep) /\ WF_vars(CreatorStep) /\ WF_vars(IsrStep)
  /\ WF_vars(WaitOutstanding \/ CheckBus \/ WriteDelete)
  /\ WF_vars(DevControl)
  /\ \A f \in Flows : WF_vars(DevTake(f)) /\ WF_vars(DevComplete(f))

FairSpec == Spec /\ Fairness
-----------------------------------------------------------------------------
(* The types of the variables.                                             *)
Requests == [kind : {"create", "delete"}, flow : Flows]
Responses == [kind : {"create", "delete"}, flow : Flows, ok : BOOLEAN]
RingsOK ==
  /\ status \in [Flows -> {"NULL", "CLOSED", "CLOSING", "OPEN"}]
  /\ queue \in [Flows -> Seq(Packets)]
  /\ buf \in [Flows -> BOOLEAN]
SenderOK ==
  /\ spc \in {"idle", "new", "force", "sched", "queue", "look"}
  /\ sflow \in Flows
  /\ sent \in 0 .. NPackets /\ (spc = "new" => sent < NPackets)
SchedOK == flow_map \subseteq Flows /\ txflow_work \in BOOLEAN
WorkerOK ==
  /\ wpc \in {"idle", "scan", "loop", "post"}
  /\ wflow \in 0 .. NFlows /\ (wpc \in {"loop", "post"} => wflow \in Flows)
  /\ hand \in Packets \cup {NoPkt} /\ (wpc = "post" <=> hand # NoPkt)
  /\ count \in 0 .. Flush2 - 1
PostsOK ==
  /\ ring \in [Flows -> Seq(PktIds)] /\ \A f \in Flows : Len(ring[f]) <= Slots
  /\ pub \in [Flows -> Nat] /\ \A f \in Flows : pub[f] <= Len(ring[f])
  /\ tx_pktids \in [PktIds -> Packets \cup {NoPkt}]
  /\ outstanding_tx \in [Flows -> Int]
DeleterOK == dpc \in {"idle", "wait", "submit", "write"} /\ dflow \in Flows
ControlOK == ctl \in Seq(Requests) /\ ctlpub \in 0 .. Len(ctl) /\ leftover \in BOOLEAN
DeviceOK ==
  /\ devopen \subseteq Flows /\ held \in [Flows -> SUBSET PktIds]
  /\ txcpl \in Seq([flow : Flows, id : PktIds])
  /\ ctlcpl \in Seq(Responses)
IsrOK ==
  /\ ipc \in {"idle", "tx", "ctl", "trigger"} /\ ipos \in 0 .. NFlows
  /\ txstatus_done_map \subseteq Flows

TypeOK ==
  /\ up \in BOOLEAN /\ work_queue \in Seq(Flows) /\ fin \in [Packets -> Nat]
  /\ RingsOK /\ SenderOK /\ SchedOK /\ WorkerOK /\ PostsOK
  /\ DeleterOK /\ ControlOK /\ DeviceOK /\ IsrOK

(* Where packets of flow f wait: posted, in the worker's hand, queued.     *)
InHand(f) == IF wflow = f /\ hand # NoPkt THEN << hand >> ELSE <<>>
Posted(f) == [k \in 1 .. Len(ring[f]) |-> tx_pktids[ring[f][k]]]

(* A packet the driver accepted ("we always eat the packet") is queued, in *)
(* the worker's hand or posted under one id, until it is finalised, once.  *)
Places(p) ==
  Cardinality({f \in Flows : p \in Range(queue[f])})
  + Cardinality({i \in PktIds : tx_pktids[i] = p})
  + (IF hand = p THEN 1 ELSE 0) + fin[p]

PacketsConserved == \A p \in Packets : Places(p) = IF p <= sent THEN 1 ELSE 0

(* Packets of one flow are posted in the order they were accepted, in      *)
(* spite of packets put back and of several runs of the worker.            *)
Ascending(s) == \A i, j \in DOMAIN s : i < j => s[i] < s[j]
PacketsInOrder == \A f \in Flows : Ascending(Posted(f) \o InHand(f) \o queue[f])

(* "make sure it is not in txflow": while the worker has a packet for a    *)
(* ring in hand, the ring is open and its buffer is there, whatever is     *)
(* refused or times out, until a control request failed for want of the    *)
(* bus: the next request publishes that one too, and its answer can open   *)
(* a ring that has no buffer yet.                                          *)
WorkerOnOpenRing == wpc = "post" /\ ~leftover => status[wflow] = "OPEN" /\ buf[wflow]

(* Without a timeout a ring's buffer is given back only when the device    *)
(* has completed everything that was posted in it.                         *)
QuietRemoval ==
  \A f \in Flows : ~buf[f] => /\ ring[f] = <<>> /\ held[f] = {}
                              /\ \A k \in DOMAIN txcpl : txcpl[k].flow # f

(* Without a timeout outstanding_tx counts the packets posted on a ring    *)
(* whose status was not processed, which is what deletion waits for.       *)
OutstandingExact ==
  \A f \in Flows : outstanding_tx[f] =
    Len(ring[f]) + Cardinality(held[f]) + Cardinality({k \in DOMAIN txcpl : txcpl[k].flow = f})

(* The device is never asked to use, and never has open, a ring whose      *)
(* buffer was given back.                                                  *)
DeviceRingsBacked ==
  /\ \A k \in DOMAIN ctl : ctl[k].kind = "create" => buf[ctl[k].flow]
  /\ \A f \in devopen : buf[f]

(* Every accepted packet is finalised, so its memory returns to the stack. *)
EventuallyFinalised == \A p \in Packets : (p <= sent) ~> (fin[p] = 1)
=============================================================================
