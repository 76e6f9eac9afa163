---------------------------- MODULE FlowControl ----------------------------
(***************************************************************************)
(* Flow control of the msgbuf flow rings (flowring.c): transmitting        *)
(* threads append packets to a ring's queue and stop the network interface *)
(* when the queue is long; the TX worker takes packets and wakes the       *)
(* interface when the queue is short; rings of one interface share one     *)
(* stop reason.  Neither the test nor the queue is protected by the lock   *)
(* that brcmf_flowring_block takes, so every read is a step of its own.    *)
(* The worker comes to a ring only if it is queued for it (msgbuf.c): by a *)
(* sender, by the opening of the ring, or by the status of a packet the    *)
(* ring has outstanding.  A queue is modelled by its length.  (Names begin *)
(* with Flow where CommonRing.tla has the same ones: FlowRingProofs.tla    *)
(* extends both.)                                                          *)
(***************************************************************************)
EXTENDS Integers

CONSTANTS Rings,       \* flow ids of one interface
          Senders,     \* threads in the transmit path
          Low, High,   \* BRCMF_FLOWRING_LOW and BRCMF_FLOWRING_HIGH
          MaxLen,      \* bound on what senders make of a queue
          Delay,       \* BRCMF_MSGBUF_DELAY_TXWORKER_THRS
          Trickle,     \* BRCMF_MSGBUF_TRICKLE_TXWORKER_THRS
          MaxOut,      \* bound on the packets a ring has outstanding: its slots
          RacyDelete,  \* a ring may be deleted under a sender
          NoRing

ASSUME LimitAssumption == Low \in Nat /\ High \in Nat /\ 0 < Low /\ Low <= High
ASSUME LenAssumption == MaxLen \in Nat /\ MaxLen > High
ASSUME WorkerAssumption ==
  /\ Delay \in Nat \ {0} /\ Trickle \in Nat \ {0} /\ MaxOut \in Nat \ {0}
  /\ Trickle + 1 < Low
ASSUME RacyAssumption == RacyDelete \in BOOLEAN
ASSUME NoRingAssumption == NoRing \notin Rings

VARIABLES status,   \* "NULL", "CLOSED", "CLOSING", "OPEN": rings[] and ring_status
          qlen,     \* length of the ring's skblist
          blocked,  \* ring->blocked
          freeing,  \* brcmf_flowring_delete has unblocked the ring and not freed it
          stopped,  \* BRCMF_NETIF_STOP_REASON_FLOW is set on the interface
          spc,      \* where each sender is in brcmf_flowring_enqueue
          sring,    \* the ring it works on
          wpc,      \* where the TX worker is in brcmf_msgbuf_txflow
          wring,    \* the ring whose lock the worker holds
          work,     \* "set": the ring's bit in flow_map, "queued": and txflow_work
          out       \* outstanding_tx: packets posted whose status is not back

flow_vars == << status, qlen, blocked, freeing, stopped, spc, sring, wpc, wring,
                work, out >>
sender == << spc, sring >>
worker == << wpc, wring >>
sched == << work, out >>

Live(r) == status[r] # "NULL"

Inside(r) == {s \in Senders : spc[s] # "idle" /\ sring[s] = r}

-----------------------------------------------------------------------------
FlowInit ==
  /\ status = [r \in Rings |-> "NULL"]
  /\ qlen = [r \in Rings |-> 0]
  /\ blocked = [r \in Rings |-> FALSE]
  /\ freeing = [r \in Rings |-> FALSE]
  /\ stopped = FALSE
  /\ spc = [s \in Senders |-> "idle"] /\ sring = [s \in Senders |-> NoRing]
  /\ wpc = "idle" /\ wring = NoRing
  /\ work = [r \in Rings |-> "none"] /\ out = [r \in Rings |-> 0]

(* brcmf_flowring_block, under block_lock.  Only open rings count as still *)
(* blocking the interface.  (Operators named X_Y are faulty variants of X  *)
(* that the properties are tried against.)                                 *)
Block_KeepsStopped(r, b) ==
  IF blocked[r] = b
    THEN UNCHANGED << blocked, stopped >>
    ELSE /\ blocked' = [blocked EXCEPT ![r] = b]
         /\ stopped' = (stopped \/ b)

Block(r, b) ==
  IF blocked[r] = b
    THEN UNCHANGED << blocked, stopped >>
    ELSE /\ blocked' = [blocked EXCEPT ![r] = b]
         /\ stopped' = IF \E i \in Rings \ {r} : status[i] = "OPEN" /\ blocked[i]
                         THEN stopped ELSE b

(* brcmf_msgbuf_schedule_txdata: the ring's bit is set in any case, the    *)
(* worker is not queued for it while many of its packets are outstanding.  *)
(* (A run queued for another ring may take it up all the same.)            *)
ScheduleTxdata(r, force) ==
  work' = [work EXCEPT ![r] =
             IF force \/ out[r] < Delay \/ @ = "queued" THEN "queued" ELSE "set"]

-----------------------------------------------------------------------------
(* A ring's life, seen from its queue. *)

(* brcmf_flowring_create; the packet that asked for the ring follows.      *)
Create(r) ==
  /\ ~Live(r)
  /\ status' = [status EXCEPT ![r] = "CLOSED"]
  /\ UNCHANGED << qlen, blocked, freeing, stopped, sender, worker, sched >>

(* The create response: brcmf_flowring_open, and the worker is queued.     *)
Open(r) ==
  /\ status[r] = "CLOSED" /\ ~freeing[r]
  /\ status' = [status EXCEPT ![r] = "OPEN"]
  /\ ScheduleTxdata(r, TRUE)
  /\ UNCHANGED << qlen, blocked, freeing, stopped, sender, worker, out >>

(* brcmf_msgbuf_delete_flowring marks the ring under the lock that the TX  *)
(* worker holds while it dequeues.                                         *)
Closing(r) ==
  /\ status[r] = "OPEN" /\ wring # r
  /\ status' = [status EXCEPT ![r] = "CLOSING"]
  /\ UNCHANGED << qlen, blocked, freeing, stopped, sender, worker, sched >>

DeleteUnblock_Forgotten(r) ==
  /\ status[r] \in {"CLOSED", "CLOSING"} /\ ~freeing[r] /\ out[r] = 0
  /\ RacyDelete \/ Inside(r) = {}
  /\ freeing' = [freeing EXCEPT ![r] = TRUE]
  /\ UNCHANGED << status, qlen, blocked, stopped, sender, worker, sched >>

(* brcmf_flowring_delete: of a ring whose creation failed, or on the       *)
(* response to the delete request, which waits for the packets that are    *)
(* outstanding.  It unblocks first ...                                     *)
DeleteUnblock(r) ==
  /\ status[r] \in {"CLOSED", "CLOSING"} /\ ~freeing[r] /\ out[r] = 0
  /\ RacyDelete \/ Inside(r) = {}
  /\ Block(r, FALSE)
  /\ freeing' = [freeing EXCEPT ![r] = TRUE]
  /\ UNCHANGED << status, qlen, sender, worker, sched >>

(* ... then removes the ring and drops its packets.  (A sender still using *)
(* the ring would use freed memory; the model stops short of that.)        *)
DeleteFree(r) ==
  /\ freeing[r] /\ Inside(r) = {}
  /\ status' = [status EXCEPT ![r] = "NULL"]
  /\ qlen' = [qlen EXCEPT ![r] = 0]
  /\ blocked' = [blocked EXCEPT ![r] = FALSE]
  /\ freeing' = [freeing EXCEPT ![r] = FALSE]
  /\ UNCHANGED << stopped, sender, worker, sched >>

-----------------------------------------------------------------------------
(* brcmf_msgbuf_tx_queue_data, by a sender the stack let through:          *)
(* brcmf_flowring_enqueue ...                                              *)

Enqueue(s, r) ==
  /\ spc[s] = "idle" /\ ~stopped
  /\ Live(r) /\ (RacyDelete \/ ~freeing[r])
  /\ qlen[r] < MaxLen
  /\ qlen' = [qlen EXCEPT ![r] = @ + 1]
  /\ spc' = [spc EXCEPT ![s] = "test"]
  /\ sring' = [sring EXCEPT ![s] = r]
  /\ UNCHANGED << status, blocked, freeing, stopped, worker, sched >>

TestHigh(s) ==
  /\ spc[s] = "test"
  /\ spc' = [spc EXCEPT ![s] = IF ~blocked[sring[s]] /\ qlen[sring[s]] > High
                                 THEN "block" ELSE "schedule"]
  /\ UNCHANGED << status, qlen, blocked, freeing, stopped, sring, worker, sched >>

BlockHigh(s) ==
  /\ spc[s] = "block"
  /\ Block(sring[s], TRUE)
  /\ spc' = [spc EXCEPT ![s] = "recheck"]
  /\ UNCHANGED << status, qlen, freeing, sring, worker, sched >>

RecheckLow_Omitted(s) ==
  /\ spc[s] = "recheck"
  /\ spc' = [spc EXCEPT ![s] = "schedule"]
  /\ UNCHANGED << status, qlen, blocked, freeing, stopped, sring, worker, sched >>

(* The second look at the queue after blocking.                            *)
RecheckLow(s) ==
  /\ spc[s] = "recheck"
  /\ spc' = [spc EXCEPT ![s] = IF qlen[sring[s]] < Low THEN "unblock" ELSE "schedule"]
  /\ UNCHANGED << status, qlen, blocked, freeing, stopped, sring, worker, sched >>

UnblockLow(s) ==
  /\ spc[s] = "unblock"
  /\ Block(sring[s], FALSE)
  /\ spc' = [spc EXCEPT ![s] = "schedule"]
  /\ UNCHANGED << status, qlen, freeing, sring, worker, sched >>

(* ... and then the worker is queued: in any case for every Trickle-th     *)
(* packet (the length modulo Trickle is left open).                        *)
Schedule(s) ==
  /\ spc[s] = "schedule"
  /\ \E force \in BOOLEAN : ScheduleTxdata(sring[s], force)
  /\ spc' = [spc EXCEPT ![s] = "idle"]
  /\ sring' = [sring EXCEPT ![s] = NoRing]
  /\ UNCHANGED << status, qlen, blocked, freeing, stopped, worker, out >>

-----------------------------------------------------------------------------
(* The TX worker, brcmf_msgbuf_txflow.                                     *)

(* A ring whose bit is set; if it has no room its packets stay, and some   *)
(* of them are outstanding.                                                *)
Scan(r) ==
  /\ wpc = "idle" /\ work[r] # "none"
  /\ work' = [work EXCEPT ![r] = "none"]
  /\ \/ wpc' = "next" /\ wring' = r
     \/ out[r] > 0 /\ UNCHANGED worker
  /\ UNCHANGED << status, qlen, blocked, freeing, stopped, sender, out >>

(* brcmf_flowring_dequeue, under the ring's lock ...                       *)
Dequeue ==
  /\ wpc = "next" /\ status[wring] = "OPEN" /\ qlen[wring] > 0
  /\ qlen' = [qlen EXCEPT ![wring] = @ - 1]
  /\ wpc' = "popped"
  /\ UNCHANGED << status, blocked, freeing, stopped, sender, wring, sched >>

TestLow ==
  /\ wpc = "popped"
  /\ wpc' = IF blocked[wring] /\ qlen[wring] < Low THEN "unblock" ELSE "post"
  /\ UNCHANGED << status, qlen, blocked, freeing, stopped, sender, wring, sched >>

WorkerUnblock ==
  /\ wpc = "unblock"
  /\ Block(wring, FALSE)
  /\ wpc' = "post"
  /\ UNCHANGED << status, qlen, freeing, sender, wring, sched >>

(* ... then an id and a slot for the packet.                               *)
Post ==
  /\ wpc = "post" /\ out[wring] < MaxOut
  /\ out' = [out EXCEPT ![wring] = @ + 1]
  /\ wpc' = "next"
  /\ UNCHANGED << status, qlen, blocked, freeing, stopped, sender, wring, work >>

(* No slot, when the ring has packets outstanding.                         *)
NoRoom ==
  /\ wpc = "post" /\ out[wring] > 0
  /\ wpc' = "back"
  /\ UNCHANGED << status, qlen, blocked, freeing, stopped, sender, wring, sched >>

(* No packet id (rings of every interface share them) or no DMA mapping.   *)
NoPktid ==
  /\ wpc = "post"
  /\ wpc' = "back"
  /\ UNCHANGED << status, qlen, blocked, freeing, stopped, sender, wring, sched >>

(* The packet goes back to the head of the queue, the ring's bit stays     *)
(* clear.                                                                  *)
Reinsert ==
  /\ wpc = "back"
  /\ qlen' = [qlen EXCEPT ![wring] = @ + 1]
  /\ wpc' = "idle" /\ wring' = NoRing
  /\ UNCHANGED << status, blocked, freeing, stopped, sender, sched >>

Release ==
  /\ wpc = "next" /\ ~(status[wring] = "OPEN" /\ qlen[wring] > 0)
  /\ wpc' = "idle" /\ wring' = NoRing
  /\ UNCHANGED << status, qlen, blocked, freeing, stopped, sender, sched >>

-----------------------------------------------------------------------------
(* The interrupt thread. *)

Requeues_FewOnly(r) == status[r] = "OPEN" /\ qlen[r] \in 1 .. Trickle /\ out'[r] < Trickle

(* Whether brcmf_proto_msgbuf_rx_trigger queues the worker for a ring.     *)
Requeues(r) ==
  status[r] = "OPEN" /\ (qlen[r] > Trickle \/ (qlen[r] > 0 /\ out'[r] < Trickle))

(* The status of a packet (brcmf_msgbuf_process_txstatus), and the look at *)
(* its ring with which the interrupt thread ends.                          *)
TxStatus(r) ==
  /\ out[r] > 0
  /\ out' = [out EXCEPT ![r] = @ - 1]
  /\ work' = [work EXCEPT ![r] = IF Requeues(r) THEN "queued" ELSE @]
  /\ UNCHANGED << status, qlen, blocked, freeing, stopped, sender, worker >>

SenderStep(s) ==
  TestHigh(s) \/ BlockHigh(s) \/ RecheckLow(s) \/ UnblockLow(s) \/ Schedule(s)

WorkerStep ==
  \/ Dequeue \/ TestLow \/ WorkerUnblock
  \/ Post \/ NoRoom \/ NoPktid \/ Reinsert \/ Release

FlowNext ==
  \/ \E r \in Rings : \/ Create(r) \/ Open(r) \/ Closing(r)
                      \/ DeleteUnblock(r) \/ DeleteFree(r)
                      \/ Scan(r) \/ TxStatus(r)
  \/ \E s \in Senders : (\E r \in Rings : Enqueue(s, r)) \/ SenderStep(s)
  \/ WorkerStep

FlowSpec == FlowInit /\ [][FlowNext]_flow_vars

(* Every thread runs on.  A run of the worker goes through the bits in     *)
(* their order, so that it reaches every ring it is queued for; it need    *)
(* not come for a bit that is merely set.  The device reports what was     *)
(* posted and answers create and delete requests.                          *)
Fairness ==
  /\ \A s \in Senders : WF_flow_vars(SenderStep(s))
  /\ WF_flow_vars(WorkerStep)
  /\ \A r \in Rings : /\ SF_flow_vars(work[r] = "queued" /\ Scan(r))
                      /\ WF_flow_vars(TxStatus(r))
                      /\ WF_flow_vars(Open(r) \/ DeleteUnblock(r))
                      /\ WF_flow_vars(DeleteFree(r))

FairSpec == FlowSpec /\ Fairness
-----------------------------------------------------------------------------
SchedOK ==
  work \in [Rings -> {"none", "set", "queued"}] /\ out \in [Rings -> 0 .. MaxOut]

(* The types of the variables.                                             *)
FlowTypeOK ==
  /\ status \in [Rings -> {"NULL", "CLOSED", "CLOSING", "OPEN"}]
  /\ qlen \in [Rings -> 0 .. MaxLen + 1]
  /\ blocked \in [Rings -> BOOLEAN] /\ freeing \in [Rings -> BOOLEAN]
  /\ stopped \in BOOLEAN
  /\ spc \in [Senders -> {"idle", "test", "block", "recheck", "unblock", "schedule"}]
  /\ sring \in [Senders -> Rings \cup {NoRing}]
  /\ wpc \in {"idle", "next", "popped", "unblock", "post", "back"}
  /\ wring \in Rings \cup {NoRing}
  /\ SchedOK

(* "netif stopped due to flowring full": the stop reason is never left set *)
(* without a blocked ring that will lift it.                               *)
StoppedMeansBlocked == stopped => \E r \in Rings : blocked[r]

(* Whoever left an almost empty ring blocked is still about to look.       *)
LooksAgain(r) ==
  \/ \E s \in Senders : spc[s] \in {"recheck", "unblock"} /\ sring[s] = r
  \/ wpc \in {"popped", "unblock"} /\ wring = r

BlockedIsWatched == \A r \in Rings : blocked[r] /\ qlen[r] < Low => LooksAgain(r)

(* A ring being freed is out of use (without the race with senders).       *)
FreeingIsQuiet ==
  \A r \in Rings : freeing[r] => /\ status[r] \in {"CLOSED", "CLOSING"}
                                 /\ ~blocked[r] /\ Inside(r) = {}

(* The worker holds a packet of the ring.                                  *)
Holding == {"popped", "unblock", "post", "back"}

(* Senders and the worker are at a ring when they are at work; the ring    *)
(* whose packet the worker holds stays open, and has a place for it.       *)
PlacesOK ==
  /\ \A s \in Senders : spc[s] # "idle" => sring[s] \in Rings
  /\ wpc # "idle" => wring \in Rings
  /\ wpc \in Holding
       => status[wring] = "OPEN" /\ qlen[wring] <= MaxLen

(* The inductive invariant of the proofs.                                  *)
FlowInv ==
  /\ FlowTypeOK /\ PlacesOK /\ BlockedIsWatched /\ FreeingIsQuiet
  /\ StoppedMeansBlocked

(* The workaround of brcmf_flowring_enqueue works: when nobody is in the   *)
(* middle of an operation on an open ring, a ring that is blocked still    *)
(* has packets whose removal will unblock it.                              *)
BlockedHasBacklog ==
  \A r \in Rings :
    status[r] = "OPEN" /\ blocked[r] /\ Inside(r) = {} /\ wring # r => qlen[r] >= Low

(* A ring with a backlog that nothing will bring the worker to: the next   *)
(* packet would, but none comes while the interface is stopped.            *)
Stranded(r) ==
  /\ status[r] = "OPEN" /\ qlen[r] > 0 /\ Inside(r) = {} /\ wring # r
  /\ work[r] = "none" /\ out[r] = 0

(* An interface stopped for a full flow ring is woken again, though the    *)
(* worker is not queued for every packet, finds no room and puts packets   *)
(* back.  The exception is a packet put back for want of an id or of a DMA *)
(* mapping when its ring has nothing outstanding: the blocked ring is then *)
(* stranded.                                                               *)
StopIsLifted == stopped ~> ~stopped \/ \E r \in Rings : blocked[r] /\ Stranded(r)
=============================================================================
