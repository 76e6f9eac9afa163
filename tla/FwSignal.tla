------------------------------ MODULE FwSignal ------------------------------
(***************************************************************************)
(* Firmware signalled flow control, fwsignal.c: packets wait in power save *)
(* queues, one per destination and FIFO, each holding a hanger slot; the   *)
(* dequeue worker sends them while their FIFO has credits or can borrow    *)
(* some; the device reports what became of each packet and may suppress    *)
(* it, in which case it is queued again, ahead of the packets never sent.  *)
(*                                                                         *)
(* Four threads: the stack, the worker, which lets go of the lock while it *)
(* hands a packet to the bus, the thread that handles the signals of the   *)
(* device, and the bus, which blocks, unblocks and completes.              *)
(* Destination 0 is the interface's own entry, the others are nodes.  A    *)
(* packet is a number in the order of acceptance, which stands for its     *)
(* free-running count too.  The device has announced its credits, so that  *)
(* bcmc_credit_check is on.  Operators named X_Y are faulty variants of X. *)
(***************************************************************************)
EXTENDS Integers, Sequences, FiniteSets

CONSTANTS NDests, NAC,   \* destinations, and access categories; FIFO NAC is BCMC
          NPackets,      \* bound on the packets sent
          Traffic,       \* the pairs of a destination and a FIFO they are sent to
          Slots, NoSlot, \* of the hanger
          Credits,       \* of each FIFO, as the device announced them
          PsqLen, Hi, Low, \* fws_psq_len and the two water marks
          Explicit,      \* BRCMF_FWS_FCMODE_EXPLICIT_CREDIT; else implied credits
          BusFails,      \* the bus may refuse a packet, or fail to transmit it
          Deletes,       \* the device may delete a node
          Upsets,        \* bound on how often it closes a destination, asks for
                         \* packets or deletes a node, and the bus fails
          MaxRequest     \* bound on the packets it requests of a closed one

Dests == 0 .. NDests - 1
ACs == 0 .. NAC - 1
BCMC == NAC
Fifos == ACs \cup {BCMC}
Packets == 1 .. NPackets
NoPkt == 0

ASSUME CountAssumption == NDests \in Nat \ {0} /\ NAC \in Nat \ {0} /\ NPackets \in Nat
ASSUME CreditAssumption == Credits \in [Fifos -> Nat] /\ MaxRequest \in Nat /\ Upsets \in Nat
ASSUME WaterAssumption == {PsqLen, Hi, Low} \subseteq Nat /\ Low < Hi /\ Hi <= PsqLen
ASSUME TrafficAssumption == Traffic \subseteq Dests \X Fifos
ASSUME SlotAssumption == NoSlot \notin Slots
ASSUME SwitchAssumption == {Explicit, BusFails, Deletes} \subseteq BOOLEAN

VARIABLES
  pk, sent,      \* each packet's destination, FIFO, slot and flags; packets accepted
  hanger, marked,\* the packet of each slot; the slots INUSE_SUPPRESSED
  psq,           \* the queues with what is counted of them
  mac,           \* the destinations' entries
  credits,       \* fifo_credit, fifo_credit_map and credits_borrowed
  deq_node_pos,
  fws_dequeue_work, wpc, wfifo, wphase, hand, \* the worker
  bus_flow_blocked,
  spc,           \* the stack: idle, or yet to schedule the worker
  rpc, rslot,    \* the signal thread: worker to be scheduled, slot to be marked
  bus, dev,      \* packets with the bus and with the device
  owed, upsets,    \* the device: credits it owes, and the upsets so far
  fin            \* how often each packet was finalised or freed

hang == << hanger, marked >>
worker == << wpc, wfifo, wphase, hand >>
signal == << rpc, rslot >>
device == << dev, owed, upsets >>
vars == << pk, sent, hang, psq, mac, credits, deq_node_pos, fws_dequeue_work, worker,
           bus_flow_blocked, spc, signal, bus, device, fin >>

Init ==
  /\ pk = [p \in Packets |-> [mac |-> 0, fifo |-> 0, slot |-> NoSlot, supp |-> FALSE, req |-> FALSE]]
  /\ sent = 0
  /\ hanger = [s \in Slots |-> NoPkt] /\ marked = {}
  /\ psq = [delayed |-> [d \in Dests |-> [f \in Fifos |-> <<>>]],
            suppressed |-> [d \in Dests |-> [f \in Fifos |-> <<>>]],
            delay_map |-> {}, enqpkt |-> [f \in Fifos |-> 0], stop |-> FALSE]
  /\ mac = [d \in Dests |->
             [occupied |-> TRUE, closed |-> FALSE, credit |-> 0, packet |-> 0,
              suppressed |-> FALSE, transit |-> 0, suppr |-> 0]]
  /\ credits = [fifo |-> Credits, map |-> {f \in Fifos : Credits[f] > 0},
                borrowed |-> [b \in ACs |-> [l \in ACs |-> 0]]]
  /\ deq_node_pos = [f \in Fifos |-> 0]
  /\ fws_dequeue_work = FALSE /\ wpc = "idle" /\ wfifo = 0 /\ wphase = "own" /\ hand = NoPkt
  /\ bus_flow_blocked = FALSE /\ spc = "idle" /\ rpc = "idle" /\ rslot = NoSlot
  /\ bus = {} /\ dev = {} /\ owed = [f \in Fifos |-> 0] /\ upsets = 0
  /\ fin = [p \in Packets |-> 0]

(* The worker holds the lock except in txdata; every other thread's        *)
(* critical section is one step.                                           *)
Unlocked == wpc \in {"idle", "tx", "sent", "refused"}

Upset == upsets < Upsets /\ upsets' = upsets + 1

-----------------------------------------------------------------------------
(* The power save queues.                                                  *)

Elements(s) == {s[i] : i \in DOMAIN s}
QueuedFor(q, d) == UNION {Elements(q.delayed[d][f]) \cup Elements(q.suppressed[d][f]) : f \in Fifos}
PsqCount(q, d) == Cardinality(QueuedFor(q, d))

(* brcmf_fws_flow_control_check                                            *)
FlowCheck_Sticky(stop, n) == stop \/ n >= Hi
FlowCheck(stop, n) == IF stop THEN n > Low ELSE n >= Hi

(* A suppressed packet is put where its free-running count belongs.        *)
Insert_AtTail(s, p) == Append(s, p)
Insert(s, p) ==
  LET n == Cardinality({i \in DOMAIN s : s[i] < p})
  IN  SubSeq(s, 1, n) \o << p >> \o SubSeq(s, n + 1, Len(s))

(* brcmf_fws_enq of packet p into q, which has room for it.                *)
Enq(q, p, d, f, supp) ==
  LET put == IF supp THEN [q EXCEPT !.suppressed[d][f] = Insert(@, p)]
                     ELSE [q EXCEPT !.delayed[d][f] = Append(@, p)]
  IN  [put EXCEPT !.delay_map = @ \cup {f}, !.enqpkt[f] = @ + 1,
                  !.stop = FlowCheck(@, PsqCount(put, d))]

HasRoom(d) == PsqCount(psq, d) < PsqLen

(* The firmware closed the destination, or a node's interface.             *)
Closed(d) ==
  \/ d # 0 /\ mac[0].closed
  \/ mac[d].closed /\ mac[d].credit = 0 /\ mac[d].packet = 0

(* While a destination is suppressed its new packets wait for the answers  *)
(* to all that are on their way.                                           *)
HoldsNew(m) == m.suppressed /\ m.suppr # 0

Yields(d, f) ==
  /\ mac[d].occupied /\ ~Closed(d)
  /\ \/ psq.suppressed[d][f] # <<>>
     \/ psq.delayed[d][f] # <<>> /\ ~HoldsNew(mac[d])

(* brcmf_fws_deq visits the destinations from deq_node_pos on, up to the   *)
(* first that yields a packet, and a visit ends a suppression that has     *)
(* nothing left to send or to wait for.                                    *)
Visit(f, i) == (deq_node_pos[f] + i) % NDests
Turn(f) == {i \in Dests : Yields(Visit(f, i), f) /\ \A j \in 0 .. i - 1 : ~Yields(Visit(f, j), f)}
Calmed(f, visits) ==
  [d \in Dests |->
    IF /\ \E i \in visits : Visit(f, i) = d
       /\ mac[d].occupied /\ ~Closed(d)
       /\ psq.suppressed[d][f] = <<>> /\ mac[d].suppr = 0
      THEN [mac[d] EXCEPT !.suppressed = FALSE]
      ELSE mac[d]]

(* The packet is one less of those enqueued.                               *)
Deq(q, d, f) ==
  LET got == IF q.suppressed[d][f] # <<>>
               THEN [q EXCEPT !.suppressed[d][f] = Tail(@)]
               ELSE [q EXCEPT !.delayed[d][f] = Tail(@)]
  IN  [got EXCEPT !.enqpkt[f] = @ - 1,
                  !.delay_map = IF q.enqpkt[f] = 1 THEN @ \ {f} ELSE @,
                  !.stop = FlowCheck(@, PsqCount(got, d))]

-----------------------------------------------------------------------------
(* Credits.                                                                *)

(* brcmf_fws_return_credits of one credit: loans are paid back first, to   *)
(* the highest lender.                                                     *)
Lenders(c, f) == {l \in ACs : f \in ACs \ {0} /\ c.borrowed[f][l] > 0}

Return_KeepsLoan(c, f) ==
  [c EXCEPT !.map = @ \cup {f}, !.fifo[f] = @ + 1]
Return(c, f) ==
  IF Lenders(c, f) # {}
    THEN LET l == CHOOSE l \in Lenders(c, f) : \A k \in Lenders(c, f) : k <= l
         IN  [c EXCEPT !.map = @ \cup {f, l}, !.borrowed[f][l] = @ - 1, !.fifo[l] = @ + 1]
    ELSE [c EXCEPT !.map = @ \cup {f}, !.fifo[f] = IF @ < Credits[f] THEN @ + 1 ELSE Credits[f]]

ReturnMany(c, f, n) ==
  LET after[k \in 0 .. n] == IF k = 0 THEN c ELSE Return(after[k - 1], f)
  IN  after[n]

(* brcmf_fws_borrow_credit, from the lowest category that has one.         *)
Solvent(f) == {l \in 0 .. f - 1 : credits.fifo[l] > 0}
Borrow(f) ==
  LET l == CHOOSE l \in Solvent(f) : \A k \in Solvent(f) : l <= k
  IN  [credits EXCEPT !.borrowed[f][l] = @ + 1, !.fifo[l] = @ - 1,
                      !.map = (IF credits.fifo[l] = 1 THEN @ \ {l} ELSE @) \cup {f}]

(* brcmf_fws_schedule_deq: "only schedule dequeue when there are credits   *)
(* for delayed traffic".                                                   *)
Wanted(c, q) == c.map \cap q.delay_map # {}

-----------------------------------------------------------------------------
(* The stack: brcmf_fws_process_skb.                                       *)

(* A packet gets a hanger slot and is queued, if the queue has room; if    *)
(* not, brcmf_fws_process_skb does not look at the error.  For a closed    *)
(* destination the lock is let go before the worker is scheduled, to tell  *)
(* the device of the traffic (brcmf_fws_tim_update).                       *)
ProcessSkb(d, f) ==
  /\ spc = "idle" /\ Unlocked /\ sent < NPackets
  /\ mac[d].occupied /\ ~psq.stop
  /\ \E s \in {s \in Slots : hanger[s] = NoPkt} :
       /\ hanger' = [hanger EXCEPT ![s] = sent + 1]
       /\ pk' = [pk EXCEPT ![sent + 1] =
                  [mac |-> d, fifo |-> f, slot |-> s, supp |-> FALSE, req |-> FALSE]]
  /\ sent' = sent + 1
  /\ psq' = IF HasRoom(d) THEN Enq(psq, sent + 1, d, f, FALSE) ELSE psq
  /\ \/ /\ mac[d].closed /\ spc' = "schedule"
        /\ UNCHANGED fws_dequeue_work
     \/ /\ fws_dequeue_work' = (fws_dequeue_work \/ Wanted(credits, psq'))
        /\ UNCHANGED spc
  /\ UNCHANGED << marked, mac, credits, deq_node_pos, worker, bus_flow_blocked, signal, bus, device, fin >>

SkbSchedule ==
  /\ spc = "schedule" /\ Unlocked
  /\ spc' = "idle"
  /\ fws_dequeue_work' = (fws_dequeue_work \/ Wanted(credits, psq))
  /\ UNCHANGED << pk, sent, hang, psq, mac, credits, deq_node_pos, worker, bus_flow_blocked, signal, bus, device, fin >>

-----------------------------------------------------------------------------
(* The worker: brcmf_fws_dequeue_worker and brcmf_fws_commit_skb.          *)

StartWorker ==
  /\ wpc = "idle" /\ fws_dequeue_work
  /\ fws_dequeue_work' = FALSE
  /\ IF bus_flow_blocked THEN UNCHANGED << wpc, wfifo >> ELSE wpc' = "own" /\ wfifo' = BCMC
  /\ UNCHANGED << pk, sent, hang, psq, mac, credits, deq_node_pos, wphase, hand, bus_flow_blocked, spc, signal, bus, device, fin >>

(* On to the next lower FIFO, unless the bus is blocked.                   *)
NextFifo ==
  IF wfifo = 0 \/ bus_flow_blocked
    THEN wpc' = "idle" /\ UNCHANGED wfifo
    ELSE wpc' = "own" /\ wfifo' = wfifo - 1

(* A category other than the lowest borrows once its credits are used up.  *)
MayBorrow(c) == wfifo \in ACs \ {0} /\ c.fifo[wfifo] = 0 /\ ~bus_flow_blocked
AfterOwn(c) == IF MayBorrow(c) THEN wpc' = "borrow" /\ UNCHANGED wfifo ELSE NextFifo

(* A packet is dequeued and committed: it is in transit from now on; a     *)
(* request of a closed destination is used up.                             *)
InTransit(m) == [m EXCEPT !.transit = @ + 1, !.suppr = IF m.suppressed THEN @ + 1 ELSE @]
UseRequest(m) ==
  IF m.credit > 0 THEN [m EXCEPT !.credit = @ - 1]
  ELSE IF m.packet > 0 THEN [m EXCEPT !.packet = @ - 1] ELSE m

HeadOf(d, f) == Head(psq.suppressed[d][f] \o psq.delayed[d][f])

Commit(i, phase) ==
  LET f == wfifo
      d == Visit(f, i)
      p == HeadOf(d, f)
      m == Calmed(f, 0 .. i)
  IN  /\ psq' = Deq(psq, d, f)
      /\ mac' = [m EXCEPT ![d] = InTransit(UseRequest(@))]
      /\ pk' = [pk EXCEPT ![p].req = mac[d].credit > 0]
      /\ hand' = p /\ wphase' = phase /\ wpc' = "tx"
      /\ deq_node_pos' = [deq_node_pos EXCEPT ![f] = (d + 1) % NDests]
      /\ UNCHANGED << sent, hang, fws_dequeue_work, wfifo, bus_flow_blocked, spc, signal, bus, device, fin >>

HasCredit(f) == credits.fifo[f] # 0

SendOwn ==
  /\ wpc = "own" /\ HasCredit(wfifo)
  /\ \E i \in Turn(wfifo) : Commit(i, "own")
  /\ credits' = [credits EXCEPT !.fifo[wfifo] = @ - 1]

OwnDone ==
  /\ wpc = "own"
  /\ \/ ~HasCredit(wfifo) /\ UNCHANGED mac
     \/ HasCredit(wfifo) /\ Turn(wfifo) = {} /\ mac' = Calmed(wfifo, Dests)
  /\ AfterOwn(credits)
  /\ UNCHANGED << pk, sent, hang, psq, credits, deq_node_pos, fws_dequeue_work, wphase, hand, bus_flow_blocked, spc, signal, bus, device, fin >>

SendBorrowed ==
  /\ wpc = "borrow" /\ Solvent(wfifo) # {}
  /\ \E i \in Turn(wfifo) : Commit(i, "borrow")
  /\ credits' = Borrow(wfifo)

(* No lender: the category is struck from the map.  Nothing to send: the   *)
(* credit just borrowed is returned.                                       *)
BorrowDone ==
  /\ wpc = "borrow"
  /\ \/ /\ Solvent(wfifo) = {}
        /\ credits' = [credits EXCEPT !.map = @ \ {wfifo}]
        /\ UNCHANGED mac
     \/ /\ Solvent(wfifo) # {} /\ Turn(wfifo) = {}
        /\ credits' = Return(Borrow(wfifo), wfifo)
        /\ mac' = Calmed(wfifo, Dests)
  /\ NextFifo
  /\ UNCHANGED << pk, sent, hang, psq, deq_node_pos, fws_dequeue_work, wphase, hand, bus_flow_blocked, spc, signal, bus, device, fin >>

(* txdata, without the lock: the bus takes the packet, and may report that *)
(* it is blocked from now on; or it refuses.                               *)
TxData ==
  /\ wpc = "tx"
  /\ bus' = bus \cup {hand}
  /\ bus_flow_blocked' \in {bus_flow_blocked, TRUE}
  /\ wpc' = "sent"
  /\ UNCHANGED << pk, sent, hang, psq, mac, credits, deq_node_pos, fws_dequeue_work, wfifo, wphase, hand, spc, signal, device, fin >>

TxRefused ==
  /\ BusFails /\ Upset /\ wpc = "tx"
  /\ wpc' = "refused"
  /\ UNCHANGED << pk, sent, hang, psq, mac, credits, deq_node_pos, fws_dequeue_work, wfifo, wphase, hand, bus_flow_blocked, spc, signal, bus, dev, owed, fin >>

Relock ==
  /\ wpc = "sent"
  /\ hand' = NoPkt
  /\ IF ~bus_flow_blocked THEN wpc' = wphase /\ UNCHANGED wfifo ELSE wpc' = "idle" /\ UNCHANGED wfifo
  /\ UNCHANGED << pk, sent, hang, psq, mac, credits, deq_node_pos, fws_dequeue_work, wphase, bus_flow_blocked, spc, signal, bus, device, fin >>

Untransit(m) == [m EXCEPT !.transit = @ - 1, !.suppr = IF m.suppressed THEN @ - 1 ELSE @]

(* brcmf_fws_macdesc_return_req_credit                                     *)
ReturnRequest(m, p) == IF pk[p].req /\ m.closed THEN [m EXCEPT !.credit = @ + 1] ELSE m

(* brcmf_fws_rollback_toq: back to the head of the queue it came from.     *)
PutBack_Lost(q, p) == q
PutBack(q, p) ==
  IF pk[p].supp THEN [q EXCEPT !.suppressed[pk[p].mac][pk[p].fifo] = << p >> \o @]
                ELSE [q EXCEPT !.delayed[pk[p].mac][pk[p].fifo] = << p >> \o @]

Rollback ==
  /\ wpc = "refused" /\ mac[pk[hand].mac].occupied /\ HasRoom(pk[hand].mac)
  /\ psq' = PutBack(psq, hand)
  /\ mac' = [mac EXCEPT ![pk[hand].mac] = ReturnRequest(Untransit(@), hand)]
  /\ credits' = Return(credits, pk[hand].fifo)
  /\ hand' = NoPkt
  /\ IF wphase = "own" THEN AfterOwn(credits') ELSE NextFifo
  /\ UNCHANGED << pk, sent, hang, deq_node_pos, fws_dequeue_work, wphase, bus_flow_blocked, spc, signal, bus, device, fin >>

-----------------------------------------------------------------------------
(* brcmf_fws_txs_process.                                                  *)

Answered_Once(m) == [m EXCEPT !.transit = @ - 1]
Answered(m) ==
  [m EXCEPT !.transit = @ - 1,
            !.suppr = IF m.suppressed /\ @ # 0 THEN @ - 1 ELSE @]

(* The packet leaves its slot and is finalised.                            *)
Tossed(p) ==
  /\ hanger' = [hanger EXCEPT ![pk[p].slot] = NoPkt]
  /\ marked' = marked \ {pk[p].slot}
  /\ fin' = [fin EXCEPT ![p] = @ + 1]

(* Its credit is returned, if this message is what returns it.             *)
CreditOf_Always(p, tossed) == TRUE
CreditOf(p, tossed) == ~Explicit \/ pk[p].req \/ tossed
PickUp(p, tossed) ==
  IF CreditOf(p, tossed)
    THEN /\ credits' = Return(credits, pk[p].fifo)
         /\ fws_dequeue_work' = (fws_dequeue_work \/ Wanted(credits', psq))
    ELSE UNCHANGED << credits, fws_dequeue_work >>

(* The rollback failed, the entry being gone or its queue full: the packet *)
(* is tossed, which counts it out of transit once more.                    *)
RollbackFails ==
  /\ wpc = "refused" /\ ~(mac[pk[hand].mac].occupied /\ HasRoom(pk[hand].mac))
  /\ mac' = [mac EXCEPT ![pk[hand].mac] = ReturnRequest(Answered(Untransit(@)), hand)]
  /\ PickUp(hand, TRUE)
  /\ Tossed(hand)
  /\ hand' = NoPkt
  /\ IF wphase = "own" THEN AfterOwn(credits') ELSE NextFifo
  /\ UNCHANGED << pk, sent, psq, deq_node_pos, wphase, bus_flow_blocked, spc, signal, bus, device >>

(* A status that lets the packet go, from the device ...                   *)
TxStatus(p) ==
  /\ rslot = NoSlot /\ Unlocked
  /\ p \in dev
  /\ dev' = dev \ {p}
  /\ mac' = [mac EXCEPT ![pk[p].mac] = ReturnRequest(Answered(@), p)]
  /\ PickUp(p, FALSE)
  /\ Tossed(p)
  /\ UNCHANGED << pk, sent, psq, deq_node_pos, worker, bus_flow_blocked, spc, signal, bus, owed, upsets >>

(* ... or a status that the firmware suppressed the packet, which it does  *)
(* for a closed destination or interface.  The credit is picked up, and    *)
(* the worker scheduled, before the packet is queued.                      *)
Suppressed(m) == IF m.suppressed THEN m ELSE [m EXCEPT !.suppressed = TRUE, !.suppr = m.transit]

TxSuppressed(p) ==
  /\ rslot = NoSlot /\ Unlocked
  /\ p \in dev /\ (mac[pk[p].mac].closed \/ mac[0].closed)
  /\ HasRoom(pk[p].mac)
  /\ dev' = dev \ {p}
  /\ mac' = [mac EXCEPT ![pk[p].mac] = Suppressed(ReturnRequest(Answered(@), p))]
  /\ PickUp(p, FALSE)
  /\ psq' = Enq(psq, p, pk[p].mac, pk[p].fifo, TRUE)
  /\ pk' = [pk EXCEPT ![p].supp = TRUE]
  /\ \/ marked' = marked \cup {pk[p].slot} /\ UNCHANGED rslot
     \/ mac[pk[p].mac].closed /\ rslot' = pk[p].slot /\ UNCHANGED marked
  /\ UNCHANGED << sent, hanger, deq_node_pos, worker, bus_flow_blocked, spc, rpc, bus, owed, upsets, fin >>

(* The lock was let go for a traffic indication; only now the slot is      *)
(* marked.                                                                 *)
MarkSuppressed ==
  /\ rslot # NoSlot /\ Unlocked
  /\ marked' = IF hanger[rslot] = NoPkt THEN marked ELSE marked \cup {rslot}
  /\ rslot' = NoSlot
  /\ UNCHANGED << pk, sent, hanger, psq, mac, credits, deq_node_pos, fws_dequeue_work, worker, bus_flow_blocked, spc, rpc, bus, device, fin >>

(* "suppress q is full drop this packet"                                   *)
TxSuppressedFull(p) ==
  /\ rslot = NoSlot /\ Unlocked
  /\ p \in dev /\ (mac[pk[p].mac].closed \/ mac[0].closed)
  /\ ~HasRoom(pk[p].mac)
  /\ dev' = dev \ {p}
  /\ mac' = [mac EXCEPT ![pk[p].mac] = Suppressed(ReturnRequest(Answered(@), p))]
  /\ PickUp(p, FALSE)
  /\ Tossed(p)
  /\ UNCHANGED << pk, sent, psq, deq_node_pos, worker, bus_flow_blocked, spc, signal, bus, owed, upsets >>

-----------------------------------------------------------------------------
(* The other signals of the device.                                        *)

(* A destination closes or opens, which wipes old requests (MAC_OPEN,      *)
(* MAC_CLOSE; of entry 0, INTERFACE_OPEN and INTERFACE_CLOSE).             *)
SetState(d, closed) ==
  /\ rslot = NoSlot /\ Unlocked /\ mac[d].occupied
  /\ mac' = [mac EXCEPT ![d].closed = closed, ![d].credit = 0, ![d].packet = 0]
  /\ rpc' = IF closed THEN rpc ELSE "schedule"
  /\ UNCHANGED << pk, sent, hang, psq, credits, deq_node_pos, fws_dequeue_work, worker, bus_flow_blocked, spc, rslot, bus, dev, owed, fin >>

MacClose(d) == ~mac[d].closed /\ Upset /\ SetState(d, TRUE)
MacOpen(d) == mac[d].closed /\ SetState(d, FALSE) /\ UNCHANGED upsets

(* It asks for packets of a closed node, with a credit of their own or     *)
(* without (MAC_REQUEST_CREDIT, MAC_REQUEST_PACKET).                       *)
MacRequest(d) ==
  /\ Upset
  /\ rslot = NoSlot /\ Unlocked /\ mac[d].occupied
  /\ d # 0 /\ mac[d].closed
  /\ \E n \in 1 .. MaxRequest :
       \/ mac' = [mac EXCEPT ![d].credit = n]
       \/ mac' = [mac EXCEPT ![d].packet = n]
  /\ rpc' = "schedule"
  /\ UNCHANGED << pk, sent, hang, psq, credits, deq_node_pos, fws_dequeue_work, worker, bus_flow_blocked, spc, rslot, bus, dev, owed, fin >>

(* FIFO_CREDITBACK                                                         *)
CreditBack(f) ==
  /\ Explicit /\ rslot = NoSlot /\ Unlocked
  /\ \E n \in 1 .. owed[f] :
       /\ owed' = [owed EXCEPT ![f] = @ - n]
       /\ credits' = ReturnMany(credits, f, n)
  /\ rpc' = "schedule"
  /\ UNCHANGED << pk, sent, hang, psq, mac, deq_node_pos, fws_dequeue_work, worker, bus_flow_blocked, spc, rslot, bus, dev, upsets, fin >>

(* At the end of a frame's signals the worker is scheduled, without lock.  *)
RxSchedule ==
  /\ rpc = "schedule" /\ rslot = NoSlot
  /\ rpc' = "idle"
  /\ fws_dequeue_work' = (fws_dequeue_work \/ Wanted(credits, psq))
  /\ UNCHANGED << pk, sent, hang, psq, mac, credits, deq_node_pos, worker, bus_flow_blocked, spc, rslot, bus, device, fin >>

(* A node is deleted: its queue is flushed, packet by packet.  What the    *)
(* counters say of the flushed packets is left alone.                      *)
Flushed(q, d) ==
  [q EXCEPT !.delayed[d] = [f \in Fifos |-> <<>>], !.suppressed[d] = [f \in Fifos |-> <<>>],
            !.stop = IF QueuedFor(q, d) = {} THEN @ ELSE FlowCheck(@, 0)]

MacdescDel(d) ==
  /\ Deletes /\ Upset /\ rslot = NoSlot /\ Unlocked /\ d # 0 /\ mac[d].occupied
  /\ LET gone == QueuedFor(psq, d)
         slots == {pk[p].slot : p \in gone}
     IN  /\ hanger' = [s \in Slots |-> IF s \in slots THEN NoPkt ELSE hanger[s]]
         /\ marked' = marked \ slots
         /\ fin' = [p \in Packets |-> IF p \in gone THEN fin[p] + 1 ELSE fin[p]]
  /\ psq' = Flushed(psq, d)
  /\ mac' = [mac EXCEPT ![d].occupied = FALSE, ![d].closed = TRUE, ![d].credit = 0, ![d].packet = 0]
  /\ UNCHANGED << pk, sent, credits, deq_node_pos, fws_dequeue_work, worker, bus_flow_blocked, spc, signal, bus, dev, owed >>

(* It is added again; what it has in transit is remembered.                *)
MacdescAdd(d) ==
  /\ rslot = NoSlot /\ Unlocked /\ ~mac[d].occupied
  /\ mac' = [mac EXCEPT ![d].occupied = TRUE, ![d].closed = FALSE, ![d].credit = 0, ![d].packet = 0]
  /\ UNCHANGED << pk, sent, hang, psq, credits, deq_node_pos, fws_dequeue_work, worker, bus_flow_blocked, spc, signal, bus, device, fin >>

-----------------------------------------------------------------------------
(* The bus.                                                                *)

(* A packet was transmitted: the device has it, and in explicit mode owes  *)
(* a credit for it.                                                        *)
BusDone(p) ==
  /\ p \in bus
  /\ bus' = bus \ {p} /\ dev' = dev \cup {p}
  /\ owed' = IF Explicit /\ ~pk[p].req THEN [owed EXCEPT ![pk[p].fifo] = @ + 1] ELSE owed
  /\ UNCHANGED << pk, sent, hang, psq, mac, credits, deq_node_pos, fws_dequeue_work, worker, bus_flow_blocked, spc, signal, upsets, fin >>

(* brcmf_fws_bustxcomplete without success.                                *)
BusFailed(p) ==
  /\ BusFails /\ Upset /\ p \in bus /\ Unlocked
  /\ bus' = bus \ {p}
  /\ mac' = [mac EXCEPT ![pk[p].mac] = ReturnRequest(Answered(@), p)]
  /\ PickUp(p, TRUE)
  /\ Tossed(p)
  /\ UNCHANGED << pk, sent, psq, deq_node_pos, worker, bus_flow_blocked, spc, signal, dev, owed >>

(* brcmf_fws_bus_blocked(false)                                            *)
Unblock_Unscheduled == UNCHANGED fws_dequeue_work
Unblocked == fws_dequeue_work' = (fws_dequeue_work \/ Wanted(credits, psq))
BusUnblocked ==
  /\ bus_flow_blocked
  /\ bus_flow_blocked' = FALSE
  /\ Unblocked
  /\ UNCHANGED << pk, sent, hang, psq, mac, credits, deq_node_pos, worker, spc, signal, bus, device, fin >>

-----------------------------------------------------------------------------
StackStep == SkbSchedule \/ \E t \in Traffic : ProcessSkb(t[1], t[2])
WorkerStep ==
  \/ StartWorker \/ SendOwn \/ OwnDone \/ SendBorrowed \/ BorrowDone
  \/ TxData \/ TxRefused \/ Relock \/ Rollback \/ RollbackFails
SignalStep ==
  \/ \E p \in Packets : TxStatus(p) \/ TxSuppressed(p) \/ TxSuppressedFull(p)
  \/ \E d \in Dests : MacClose(d) \/ MacOpen(d) \/ MacRequest(d) \/ MacdescDel(d) \/ MacdescAdd(d)
  \/ \E f \in Fifos : CreditBack(f)
  \/ MarkSuppressed \/ RxSchedule
BusStep == BusUnblocked \/ \E p \in Packets : BusDone(p) \/ BusFailed(p)

Next == StackStep \/ WorkerStep \/ SignalStep \/ BusStep

Spec == Init /\ [][Next]_vars

(* The threads run on, the bus transmits and unblocks, and the device      *)
(* answers every packet and opens what it closed.                          *)
Fairness ==
  /\ WF_vars(SkbSchedule) /\ WF_vars(WorkerStep)
  /\ WF_vars(MarkSuppressed) /\ WF_vars(RxSchedule) /\ WF_vars(BusUnblocked)
  /\ \A p \in Packets : WF_vars(BusDone(p)) /\ SF_vars(TxStatus(p))
  /\ \A d \in Dests : WF_vars(MacOpen(d))
  /\ \A f \in Fifos : WF_vars(CreditBack(f))

FairSpec == Spec /\ Fairness

-----------------------------------------------------------------------------
QueuedAt(d, f) == Elements(psq.delayed[d][f]) \cup Elements(psq.suppressed[d][f])
InHand == IF wpc \in {"tx", "refused"} THEN {hand} ELSE {}
Transit == InHand \cup bus \cup dev

TypeOK ==
  /\ sent \in 0 .. NPackets
  /\ \A p \in Packets : pk[p].mac \in Dests /\ pk[p].fifo \in Fifos /\ pk[p].slot \in Slots \cup {NoSlot}
  /\ hanger \in [Slots -> Packets \cup {NoPkt}] /\ marked \subseteq Slots
  /\ psq.delay_map \subseteq Fifos /\ psq.enqpkt \in [Fifos -> Int] /\ psq.stop \in BOOLEAN
  /\ \A d \in Dests : QueuedFor(psq, d) \subseteq Packets /\ PsqCount(psq, d) <= PsqLen
  /\ credits.fifo \in [Fifos -> Int] /\ credits.map \subseteq Fifos
  /\ credits.borrowed \in [ACs -> [ACs -> Nat]]
  /\ deq_node_pos \in [Fifos -> Dests]
  /\ fws_dequeue_work \in BOOLEAN /\ bus_flow_blocked \in BOOLEAN
  /\ wpc \in {"idle", "own", "borrow", "tx", "sent", "refused"} /\ wfifo \in Fifos
  /\ wphase \in {"own", "borrow"} /\ hand \in Packets \cup {NoPkt}
  /\ bus \subseteq Packets /\ dev \subseteq Packets
  /\ owed \in [Fifos -> Nat] /\ upsets \in 0 .. Upsets

(* A packet accepted into the hanger waits in one queue, is on its way, or *)
(* was finalised, once; and it has its slot until then.                    *)
PacketsConserved ==
  \A p \in 1 .. sent :
    /\ Cardinality({q \in Dests \X Fifos : p \in QueuedAt(q[1], q[2])})
         + (IF p \in InHand THEN 1 ELSE 0) + (IF p \in bus THEN 1 ELSE 0)
         + (IF p \in dev THEN 1 ELSE 0) + fin[p] = 1
    /\ fin[p] = 0 <=> hanger[pk[p].slot] = p

(* No credit is lost or made up: what a FIFO has, has lent less what it    *)
(* borrowed, and what its packets on their way hold, is what the device    *)
(* gave it; so a category never sends on more than it has or borrows.      *)
Sum(g) == LET s[n \in 0 .. NAC] == IF n = 0 THEN 0 ELSE s[n - 1] + g[n - 1] IN s[NAC]
Lent(f) == IF f \in ACs THEN Sum([b \in ACs |-> credits.borrowed[b][f]]) ELSE 0
Loans(f) == IF f \in ACs THEN Sum(credits.borrowed[f]) ELSE 0
Held(f) ==
  Cardinality({p \in Transit : pk[p].fifo = f /\ (~Explicit \/ pk[p].req \/ p \notin dev)}) + owed[f]

CreditBalance ==
  \A f \in Fifos :
    /\ credits.fifo[f] + Lent(f) - Loans(f) + Held(f) = Credits[f]
    /\ credits.fifo[f] >= 0 /\ Loans(f) <= Held(f)

(* transit_count is "packet in transit to firmware" and, while a           *)
(* destination is suppressed, suppr_transit_count counts the same packets; *)
(* its new packets wait until it is zero.  fifo_enqpkt is the "total       *)
(* enqueued packet count" of a FIFO, and its bit in fifo_delay_map says    *)
(* that it is not zero.                                                    *)
CountsExact ==
  /\ \A d \in Dests :
       /\ mac[d].transit = Cardinality({p \in Transit : pk[p].mac = d})
       /\ mac[d].suppressed => mac[d].suppr = mac[d].transit
  /\ \A f \in Fifos :
       /\ psq.enqpkt[f] = Cardinality(UNION {QueuedAt(d, f) : d \in Dests})
       /\ f \in psq.delay_map <=> psq.enqpkt[f] # 0

(* "Fix out of order delivery of frames": a packet handed to the bus       *)
(* is the earliest queued of its destination and FIFO, and a packet not    *)
(* sent before waits while a suppressed destination still awaits answers.  *)
Dequeues == hand = NoPkt /\ hand' # NoPkt
InTurn(p, d, f) ==
  /\ \A q \in QueuedAt(d, f) : p <= q
  /\ mac[d].suppressed /\ ~pk[p].supp => \A q \in Transit : pk[q].mac # d
EarliestFirst == [][Dequeues => InTurn(hand', pk[hand'].mac, pk[hand'].fifo)]_vars

(* The network queue is stopped only while some power save queue is above  *)
(* the low water mark, so that a packet leaving it will start it again.    *)
StopHasAReason == psq.stop => \E d \in Dests : PsqCount(psq, d) > Low

(* Every packet accepted is eventually finalised.                          *)
EventuallyFinalised == \A p \in Packets : (p <= sent) ~> (fin[p] = 1)
=============================================================================
