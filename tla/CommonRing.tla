----------------------------- MODULE CommonRing -----------------------------
(***************************************************************************)
(* A host-to-device message ring: commonring.c with the callbacks pcie.c   *)
(* registers for it and the way msgbuf.c drives it.                        *)
(*                                                                         *)
(* The host writes slots ahead of a private write pointer, publishes them  *)
(* by storing that pointer in the device's memory, and judges the free     *)
(* space by a cached copy of the device's read pointer that it refreshes   *)
(* only when the ring looks full.  Callers hold the ring's lock (the       *)
(* RX-post ring has one caller, the interrupt thread), so a transaction of *)
(* the host is not interleaved with another one; it is interleaved with    *)
(* the device at every step, and with the suspend code that takes the bus  *)
(* down.                                                                   *)
(***************************************************************************)
EXTENDS RingIndex

CONSTANTS MaxBatch,   \* largest batch reserve_for_write_multiple is asked for
          Suspends    \* whether the bus goes down and up again

ASSUME BatchAssumption == MaxBatch \in Nat \ {0}
ASSUME StaleAssumption == Stale \notin Items
ASSUME SuspendsAssumption == Suspends \in BOOLEAN

VARIABLES r_ptr,      \* the host's cached copy of the device's read pointer
          w_ptr,      \* the host's write pointer, ahead of what is published
          was_full,   \* the producer met a full ring
          pc,         \* "idle", "txflow" (TX batch) or "post" (a submission)
          todo,       \* slots reserved and not filled yet, just before w_ptr
          wrote,      \* the submission filled at least one slot
          up,         \* devinfo->state is BRCMFMAC_PCIE_STATE_UP
          slots,      \* the ring's memory
          tcm_r,      \* the device's read index
          tcm_w       \* the write index the device sees

vars == << r_ptr, w_ptr, was_full, pc, todo, wrote, up, slots, tcm_r, tcm_w >>
host == << r_ptr, w_ptr, was_full, pc, todo, wrote >>

-----------------------------------------------------------------------------
(* Operators named X_Y are faulty variants of X that the properties are    *)
(* tried against; no action of the specification uses them.                *)

Available_NoWrap(r) == Depth - w_ptr + r

Available(r) == IF r <= w_ptr THEN Depth - w_ptr + r ELSE r - w_ptr

RefreshedR_WriteIndex == IF up THEN tcm_w ELSE r_ptr

(* brcmf_pcie_ring_mb_update_rptr does nothing while the bus is down. *)
RefreshedR == IF up THEN tcm_r ELSE r_ptr

(* The two tries of every reservation: with the cached read pointer, then  *)
(* with a refreshed one.                                                   *)
RetriedR == IF Available(r_ptr) > 1 THEN r_ptr ELSE RefreshedR

-----------------------------------------------------------------------------
Init ==
  /\ r_ptr = 0 /\ w_ptr = 0 /\ was_full = FALSE
  /\ pc = "idle" /\ todo = 0 /\ wrote = FALSE
  /\ up = TRUE
  /\ slots = [i \in Index |-> Stale]
  /\ tcm_r = 0 /\ tcm_w = 0

(* brcmf_commonring_write_available: after the ring was full the producer  *)
(* waits until more than an eighth of it is free.                          *)
Roomy(r) == Available(r) > 1 /\ (was_full => Available(r) > Depth \div 8)

WriteAvailable ==
  /\ pc = "idle"
  /\ LET r == IF Roomy(r_ptr) THEN r_ptr ELSE RefreshedR
     IN  /\ r_ptr' = r
         /\ \/ /\ Roomy(r)
               /\ was_full' = FALSE
               /\ pc' = "txflow"
            \/ /\ ~Roomy(r)
               /\ was_full' = (was_full \/ Available(r) <= 1)
               /\ pc' = "idle"
  /\ UNCHANGED << w_ptr, todo, wrote, up, slots, tcm_r, tcm_w >>

Granted_LastSlot(n, r) ==
  LET wish == IF n < Available(r) THEN n ELSE Available(r)
  IN  IF wish + w_ptr > Depth THEN Depth - w_ptr ELSE wish

(* How many slots reserve_for_write_multiple grants: never the last free   *)
(* slot, and never past the end of the buffer.                             *)
Granted(n, r) ==
  LET wish == IF n < Available(r) - 1 THEN n ELSE Available(r) - 1
  IN  IF wish + w_ptr > Depth THEN Depth - w_ptr ELSE wish

Reserve(n, next) ==
  /\ todo = 0
  /\ r_ptr' = RetriedR
  /\ IF Available(RetriedR) > 1
       THEN /\ todo' = Granted(n, RetriedR)
            /\ w_ptr' = Advance(w_ptr, Granted(n, RetriedR))
            /\ pc' = next
            /\ UNCHANGED was_full
       ELSE /\ was_full' = TRUE
            /\ UNCHANGED << w_ptr, todo, pc >>
  /\ UNCHANGED << wrote, up, slots, tcm_r, tcm_w >>

(* brcmf_msgbuf_txflow reserves one slot per packet of a batch.  (When it  *)
(* is refused it publishes what it has and stops: WriteComplete.)          *)
ReserveForWrite == pc = "txflow" /\ Reserve(1, "txflow")

(* A control message (one slot) or a batch of receive buffers.  (When it   *)
(* is refused the caller gives up.)                                        *)
ReserveForWriteMultiple ==
  pc = "idle" /\ \E n \in 1 .. MaxBatch : Reserve(n, "post")

(* The caller fills the first slot it has not filled yet. *)
Fill ==
  /\ todo > 0
  /\ \E item \in Items :
       slots' = [slots EXCEPT ![Advance(w_ptr, Depth - todo)] = item]
  /\ todo' = todo - 1
  /\ wrote' = TRUE
  /\ UNCHANGED << r_ptr, w_ptr, was_full, pc, up, tcm_r, tcm_w >>

CancelSlots_OffByOne(n) == w_ptr' = Advance(w_ptr, Depth - n + 1)

(* brcmf_commonring_write_cancel(n) *)
CancelSlots(n) == w_ptr' = IF w_ptr = 0 THEN Depth - n ELSE w_ptr - n

(* rxbuf_data_post, rxbuf_ctrl_post: no buffer for the next slot, so the   *)
(* slots not filled are handed back; with none filled nothing is published *)
WriteCancel ==
  /\ pc = "post" /\ todo > 0
  /\ CancelSlots(todo)
  /\ todo' = 0
  /\ pc' = IF wrote THEN "post" ELSE "idle"
  /\ UNCHANGED << r_ptr, was_full, wrote, up, slots, tcm_r, tcm_w >>

WriteComplete_NoFinalFlush ==
  /\ pc # "idle" /\ todo = 0
  /\ pc' \in IF pc = "txflow" THEN {"txflow", "idle"} ELSE {"idle"}
  /\ tcm_w' = IF up /\ (pc = "txflow" => pc' # "idle") THEN w_ptr ELSE tcm_w
  /\ wrote' = FALSE
  /\ UNCHANGED << r_ptr, w_ptr, was_full, todo, up, slots, tcm_r >>

(* brcmf_commonring_write_complete.  With the bus down the caller gets     *)
(* -EIO and the device keeps the old index, but w_ptr is not taken back:   *)
(* the next submission publishes these slots too.                          *)
WriteComplete ==
  /\ pc # "idle" /\ todo = 0
  /\ tcm_w' = IF up THEN w_ptr ELSE tcm_w
  /\ pc' \in IF pc = "txflow" THEN {"txflow", "idle"} ELSE {"idle"}
  /\ wrote' = FALSE
  /\ UNCHANGED << r_ptr, w_ptr, was_full, todo, up, slots, tcm_r >>

(* The device handles the oldest message it can see and frees its slot. *)
DeviceTake ==
  /\ tcm_r # tcm_w
  /\ slots' = [slots EXCEPT ![tcm_r] = Stale]
  /\ tcm_r' = Advance(tcm_r, 1)
  /\ UNCHANGED << host, up, tcm_w >>

(* Suspend and hot resume set devinfo->state without taking any ring lock. *)
BusDown == Suspends /\ up /\ up' = FALSE /\ UNCHANGED << host, slots, tcm_r, tcm_w >>
BusUp == ~up /\ up' = TRUE /\ UNCHANGED << host, slots, tcm_r, tcm_w >>

Next == \/ WriteAvailable \/ ReserveForWrite \/ ReserveForWriteMultiple
        \/ Fill \/ WriteCancel \/ WriteComplete
        \/ DeviceTake \/ BusDown \/ BusUp

Spec == Init /\ [][Next]_vars

-----------------------------------------------------------------------------
(* The types of the variables; every pointer of the ring is a slot of it.  *)
PointersOK ==
  /\ r_ptr \in Index /\ w_ptr \in Index
  /\ tcm_r \in Index /\ tcm_w \in Index
  /\ todo \in 0 .. Depth - 1

FlagsOK ==
  /\ was_full \in BOOLEAN /\ up \in BOOLEAN /\ wrote \in BOOLEAN
  /\ pc \in {"idle", "txflow", "post"}

TypeOK == PointersOK /\ FlagsOK /\ slots \in [Index -> Items \cup {Stale}]

(* Going round the ring from the host's stale read pointer one meets the   *)
(* device's read index, then the published write index, then the host's    *)
(* write pointer: the free space the host computes from a stale pointer is *)
(* never more than there is, however long ago it was refreshed.            *)
PointersInOrder ==
  Span(r_ptr, tcm_r) + Span(tcm_r, tcm_w) + Span(tcm_w, w_ptr)
    = Span(r_ptr, w_ptr)

(* The slots reserved and not filled are the last ones before w_ptr, none  *)
(* of them is published, and they do not go round the end of the buffer    *)
(* (write_cancel subtracts without wrapping).                              *)
TodoUnpublished ==
  /\ todo <= Span(tcm_w, w_ptr)
  /\ w_ptr = 0 \/ todo <= w_ptr

(* Every slot the device may read holds a message: no cancelled batch and  *)
(* no write index published early exposes a slot that was not filled.      *)
UnreadFilled == \A i \in Index : InSpan(i, tcm_r, tcm_w) => slots[i] \in Items

(* Slots filled and not published hold messages as well, the ones an -EIO  *)
(* of write_complete left behind included.                                 *)
PendingFilled ==
  \A i \in Index :
    InSpan(i, tcm_w, w_ptr) /\ Span(tcm_w, i) < Span(tcm_w, w_ptr) - todo
      => slots[i] \in Items

(* The inductive invariant behind the three properties above. *)
IInv == TypeOK /\ PointersInOrder /\ TodoUnpublished /\ UnreadFilled /\ PendingFilled

(* No step of the host changes a slot the device was shown and has not     *)
(* finished with.                                                          *)
PublishedImmutable ==
  [][\A i \in Index :
       InSpan(i, tcm_r, tcm_w) /\ i # tcm_r => slots'[i] = slots[i]]_vars

(* The messages the device can see implement the bounded FIFO: nothing is  *)
(* lost, repeated or reordered between write_complete and the device.      *)
DeviceView == View(slots, tcm_r, tcm_w)

Fifo == INSTANCE RingFifo WITH queue <- DeviceView, Capacity <- Depth - 1

RefinesFifo == Fifo!Spec

(* As long as the bus has stayed up, a producer is refused only while the  *)
(* device has messages left to take: when it has taken all it was shown,   *)
(* the ring accepts a batch again (no slot stays reserved or unpublished   *)
(* between two submissions, and was_full does not outlive its reason).     *)
DrainedRingAccepts ==
  []up => [](pc = "idle" /\ tcm_r = tcm_w => Roomy(RefreshedR))
=============================================================================
