--------------------------- MODULE CompletionRing ---------------------------
(***************************************************************************)
(* A device-to-host message ring: the reading half of commonring.c,        *)
(* brcmf_msgbuf_process_rx that drives it, and the interrupt path of       *)
(* pcie.c that starts it.  The device posts a message, stores its write    *)
(* index and rings the doorbell; the hard interrupt handler masks the      *)
(* interrupt and wakes a thread, which clears the doorbell, drains the     *)
(* ring and unmasks.  The device may act between any two steps.            *)
(***************************************************************************)
EXTENDS RingIndex

CONSTANTS Threshold,  \* BRCMF_MSGBUF_UPDATE_RX_PTR_THRS
          Suspends    \* whether the bus goes down and up again

ASSUME ThresholdAssumption == Threshold \in Nat \ {0}
ASSUME SuspendsAssumption == Suspends \in BOOLEAN

VARIABLES r_ptr,      \* the host's read pointer
          w_ptr,      \* the host's copy of the device's write index
          tcm_r,      \* the read index the device sees
          tcm_w,      \* the device's write index
          slots,      \* the ring's memory
          count,      \* messages process_rx still has to handle in this round
          processed,  \* messages handled since the last read_complete
          pc,         \* "idle", "thread", "rx", "proc", "done": the handler
          mailboxint, \* the doorbell status bit
          mask,       \* the doorbell interrupt is enabled
          owed,       \* the device posted and did not ring yet
          up          \* devinfo->state is BRCMFMAC_PCIE_STATE_UP

vars == << r_ptr, w_ptr, tcm_r, tcm_w, slots, count, processed, pc,
           mailboxint, mask, owed, up >>
device == << tcm_w, slots, owed >>
irq == << mailboxint, mask >>

(* Operators named X_Y are faulty variants of X that the properties are    *)
(* tried against; no action of the specification uses them.                *)

-----------------------------------------------------------------------------
Init ==
  /\ r_ptr = 0 /\ w_ptr = 0 /\ tcm_r = 0 /\ tcm_w = 0
  /\ slots = [i \in Index |-> Stale]
  /\ count = 0 /\ processed = 0 /\ pc = "idle"
  /\ mailboxint = FALSE /\ mask = TRUE /\ owed = FALSE
  /\ up = TRUE

(* The device posts when its own view of the ring leaves a slot free.      *)
DevicePost ==
  /\ up
  /\ Span(tcm_r, tcm_w) < Depth - 1
  /\ \E item \in Items : slots' = [slots EXCEPT ![tcm_w] = item]
  /\ tcm_w' = Advance(tcm_w, 1)
  /\ owed' = TRUE
  /\ UNCHANGED << r_ptr, w_ptr, tcm_r, count, processed, pc, irq, up >>

DeviceRing ==
  /\ owed
  /\ owed' = FALSE
  /\ mailboxint' = TRUE
  /\ UNCHANGED << r_ptr, w_ptr, tcm_r, tcm_w, slots, count, processed, pc, mask, up >>

(* brcmf_pcie_quick_check_isr: mask the interrupt and wake the thread.     *)
QuickCheckIsr ==
  /\ pc = "idle" /\ mask /\ mailboxint
  /\ mask' = FALSE
  /\ pc' = "thread"
  /\ UNCHANGED << r_ptr, w_ptr, tcm_r, count, processed, mailboxint, device, up >>

(* brcmf_pcie_isr_thread: clear the status that was read, and drain the    *)
(* ring only if the bus is up.                                             *)
IsrThread ==
  /\ pc = "thread"
  /\ mailboxint' = FALSE
  /\ pc' = IF up THEN "rx" ELSE "done"
  /\ UNCHANGED << r_ptr, w_ptr, tcm_r, count, processed, mask, device, up >>

GetReadPtr_ReturnsSlots ==
  /\ pc = "rx"
  /\ w_ptr' = IF up THEN tcm_w ELSE w_ptr
  /\ count' = IF w_ptr' >= r_ptr THEN w_ptr' - r_ptr ELSE Depth - r_ptr
  /\ tcm_r' = Advance(r_ptr, count')
  /\ pc' = IF count' = 0 THEN "done" ELSE "proc"
  /\ UNCHANGED << r_ptr, processed, irq, device, up >>

(* brcmf_commonring_get_read_ptr: the messages up to the end of the buffer *)
(* at most; the write index is not refreshed while the bus is down.        *)
GetReadPtr ==
  /\ pc = "rx"
  /\ w_ptr' = IF up THEN tcm_w ELSE w_ptr
  /\ count' = IF w_ptr' >= r_ptr THEN w_ptr' - r_ptr ELSE Depth - r_ptr
  /\ pc' = IF count' = 0 THEN "done" ELSE "proc"
  /\ UNCHANGED << r_ptr, tcm_r, processed, irq, device, up >>

ReadComplete_NoRest(n, last) ==
  IF n = Threshold
    THEN /\ r_ptr' = Advance(r_ptr, n)
         /\ tcm_r' = IF up THEN r_ptr' ELSE tcm_r
         /\ processed' = 0
    ELSE processed' = n /\ UNCHANGED << r_ptr, tcm_r >>

(* brcmf_commonring_read_complete, when n messages are handled: at the     *)
(* threshold and at the end of a round.  The device learns of the freed    *)
(* slots only if the bus is up.                                            *)
ReadComplete(n, last) ==
  IF n = Threshold \/ last
    THEN /\ r_ptr' = Advance(r_ptr, n)
         /\ tcm_r' = IF up THEN r_ptr' ELSE tcm_r
         /\ processed' = 0
    ELSE processed' = n /\ UNCHANGED << r_ptr, tcm_r >>

EndOfRound_NoAgain(r) == "done"

(* After a round that ended with the last slot the front of the buffer is  *)
(* looked at as well.                                                      *)
EndOfRound(r) == IF r = 0 THEN "rx" ELSE "done"

(* One pass of the loop of brcmf_msgbuf_process_rx: handle the message in  *)
(* the next slot.                                                          *)
ProcessMsgtype ==
  /\ pc = "proc"
  /\ count' = count - 1
  /\ ReadComplete(processed + 1, count = 1)
  /\ pc' = IF count = 1 THEN EndOfRound(r_ptr') ELSE "proc"
  /\ UNCHANGED << w_ptr, irq, device, up >>

(* The end of the interrupt thread: unmask, unless the bus went down.      *)
IsrThreadEnd ==
  /\ pc = "done"
  /\ pc' = "idle"
  /\ mask' = (up \/ mask)
  /\ UNCHANGED << r_ptr, w_ptr, tcm_r, count, processed, mailboxint, device, up >>

(* brcmf_pcie_pm_enter_D3 and the hot resume of brcmf_pcie_pm_leave_D3     *)
(* change devinfo->state whatever the interrupt thread is doing.           *)
BusDown ==
  /\ Suspends /\ up
  /\ up' = FALSE
  /\ UNCHANGED << r_ptr, w_ptr, tcm_r, count, processed, pc, irq, device >>

BusUp ==
  /\ ~up
  /\ up' = TRUE
  /\ mask' = TRUE
  /\ UNCHANGED << r_ptr, w_ptr, tcm_r, count, processed, pc, mailboxint, device >>

Host == QuickCheckIsr \/ IsrThread \/ GetReadPtr \/ ProcessMsgtype \/ IsrThreadEnd

Next == \/ DevicePost \/ DeviceRing
        \/ QuickCheckIsr \/ IsrThread \/ GetReadPtr \/ ProcessMsgtype
        \/ IsrThreadEnd \/ BusDown \/ BusUp

Spec == Init /\ [][Next]_vars

(* An interrupt that is raised is taken, its thread runs to the end, and a *)
(* device that posted rings.                                               *)
FairSpec == Spec /\ WF_vars(Host) /\ WF_vars(DeviceRing)

-----------------------------------------------------------------------------
(* The slot of the next message to handle. *)
HostPos == Advance(r_ptr, processed)

(* The types of the variables; indices stay inside the ring.               *)
TypeOK ==
  /\ {r_ptr, w_ptr, tcm_r, tcm_w} \subseteq Index
  /\ slots \in [Index -> Items \cup {Stale}]
  /\ count \in Index \cup {Depth} /\ processed \in 0 .. Threshold
  /\ pc \in {"idle", "thread", "rx", "proc", "done"}
  /\ {mailboxint, mask, owed, up} \subseteq BOOLEAN

(* The messages posted and not yet handled implement the bounded FIFO:     *)
(* each is handled once, in order, and none is overwritten before that,    *)
(* whatever the device posts while a round is under way and wherever the   *)
(* bus goes down.                                                          *)
Pending == View(slots, HostPos, tcm_w)

Fifo == INSTANCE RingFifo WITH queue <- Pending, Capacity <- Depth - 1

RefinesFifo == Fifo!Spec

(* If the bus stays up the device is never kept from slots the host is     *)
(* done with: in a round fewer than Threshold handled slots are held back, *)
(* whatever the round's length, and between rounds, when no later message  *)
(* may ever come to release them, none.                                    *)
SlotsReturned ==
  []up => [](Span(tcm_r, HostPos) < Threshold /\ (pc # "proc" => tcm_r = HostPos))

(* If the bus stays up, a posted message is handled in the end, although   *)
(* the doorbell is cleared before the ring is read and the ring is read in *)
(* rounds that stop at the end of the buffer.                              *)
MessageHandled ==
  []up => \A p \in Index : (HostPos = p /\ HostPos # tcm_w) ~> HostPos # p
=============================================================================
