------------------------------ MODULE SdioBus ------------------------------
(***************************************************************************)
(* The SDIO bus of sdio.c with the commands of bcdc.c on top of it: the    *)
(* data work item (brcmf_sdio_dpc), which alone talks to the device, the   *)
(* out-of-band interrupt, the senders that fill the transmit queue, and a  *)
(* caller whose commands are sent by the work item and answered through    *)
(* it, each half with a timeout.                                           *)
(*                                                                         *)
(* Every frame sent takes a sequence number, modulo Wrap, and may not pass *)
(* the number the device last offered in the header of a frame it sent.    *)
(* A data packet has no identity here.  Left out: precedences and the      *)
(* device's flow control per precedence, clocks and bus sleep, receive     *)
(* errors and superframes, bus states other than BRCMF_SDIOD_DATA, and the  *)
(* dpc run in the interrupt (sdio_in_isr), which an out-of-band interrupt  *)
(* switches off.                                                           *)
(***************************************************************************)
EXTENDS Integers, Sequences

CONSTANTS Wrap,      \* SDPCM_SEQ_WRAP
          MaxAhead,  \* the farthest offer that is believed, 0x40
          TxctlCredits, \* TXCTL_CREDITS, kept for commands
          Glom,      \* txglomsz, or 1 without glomming
          TXQLEN, TXHI, TXLOW, \* length and marks of the transmit queue
          TxBound, RxBound,    \* frames sent and read in one run of the dpc
          Window,    \* frames the device has room for
          MaxFifo,   \* frames the device has ready
          MaxCmds,   \* bound on the commands
          MaxFrames, \* bound on the frames sent while packets are accepted
          TimesOut,  \* commands may time out
          MaxFails   \* bound on the transfers over the bus that fail

Cmds == 1 .. MaxCmds
Seqs == 0 .. Wrap - 1

ASSUME SeqAssumption ==
  /\ {Wrap, MaxAhead, TxctlCredits, Glom, Window} \subseteq Nat \ {0}
  /\ Window <= MaxAhead /\ MaxAhead < Wrap \div 2
ASSUME QueueAssumption ==
  /\ {TXQLEN, TXHI, TXLOW, TxBound, RxBound, MaxFifo, MaxCmds} \subseteq Nat \ {0}
  /\ TXLOW <= TXHI /\ TXHI <= TXQLEN
ASSUME BoundAssumption == 
  TimesOut \in BOOLEAN /\ {MaxFrames, MaxFails} \subseteq Nat /\ MaxFrames + MaxCmds < Wrap

VARIABLES
  queued, dpc_triggered,   \* datawork is queued; the dpc is to run (again)
  wpc, left, err,          \* the work item: its place, frames left in this run, an error
  ipend, irq_en, intstatus, \* interrupt taken, enabled, status bits kept (one bit)
  tx_seq, tx_max,          \* next number, and first one not offered
  txq, txoff,              \* length of the transmit queue, the stack is stopped
  spc,                     \* the sender
  ctrl_frame_stat, ctrl_frame_err, \* a command waits to be sent; how that ended
  rxctl,                   \* the answer read and not yet taken, 0 if none
  cpc, reqid,              \* the caller: its place and its command
  verdict,                 \* what the caller of each command was told
  hw, fifo,                \* the device: interrupt line, frames ready
  inuse, todo, executed,   \* room taken, commands to answer, how often each arrived
  lost, fails              \* history: answers thrown away, transfers that failed

irq == << ipend, irq_en, intstatus >>
work == << wpc, left, err >>
window == << tx_seq, tx_max >>
data == << txq, txoff, spc >>
ctrl == << ctrl_frame_stat, ctrl_frame_err >>
caller == << cpc, reqid, verdict >>
device == << hw, fifo, inuse, todo, executed >>
history == << lost, fails >>
vars == << queued, dpc_triggered, work, irq, window, data, ctrl, rxctl, caller, device, history >>

Least(a, b) == IF a < b THEN a ELSE b

Init ==
  /\ queued = FALSE /\ dpc_triggered = FALSE
  /\ wpc = "idle" /\ left = 0 /\ err = FALSE
  /\ ipend = FALSE /\ irq_en = TRUE /\ intstatus = FALSE
  /\ tx_seq = Wrap - 1 /\ tx_max = 0
  /\ txq = 0 /\ txoff = FALSE /\ spc = "idle"
  /\ ctrl_frame_stat = FALSE /\ ctrl_frame_err = FALSE
  /\ rxctl = 0
  /\ cpc = "idle" /\ reqid = 0 /\ verdict = [c \in Cmds |-> "none"]
  /\ hw = FALSE /\ fifo = <<>>
  /\ inuse = 0 /\ todo = <<>> /\ executed = [c \in Cmds |-> 0]
  /\ lost = {} /\ fails = 0

-----------------------------------------------------------------------------
(* The transmit window.                                                    *)

Ahead(max) == (max - tx_seq) % Wrap
Credits == Ahead(tx_max)

(* A difference with bit 0x80 set is negative.                             *)
data_ok == TxctlCredits < Credits /\ Credits < Wrap \div 2
txctl_ok_Always == Credits < Wrap \div 2
txctl_ok == 0 < Credits /\ Credits < Wrap \div 2

(* brcmf_sdio_hdparse: an offer too far ahead is not believed.             *)
Offered(max) == IF Ahead(max) > MaxAhead THEN (tx_seq + 2) % Wrap ELSE max

(* brcmf_sdio_trigger_dpc                                                  *)
TriggerDpc == dpc_triggered' = TRUE /\ queued' = TRUE

-----------------------------------------------------------------------------
(* The senders: brcmf_sdio_bus_txdata.  What is done under the queue's     *)
(* lock is one step.                                                       *)

(* Fewer than TXHI - TXLOW packets are queued while the worker goes from   *)
(* the test of txoff to clearing it.                                       *)
FitsGap == ~(wpc = "unblock" /\ txq + 1 >= TXHI)

(* The bound on the packets: frames sent so far, from the first number on. *)
Sent == (tx_seq + 1) % Wrap
Bounded == Sent + txq < MaxFrames \/ txq = TXQLEN

Accepted == Least(txq + 1, TXQLEN)

TxData ==
  /\ spc = "idle" /\ FitsGap /\ Bounded
  /\ txq' = Accepted
  /\ txoff' = (txoff \/ txq' >= TXHI)
  /\ spc' = "trigger"
  /\ UNCHANGED << queued, dpc_triggered, work, irq, window, ctrl, rxctl, caller, device, history >>

TxTrigger ==
  /\ spc = "trigger"
  /\ TriggerDpc
  /\ spc' = "idle"
  /\ UNCHANGED << work, irq, window, txq, txoff, ctrl, rxctl, caller, device, history >>

-----------------------------------------------------------------------------
(* The caller: a command of bcdc.c, one at a time (proto_block).           *)

Ends(v) == verdict' = [verdict EXCEPT ![reqid] = v] /\ cpc' = "idle"

(* brcmf_proto_bcdc_msg and brcmf_sdio_bus_txctl: the frame is handed to   *)
(* the dpc in the one buffer there is ...                                  *)
BusTxctl ==
  /\ cpc = "idle" /\ reqid < MaxCmds
  /\ reqid' = reqid + 1
  /\ ctrl_frame_stat' = TRUE
  /\ cpc' = "trigger"
  /\ UNCHANGED << queued, dpc_triggered, work, irq, window, data, ctrl_frame_err, rxctl, verdict, device, history >>

TxctlTrigger ==
  /\ cpc = "trigger"
  /\ TriggerDpc
  /\ cpc' = "sending"
  /\ UNCHANGED << work, irq, window, data, ctrl, rxctl, reqid, verdict, device, history >>

(* ... which tells how it went ...                                         *)
TxctlDone ==
  /\ cpc = "sending" /\ ~ctrl_frame_stat
  /\ \/ ~ctrl_frame_err /\ cpc' = "answer" /\ UNCHANGED verdict
     \/ ctrl_frame_err /\ Ends("failed")
  /\ UNCHANGED << queued, dpc_triggered, work, irq, window, data, ctrl, rxctl, reqid, device, history >>

(* ... or the wait is over and the frame is still there: the caller looks  *)
(* again when it has the bus to itself.                                    *)
TxctlTimeout ==
  /\ TimesOut /\ cpc = "sending" /\ ctrl_frame_stat
  /\ cpc' = "claim"
  /\ UNCHANGED << queued, dpc_triggered, work, irq, window, data, ctrl, rxctl, reqid, verdict, device, history >>

Withdraws_Unchecked == TRUE
Withdraws == ctrl_frame_stat

TxctlGiveUp ==
  /\ cpc = "claim"
  /\ \/ /\ Withdraws
        /\ ctrl_frame_stat' = FALSE
        /\ Ends("unsent")
     \/ /\ ~Withdraws
        /\ cpc' = "sending"
        /\ UNCHANGED << ctrl_frame_stat, verdict >>
  /\ UNCHANGED << queued, dpc_triggered, work, irq, window, data, ctrl_frame_err, rxctl, reqid, device, history >>

Kept_Answer == rxctl
Kept == 0

(* brcmf_sdio_bus_rxctl and brcmf_proto_bcdc_cmplt: whatever was read is   *)
(* taken, and thrown away unless it answers this command.                  *)
Take ==
  /\ rxctl' = Kept
  /\ IF rxctl = reqid THEN Ends("ok") ELSE cpc' = "answer" /\ UNCHANGED verdict

BusRxctl ==
  /\ cpc = "answer" /\ rxctl # 0
  /\ Take
  /\ UNCHANGED << queued, dpc_triggered, work, irq, window, data, ctrl, reqid, device, history >>

RxctlTimeout ==
  /\ TimesOut /\ cpc = "answer" /\ rxctl = 0
  /\ cpc' = "late"
  /\ UNCHANGED << queued, dpc_triggered, work, irq, window, data, ctrl, rxctl, reqid, verdict, device, history >>

(* The wait timed out, but the answer may have come before the lock.       *)
RxctlLook ==
  /\ cpc = "late"
  /\ IF rxctl # 0 THEN Take ELSE Ends("unanswered") /\ UNCHANGED rxctl
  /\ UNCHANGED << queued, dpc_triggered, work, irq, window, data, ctrl, reqid, device, history >>

-----------------------------------------------------------------------------
(* The interrupt: level triggered, and disabled until the dpc has looked.  *)

OobIrq ==
  /\ hw /\ irq_en
  /\ irq_en' = FALSE /\ ipend' = TRUE
  /\ TriggerDpc
  /\ UNCHANGED << work, intstatus, window, data, ctrl, rxctl, caller, device, history >>

-----------------------------------------------------------------------------
(* The work item: brcmf_sdio_dataworker and brcmf_sdio_dpc.                *)

StartWork ==
  /\ wpc = "idle" /\ queued
  /\ queued' = FALSE
  /\ wpc' = "top"
  /\ UNCHANGED << dpc_triggered, left, err, irq, window, data, ctrl, rxctl, caller, device, history >>

Dataworker ==
  /\ wpc = "top"
  /\ dpc_triggered' = FALSE
  /\ wpc' = IF dpc_triggered THEN "status" ELSE "idle"
  /\ UNCHANGED << queued, left, err, irq, window, data, ctrl, rxctl, caller, device, history >>

(* A transfer over the bus fails or not.                                   *)
Transfer(failed) ==
  /\ failed => fails < MaxFails
  /\ fails' = fails + IF failed THEN 1 ELSE 0

(* The transfer of n frames: they take n numbers, and room in the device,  *)
(* unless it fails.                                                        *)
Sends(n, failed) ==
  /\ Transfer(failed)
  /\ tx_seq' = IF failed THEN tx_seq ELSE (tx_seq + n) % Wrap
  /\ inuse' = IF failed THEN inuse ELSE inuse + n

(* The status register is read and the bits seen are cleared; what was     *)
(* kept from the last run is added.                                        *)
IntrRstatus ==
  /\ wpc = "status"
  /\ \E failed \in BOOLEAN :
       LET read == ipend /\ ~failed
       IN  /\ failed => ipend
           /\ Transfer(failed)
           /\ err' = failed
           /\ hw' = (hw /\ ~read)
           /\ IF intstatus \/ (read /\ hw)
              THEN wpc' = "read" /\ left' = RxBound
              ELSE wpc' = "clear" /\ UNCHANGED left
  /\ ipend' = FALSE /\ intstatus' = FALSE
  /\ UNCHANGED << queued, dpc_triggered, irq_en, window, data, ctrl, rxctl, caller, fifo, inuse, todo, executed, lost >>

(* brcmf_sdio_read_control: an answer (0 if the frame is none) is kept for *)
(* the caller unless the last one was not taken yet.                       *)
ReadControl(answer) ==
  /\ rxctl' = IF rxctl = 0 THEN answer ELSE rxctl
  /\ lost' = IF answer # 0 /\ rxctl # 0 THEN lost \cup {answer} ELSE lost

(* brcmf_sdio_readframes, one frame: its header carries an offer.          *)
ReadFrame ==
  /\ wpc = "read" /\ left > 0 /\ fifo # <<>>
  /\ LET f == Head(fifo)
     IN  /\ tx_max' = Offered(f.max)
         /\ ReadControl(f.answers)
  /\ fifo' = Tail(fifo)
  /\ left' = left - 1
  /\ UNCHANGED << queued, dpc_triggered, wpc, err, irq, tx_seq, data, ctrl, caller, hw, inuse, todo, executed, fails >>

Reenabled_Never == irq_en
Reenabled == irq_en \/ ~ipend

(* Until an empty header tells that nothing is left, or up to the bound:   *)
(* then the frame indication is kept.  The interrupt is enabled again.     *)
ClrIntr ==
  /\ wpc = "clear" \/ (wpc = "read" /\ (left = 0 \/ fifo = <<>>))
  /\ intstatus' = (intstatus \/ (wpc = "read" /\ left = 0))
  /\ irq_en' = Reenabled
  /\ wpc' = "ctrl" /\ left' = 0
  /\ UNCHANGED << queued, dpc_triggered, err, ipend, window, data, ctrl, rxctl, caller, device, history >>

SendCtrl ==
  /\ wpc = "ctrl"
  /\ wpc' = IF ctrl_frame_stat /\ txctl_ok THEN "claim" ELSE "data"
  /\ UNCHANGED << queued, dpc_triggered, left, err, irq, window, data, ctrl, rxctl, caller, device, history >>

Waits == ctrl_frame_stat

(* With the bus claimed the flag is looked at again; the frame in the      *)
(* buffer is sent, after some attempts, or is not.                         *)
TxCtrlframe ==
  /\ wpc = "claim"
  /\ \/ /\ ~Waits
        /\ UNCHANGED << err, tx_seq, ctrl, inuse, todo, executed, fails >>
     \/ /\ Waits
        /\ \E failed \in BOOLEAN :
             /\ Sends(1, failed)
             /\ err' = failed /\ ctrl_frame_err' = failed
             /\ todo' = IF failed THEN todo ELSE Append(todo, reqid)
             /\ executed' = IF failed THEN executed ELSE [executed EXCEPT ![reqid] = @ + 1]
        /\ ctrl_frame_stat' = FALSE
  /\ wpc' = "data"
  /\ UNCHANGED << queued, dpc_triggered, left, irq, tx_max, data, rxctl, caller, hw, fifo, lost >>

(* Packets are sent if there are any and the window has room for them: up  *)
(* to a bound, or one if frames were left to be read (rxpending).          *)
StartSending ==
  /\ wpc = "data"
  /\ IF txq > 0 /\ data_ok
     THEN wpc' = "send" /\ left' \in {1, TxBound}
     ELSE wpc' = "end" /\ UNCHANGED left
  /\ UNCHANGED << queued, dpc_triggered, err, irq, window, data, ctrl, rxctl, caller, device, history >>

Batch == Least(Least(Credits - TxctlCredits, Glom), txq)

(* brcmf_sdio_sendfromq: a batch; its packets are done with either way.    *)
Sendfromq ==
  /\ wpc = "send" /\ left > 0 /\ data_ok /\ txq > 0
  /\ txq' = txq - Batch
  /\ left' = left - Least(left, Batch)
  /\ \E failed \in BOOLEAN : Sends(Batch, failed)
  /\ UNCHANGED << queued, dpc_triggered, wpc, err, irq, tx_max, txoff, spc, ctrl, rxctl, caller, hw, fifo, todo, executed, lost >>

IsLow == txq < TXLOW

(* The stack is started again by two statements without the queue's lock,  *)
(* after a test of its length.                                             *)
Deflow ==
  /\ wpc = "send" /\ ~(left > 0 /\ data_ok /\ txq > 0)
  /\ wpc' = IF txoff /\ IsLow THEN "unblock" ELSE "end"
  /\ left' = 0
  /\ UNCHANGED << queued, dpc_triggered, err, irq, window, data, ctrl, rxctl, caller, device, history >>

Unblock ==
  /\ wpc = "unblock"
  /\ txoff' = FALSE
  /\ wpc' = "end"
  /\ UNCHANGED << queued, dpc_triggered, left, err, irq, window, txq, spc, ctrl, rxctl, caller, device, history >>

MoreToDo_Interrupts == intstatus \/ ipend
MoreToDo == intstatus \/ ipend \/ (txq > 0 /\ data_ok)

(* After an error the dpc halts: status bits are forgotten and a waiting   *)
(* command fails.  Otherwise it runs again if anything is left to do.      *)
EndDpc ==
  /\ wpc = "end"
  /\ \/ /\ err
        /\ intstatus' = FALSE
        /\ ctrl_frame_err' = (ctrl_frame_err \/ ctrl_frame_stat)
        /\ ctrl_frame_stat' = FALSE
        /\ UNCHANGED dpc_triggered
     \/ /\ ~err
        /\ dpc_triggered' = (dpc_triggered \/ MoreToDo)
        /\ UNCHANGED << intstatus, ctrl >>
  /\ wpc' = "top" /\ err' = FALSE
  /\ UNCHANGED << queued, left, ipend, irq_en, window, data, rxctl, caller, device, history >>

-----------------------------------------------------------------------------
(* The device.  A frame it sends offers all the room it has.               *)

Ready(answers) ==
  /\ Len(fifo) < MaxFifo
  /\ fifo' = Append(fifo, [answers |-> answers, max |-> (tx_seq + Window - inuse) % Wrap])
  /\ hw' = TRUE

DevAnswer ==
  /\ todo # <<>>
  /\ Ready(Head(todo))
  /\ todo' = Tail(todo)
  /\ UNCHANGED << queued, dpc_triggered, work, irq, window, data, ctrl, rxctl, caller, inuse, executed, history >>

DevEvent ==
  /\ Ready(0)
  /\ UNCHANGED << queued, dpc_triggered, work, irq, window, data, ctrl, rxctl, caller, inuse, todo, executed, history >>

DevConsume ==
  /\ inuse > 0
  /\ inuse' = inuse - 1
  /\ UNCHANGED << queued, dpc_triggered, work, irq, window, data, ctrl, rxctl, caller, hw, fifo, todo, executed, history >>

-----------------------------------------------------------------------------
SenderStep == TxData \/ TxTrigger
CallerStep ==
  \/ BusTxctl \/ TxctlTrigger \/ TxctlDone \/ TxctlTimeout \/ TxctlGiveUp
  \/ BusRxctl \/ RxctlTimeout \/ RxctlLook
WorkerStep ==
  \/ StartWork \/ Dataworker \/ IntrRstatus \/ ReadFrame \/ ClrIntr
  \/ SendCtrl \/ TxCtrlframe \/ StartSending \/ Sendfromq \/ Deflow \/ Unblock \/ EndDpc
DeviceStep == DevAnswer \/ DevEvent \/ DevConsume

Next == SenderStep \/ CallerStep \/ OobIrq \/ WorkerStep \/ DeviceStep

Spec == Init /\ [][Next]_vars
-----------------------------------------------------------------------------
(* The types of the variables.                                             *)
TypeOK ==
  /\ {queued, dpc_triggered, err, ipend, irq_en, intstatus, txoff,
      ctrl_frame_stat, ctrl_frame_err, hw} \subseteq BOOLEAN
  /\ wpc \in {"idle", "top", "status", "read", "clear", "ctrl", "claim", "data", "send",
              "unblock", "end"}
  /\ left \in 0 .. TxBound + RxBound
  /\ tx_seq \in Seqs /\ tx_max \in Seqs
  /\ txq \in 0 .. TXQLEN
  /\ spc \in {"idle", "trigger"}
  /\ rxctl \in 0 .. MaxCmds /\ reqid \in 0 .. MaxCmds
  /\ cpc \in {"idle", "trigger", "sending", "claim", "answer", "late"}
  /\ verdict \in [Cmds -> {"none", "ok", "failed", "unsent", "unanswered"}]
  /\ Len(fifo) <= MaxFifo
  /\ \A k \in DOMAIN fifo : fifo[k].answers \in 0 .. MaxCmds /\ fifo[k].max \in Seqs
  /\ inuse \in Nat
  /\ \A k \in DOMAIN todo : todo[k] \in Cmds
  /\ executed \in [Cmds -> Nat]
  /\ lost \subseteq Cmds /\ fails \in 0 .. MaxFails

(* The device is never sent a frame it has no room for: what the host      *)
(* believes it may send and what the device holds fit in the device, and   *)
(* so do the offers on their way, through every wrap of the numbers.       *)
WindowRespected ==
  /\ inuse + Credits <= Window
  /\ \A k \in DOMAIN fifo : Credits <= Ahead(fifo[k].max) /\ inuse + Ahead(fifo[k].max) <= Window

(* What the caller of a command is told is true: a command that succeeded  *)
(* reached the device once, one that timed out before it was sent or whose *)
(* transfer failed never reaches it, however the timeout and the dpc race. *)
VerdictTrue ==
  \A c \in Cmds :
    /\ verdict[c] \in {"unsent", "failed"} => executed[c] = 0
    /\ verdict[c] \in {"ok", "unanswered"} => executed[c] = 1
    /\ executed[c] <= 1

(* As long as no command gave up waiting for its answer, no answer is      *)
(* thrown away for want of a place to keep it, and the answer kept is that *)
(* of the command that waits.                                              *)
AnswersKept ==
  (\A c \in Cmds : verdict[c] # "unanswered") =>
    /\ lost = {}
    /\ rxctl # 0 => rxctl = reqid /\ cpc # "idle"

(* When the dpc stops, and nobody is about to trigger it, nothing is left  *)
(* that only the dpc would do: the frames the device has ready raise an    *)
(* interrupt, no command that may be sent waits, no packet that may be,    *)
(* and the stack is stopped only if the queue is long.                     *)
(* (Until a transfer fails: then status bits are dropped on purpose.)      *)
Quiet == wpc = "idle" /\ ~queued /\ spc = "idle" /\ cpc # "trigger"
NothingForgotten ==
  Quiet /\ fails = 0 =>
    /\ irq_en /\ ~ipend /\ ~intstatus /\ (fifo # <<>> => hw)
    /\ ~(ctrl_frame_stat /\ txctl_ok)
    /\ ~(txq > 0 /\ data_ok)
    /\ txoff => txq >= TXLOW
=============================================================================
