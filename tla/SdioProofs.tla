----------------------------- MODULE SdioProofs -----------------------------
(***************************************************************************)
(* Theorems about SdioBus, for every size of the window and of the queue,  *)
(* every bound of the work item, any number of commands and of failing     *)
(* transfers: the device is never sent more than it has room for, what a   *)
(* caller is told about its command is true, the answer to the command     *)
(* that waits is kept, and the work item stops only when nothing is left   *)
(* for it to do.  The invariant is the conjunction of a part for each.     *)
(***************************************************************************)
EXTENDS SdioBus, TLAPS

(* The frames of the device: what each answers and what it offers.         *)
Frame == [answers : 0 .. MaxCmds, max : Seqs]

Flags ==
  /\ queued \in BOOLEAN /\ dpc_triggered \in BOOLEAN /\ err \in BOOLEAN
  /\ ipend \in BOOLEAN /\ irq_en \in BOOLEAN /\ intstatus \in BOOLEAN
  /\ txoff \in BOOLEAN /\ hw \in BOOLEAN
  /\ ctrl_frame_stat \in BOOLEAN /\ ctrl_frame_err \in BOOLEAN

Places ==
  /\ wpc \in {"idle", "top", "status", "read", "clear", "ctrl", "claim", "data", "send",
              "unblock", "end"}
  /\ cpc \in {"idle", "trigger", "sending", "claim", "answer", "late"}
  /\ spc \in {"idle", "trigger"}

Numbers ==
  /\ left \in 0 .. TxBound + RxBound
  /\ tx_seq \in Seqs /\ tx_max \in Seqs
  /\ txq \in 0 .. TXQLEN /\ inuse \in Nat /\ fails \in 0 .. MaxFails

Commands ==
  /\ rxctl \in 0 .. MaxCmds /\ reqid \in 0 .. MaxCmds
  /\ verdict \in [Cmds -> {"none", "ok", "failed", "unsent", "unanswered"}]
  /\ executed \in [Cmds -> Nat]
  /\ lost \subseteq Cmds

Queues == fifo \in Seq(Frame) /\ Len(fifo) <= MaxFifo /\ todo \in Seq(Cmds)

Types == Flags /\ Places /\ Numbers /\ Commands /\ Queues

(* The offers on their way grow, none is below what the host may send, and *)
(* none is above the room the device has left; a command about to be sent  *)
(* has a number.                                                           *)
Windows ==
  /\ inuse + Credits <= Window
  /\ \A k \in DOMAIN fifo :
       /\ Credits <= Ahead(fifo[k].max)
       /\ inuse + Ahead(fifo[k].max) <= Window
       /\ \A j \in 1 .. k : Ahead(fifo[j].max) <= Ahead(fifo[k].max)
  /\ wpc = "claim" => 0 < Credits

(* How far the command of the caller has come, by the caller's place: in   *)
(* the buffer, sent, or failed.  The earlier ones have their verdicts, the *)
(* later ones have not begun.                                              *)
Underway ==
  /\ cpc # "idle" => reqid # 0 /\ verdict[reqid] = "none"
  /\ ctrl_frame_stat => cpc \in {"trigger", "sending", "claim"} /\ executed[reqid] = 0
  /\ cpc # "idle" /\ ~ctrl_frame_stat =>
       IF cpc \in {"trigger", "sending", "claim"} /\ ctrl_frame_err
       THEN executed[reqid] = 0 ELSE executed[reqid] = 1

Verdicts ==
  /\ \A c \in Cmds : c > reqid => executed[c] = 0 /\ verdict[c] = "none"
  /\ VerdictTrue

(* Until a command gives up waiting, at most one answer exists, to the     *)
(* command that waits for it, on its way or kept.                          *)
Untroubled == \A c \in Cmds : verdict[c] # "unanswered"

Awaited(a) == a = reqid /\ cpc # "idle" /\ ~ctrl_frame_stat /\ executed[reqid] = 1

Answers ==
  Untroubled =>
    /\ lost = {}
    /\ rxctl # 0 => Awaited(rxctl)
    /\ todo # <<>> => Len(todo) = 1 /\ Awaited(todo[1]) /\ rxctl = 0
    /\ \A k \in DOMAIN fifo :
         fifo[k].answers # 0 =>
           /\ Awaited(fifo[k].answers)
           /\ rxctl = 0 /\ todo = <<>>
           /\ \A j \in DOMAIN fifo : fifo[j].answers # 0 => j = k

(* Where the dpc has not looked for work yet that is there, it runs, is    *)
(* triggered, or is about to be.                                           *)
Runs == wpc \notin {"idle", "top"} \/ dpc_triggered

Work ==
  /\ dpc_triggered => queued \/ wpc # "idle"
  /\ ~irq_en => ipend \/ wpc \in {"read", "clear"}
  /\ ipend \/ intstatus => Runs
  /\ fifo # <<>> => hw \/ intstatus \/ wpc = "read"
  /\ txq > 0 /\ data_ok => Runs \/ spc = "trigger"
  /\ ctrl_frame_stat /\ txctl_ok =>
       \/ dpc_triggered \/ cpc = "trigger"
       \/ wpc \in {"status", "read", "clear", "ctrl", "claim"}
  /\ ~err
  /\ txoff => txq >= TXLOW \/ wpc \in {"send", "unblock"}

IInv == Types /\ Windows /\ Underway /\ Verdicts /\ Answers /\ (fails = 0 => Work)

-----------------------------------------------------------------------------
(* Numbers of frames, modulo Wrap. *)

(* The constants are numbers, and the window is less than half of Wrap.    *)
LEMMA Constants ==
  /\ Wrap \in Nat /\ Wrap > 0 /\ TxctlCredits \in Nat /\ TxctlCredits > 0
  /\ Glom \in Nat /\ Glom > 0 /\ Window \in Nat /\ Window > 0
  /\ MaxAhead \in Nat /\ Window <= MaxAhead /\ MaxAhead < Wrap \div 2 /\ Wrap \div 2 < Wrap
  /\ Wrap \div 2 \in Nat
  /\ TXQLEN \in Nat /\ TXHI \in Nat /\ TXLOW \in Nat /\ TXLOW <= TXHI /\ TXHI <= TXQLEN
  /\ TXLOW > 0 /\ TxBound \in Nat /\ RxBound \in Nat /\ TxBound > 0 /\ RxBound > 0
  /\ MaxFifo \in Nat /\ MaxCmds \in Nat /\ MaxCmds > 0 /\ MaxFails \in Nat
<1>1. /\ {Wrap, MaxAhead, TxctlCredits, Glom, Window} \subseteq Nat \ {0}
      /\ Window <= MaxAhead /\ MaxAhead < Wrap \div 2
  BY SeqAssumption
<1>2. /\ {TXQLEN, TXHI, TXLOW, TxBound, RxBound, MaxFifo, MaxCmds} \subseteq Nat \ {0}
      /\ TXLOW <= TXHI /\ TXHI <= TXQLEN
  BY QueueAssumption
<1>3. MaxFails \in Nat
  BY BoundAssumption
<1>4. Wrap \in Nat /\ Wrap > 0
  BY <1>1
<1>5. Wrap \div 2 \in Nat /\ Wrap \div 2 < Wrap
  BY <1>4
<1> QED
  BY <1>1, <1>2, <1>3, <1>5

(* A difference of numbers is a number. *)
LEMMA Difference ==
  ASSUME NEW a \in Seqs, NEW b \in Seqs
  PROVE  /\ (a - b) % Wrap = IF a >= b THEN a - b ELSE a - b + Wrap
         /\ (a - b) % Wrap \in Seqs
  BY Constants DEF Seqs

(* A number moved by less than Wrap. *)
LEMMA Moved ==
  ASSUME NEW a \in Seqs, NEW n \in 0 .. Wrap - 1
  PROVE  /\ (a + n) % Wrap = IF a + n < Wrap THEN a + n ELSE a + n - Wrap
         /\ (a + n) % Wrap \in Seqs
  BY Constants DEF Seqs

(* Sending n frames brings every offer nearer by n. *)
LEMMA Nearer ==
  ASSUME NEW m \in Seqs, NEW s \in Seqs, NEW n \in Nat, n <= (m - s) % Wrap
  PROVE  /\ (s + n) % Wrap \in Seqs
         /\ (m - ((s + n) % Wrap)) % Wrap = ((m - s) % Wrap) - n
<1> DEFINE t == (s + n) % Wrap
<1>1. (m - s) % Wrap = (IF m >= s THEN m - s ELSE m - s + Wrap) /\ (m - s) % Wrap \in Seqs
  BY Difference
<1>2. n \in 0 .. Wrap - 1
  BY <1>1, Constants DEF Seqs
<1>3. t = (IF s + n < Wrap THEN s + n ELSE s + n - Wrap) /\ t \in Seqs
  BY <1>2, Moved
<1> HIDE DEF t
<1>4. (m - t) % Wrap = (IF m >= t THEN m - t ELSE m - t + Wrap)
  BY <1>3, Difference
<1> DEFINE d == (m - s) % Wrap
           e == (m - t) % Wrap
<1>5. /\ d = (IF m >= s THEN m - s ELSE m - s + Wrap) /\ n <= d
      /\ e = (IF m >= t THEN m - t ELSE m - t + Wrap)
  BY <1>1, <1>4
<1> HIDE DEF d, e
<1>6. m \in Nat /\ s \in Nat /\ m < Wrap /\ s < Wrap /\ t \in Nat /\ Wrap \in Nat
  BY <1>3, Constants DEF Seqs
<1>7. t = (IF s + n < Wrap THEN s + n ELSE s + n - Wrap)
  BY <1>3
<1>8. e = d - n
  <2>1. CASE m >= s
    BY <1>5, <1>6, <1>7, <2>1
  <2>2. CASE m < s /\ s + n < Wrap
    BY <1>5, <1>6, <1>7, <2>2
  <2>3. CASE m < s /\ s + n >= Wrap
    BY <1>5, <1>6, <1>7, <2>3
  <2> QED
    BY <1>6, <2>1, <2>2, <2>3
<1>9. t \in Seqs
  BY <1>3
<1>10. (m - t) % Wrap = d - n
  BY <1>8 DEF e
<1> QED
  BY <1>9, <1>10, Zenon DEF t, d

(* An offer of n frames is n ahead. *)
LEMMA OfferAhead ==
  ASSUME NEW s \in Seqs, NEW n \in 0 .. Wrap - 1
  PROVE  (s + n) % Wrap \in Seqs /\ (((s + n) % Wrap) - s) % Wrap = n
<1> DEFINE t == (s + n) % Wrap
<1>1. t = (IF s + n < Wrap THEN s + n ELSE s + n - Wrap) /\ t \in Seqs
  BY Moved
<1> HIDE DEF t
<1>2. (t - s) % Wrap = (IF t >= s THEN t - s ELSE t - s + Wrap)
  BY <1>1, Difference
<1>3. (t - s) % Wrap = n
  BY <1>1, <1>2, Constants DEF Seqs
<1> QED
  BY <1>1, <1>3 DEF t

-----------------------------------------------------------------------------
(* Types. *)

(* Every flag is one after every step. *)
LEMMA FlagsStep == Flags /\ [Next]_vars => Flags'
<1> SUFFICES ASSUME Flags, [Next]_vars PROVE Flags'
  OBVIOUS
<1> USE DEF Next, vars, SenderStep, CallerStep, WorkerStep, DeviceStep, irq, work, window,
   data, ctrl, caller, device, history, TxData, TxTrigger, BusTxctl, TxctlTrigger, TxctlDone,
   TxctlTimeout, TxctlGiveUp, BusRxctl, RxctlTimeout, RxctlLook, StartWork, Dataworker,
   IntrRstatus, ReadFrame, ClrIntr, SendCtrl, TxCtrlframe, StartSending, Sendfromq, Deflow,
   Unblock, EndDpc, DevAnswer, DevEvent, DevConsume, OobIrq, TriggerDpc, Ready, Reenabled, Flags
<1>1. queued' \in BOOLEAN
  OBVIOUS
<1>2. dpc_triggered' \in BOOLEAN
  OBVIOUS
<1>3. err' \in BOOLEAN
  OBVIOUS
<1>4. ipend' \in BOOLEAN
  OBVIOUS
<1>5. irq_en' \in BOOLEAN
  OBVIOUS
<1>6. intstatus' \in BOOLEAN
  OBVIOUS
<1>7. txoff' \in BOOLEAN
  OBVIOUS
<1>8. hw' \in BOOLEAN
  OBVIOUS
<1>9. ctrl_frame_stat' \in BOOLEAN
  OBVIOUS
<1>10. ctrl_frame_err' \in BOOLEAN
  OBVIOUS
<1> QED
  BY <1>1, <1>2, <1>3, <1>4, <1>5, <1>6, <1>7, <1>8, <1>9, <1>10

(* Everyone stays at one of its places. *)
LEMMA PlacesStep == Places /\ [Next]_vars => Places'
  BY DEF Places, Next, vars, SenderStep, CallerStep, WorkerStep, DeviceStep, irq, work, window,
   data, ctrl, caller, device, history, TxData, TxTrigger, BusTxctl, TxctlTrigger, TxctlDone,
   TxctlTimeout, TxctlGiveUp, BusRxctl, RxctlTimeout, RxctlLook, Take, Ends, StartWork,
   Dataworker, IntrRstatus, ReadFrame, ClrIntr, SendCtrl, TxCtrlframe, StartSending, Sendfromq,
   Deflow, Unblock, EndDpc, DevAnswer, DevEvent, DevConsume, OobIrq

(* What the host sends is within what it may send. *)
LEMMA BatchRange ==
  ASSUME Types, txq > 0, data_ok
  PROVE  Batch \in 1 .. Credits /\ Batch <= txq
<1>1. Credits \in Nat /\ txq \in Nat /\ TxctlCredits < Credits
  BY Difference, Constants DEF Types, Numbers, Credits, Ahead, data_ok, Seqs
<1> QED
  BY <1>1, Constants DEF Batch, Least

(* Numbers stay in their ranges. *)
LEMMA NumbersStep == IInv /\ [Next]_vars => Numbers'
<1> SUFFICES ASSUME IInv, [Next]_vars PROVE Numbers'
  OBVIOUS
<1>0. /\ left \in 0 .. TxBound + RxBound
      /\ tx_seq \in Seqs /\ tx_max \in Seqs
      /\ txq \in 0 .. TXQLEN /\ inuse \in Nat /\ fails \in 0 .. MaxFails
  BY DEF IInv, Types, Numbers
<1>1. left' \in 0 .. TxBound + RxBound
  <2>1. left' = left \/ left' \in {0, 1, TxBound, RxBound}
           \/ (left' = left - 1 /\ left > 0) \/ Sendfromq
    BY DEF Next, vars, SenderStep, CallerStep, WorkerStep, DeviceStep, irq, work, window,
     data, ctrl, caller, device, history, TxData, TxTrigger, BusTxctl, TxctlTrigger, TxctlDone,
     TxctlTimeout, TxctlGiveUp, BusRxctl, RxctlTimeout, RxctlLook, StartWork,
     Dataworker, IntrRstatus, ReadFrame, ClrIntr, SendCtrl, TxCtrlframe, StartSending,
     Deflow, Unblock, EndDpc, DevAnswer, DevEvent, DevConsume, OobIrq
  <2>2. CASE Sendfromq
    <3>1. Batch \in Nat
      BY <2>2, BatchRange, Constants, Difference DEF Sendfromq, IInv
    <3> QED
      BY <2>2, <3>1, <1>0, Constants DEF Sendfromq, Least
  <2> QED
    BY <2>1, <2>2, <1>0, Constants
<1>2. tx_seq' \in Seqs
  <2>1. tx_seq' = tx_seq \/ TxCtrlframe \/ Sendfromq
    BY DEF Next, vars, SenderStep, CallerStep, WorkerStep, DeviceStep, irq, work, window,
     data, ctrl, caller, device, history, TxData, TxTrigger, BusTxctl, TxctlTrigger, TxctlDone,
     TxctlTimeout, TxctlGiveUp, BusRxctl, RxctlTimeout, RxctlLook, StartWork,
     Dataworker, IntrRstatus, ReadFrame, ClrIntr, SendCtrl, StartSending,
     Deflow, Unblock, EndDpc, DevAnswer, DevEvent, DevConsume, OobIrq
  <2>2. CASE TxCtrlframe
    <3>1. tx_seq' = tx_seq \/ tx_seq' = (tx_seq + 1) % Wrap
      BY <2>2 DEF TxCtrlframe, Sends
    <3> QED
      BY <3>1, <1>0, Constants, Moved
  <2>3. CASE Sendfromq
    <3>1. tx_seq' = tx_seq \/ tx_seq' = (tx_seq + Batch) % Wrap
      BY <2>3 DEF Sendfromq, Sends
    <3>2. Batch \in Nat /\ Batch <= (tx_max - tx_seq) % Wrap
      BY <2>3, BatchRange, Constants, <1>0, Difference DEF Sendfromq, IInv, Credits, Ahead, Seqs
    <3> QED
      BY <3>1, <3>2, <1>0, Nearer
  <2> QED
    BY <1>0, <2>1, <2>2, <2>3
<1>3. tx_max' \in Seqs
  <2>1. tx_max' = tx_max \/ ReadFrame
    BY DEF Next, vars, SenderStep, CallerStep, WorkerStep, DeviceStep, irq, work, window,
     data, ctrl, caller, device, history, TxData, TxTrigger, BusTxctl, TxctlTrigger, TxctlDone,
     TxctlTimeout, TxctlGiveUp, BusRxctl, RxctlTimeout, RxctlLook, StartWork,
     Dataworker, IntrRstatus, ClrIntr, SendCtrl, TxCtrlframe, StartSending, Sendfromq,
     Deflow, Unblock, EndDpc, DevAnswer, DevEvent, DevConsume, OobIrq
  <2>2. CASE ReadFrame
    <3>1. Head(fifo) \in Frame
      BY <2>2 DEF ReadFrame, IInv, Types, Queues
    <3>2. Head(fifo).max \in Seqs
      BY <3>1 DEF Frame
    <3>3. (tx_seq + 2) % Wrap \in Seqs
      BY <1>0, Constants DEF Seqs
    <3> QED
      BY <2>2, <3>2, <3>3 DEF ReadFrame, Offered
  <2> QED
    BY <1>0, <2>1, <2>2
<1>4. txq' \in 0 .. TXQLEN
  <2>1. txq' = txq \/ txq' = Accepted \/ Sendfromq
    BY DEF Next, vars, SenderStep, CallerStep, WorkerStep, DeviceStep, irq, work, window,
     data, ctrl, caller, device, history, TxData, TxTrigger, BusTxctl, TxctlTrigger, TxctlDone,
     TxctlTimeout, TxctlGiveUp, BusRxctl, RxctlTimeout, RxctlLook, StartWork,
     Dataworker, IntrRstatus, ReadFrame, ClrIntr, SendCtrl, TxCtrlframe, StartSending,
     Deflow, Unblock, EndDpc, DevAnswer, DevEvent, DevConsume, OobIrq
  <2>2. CASE Sendfromq
    <3>1. Batch \in Nat /\ Batch <= txq
      BY <2>2, BatchRange, Constants DEF Sendfromq, IInv
    <3> QED
      BY <2>2, <3>1, <1>0, Constants DEF Sendfromq
  <2>3. Accepted \in 0 .. TXQLEN
    BY <1>0, Constants DEF Accepted, Least
  <2> QED
    BY <1>0, <2>1, <2>2, <2>3
<1>5. inuse' \in Nat
  <2>1. inuse' = inuse \/ (inuse' = inuse - 1 /\ inuse > 0) \/ inuse' = inuse + 1 \/ Sendfromq
    BY DEF Next, vars, SenderStep, CallerStep, WorkerStep, DeviceStep, irq, work, window,
     data, ctrl, caller, device, history, TxData, TxTrigger, BusTxctl, TxctlTrigger, TxctlDone,
     TxctlTimeout, TxctlGiveUp, BusRxctl, RxctlTimeout, RxctlLook, StartWork, Sends,
     Dataworker, IntrRstatus, ReadFrame, ClrIntr, SendCtrl, TxCtrlframe, StartSending,
     Deflow, Unblock, EndDpc, DevAnswer, DevEvent, DevConsume, OobIrq
  <2>2. CASE Sendfromq
    <3>1. Batch \in Nat
      BY <2>2, BatchRange, Constants DEF Sendfromq, IInv
    <3> QED
      BY <2>2, <3>1, <1>0 DEF Sendfromq, Sends
  <2> QED
    BY <1>0, <2>1, <2>2
<1>6. fails' \in 0 .. MaxFails
  <2>1. fails' = fails \/ (fails' = fails + 1 /\ fails < MaxFails) \/ fails' = fails + 0
    BY DEF Next, vars, SenderStep, CallerStep, WorkerStep, DeviceStep, irq, work, window,
     data, ctrl, caller, device, history, TxData, TxTrigger, BusTxctl, TxctlTrigger, TxctlDone,
     TxctlTimeout, TxctlGiveUp, BusRxctl, RxctlTimeout, RxctlLook, StartWork, Sends, Transfer,
     Dataworker, IntrRstatus, ReadFrame, ClrIntr, SendCtrl, TxCtrlframe, StartSending, Sendfromq,
     Deflow, Unblock, EndDpc, DevAnswer, DevEvent, DevConsume, OobIrq
  <2> QED
    BY <1>0, <2>1, Constants
<1> QED
  BY <1>1, <1>2, <1>3, <1>4, <1>5, <1>6 DEF Numbers

(* A remainder is a number. *)
LEMMA Remainder == ASSUME NEW x \in Int PROVE x % Wrap \in Seqs
  BY Constants DEF Seqs

(* The frame the device has ready. *)
LEMMA ReadyFrame ==
  ASSUME IInv, NEW a \in 0 .. MaxCmds
  PROVE  [answers |-> a, max |-> (tx_seq + Window - inuse) % Wrap] \in Frame
<1>1. tx_seq + Window - inuse \in Int
  BY Constants DEF IInv, Types, Numbers, Seqs
<1>2. (tx_seq + Window - inuse) % Wrap \in Seqs
  BY <1>1, Remainder
<1> QED
  BY <1>2 DEF Frame

(* What the device has ready and has to answer. *)
LEMMA QueuesStep == IInv /\ [Next]_vars => Queues'
<1> SUFFICES ASSUME IInv, [Next]_vars PROVE Queues'
  OBVIOUS
<1>0. /\ fifo \in Seq(Frame) /\ Len(fifo) <= MaxFifo /\ todo \in Seq(Cmds) /\ reqid \in 0 .. MaxCmds
      /\ MaxFifo \in Nat /\ MaxCmds \in Nat
  BY Constants DEF IInv, Types, Queues, Commands
<1>1. \/ UNCHANGED << fifo, todo >>
      \/ ReadFrame \/ TxCtrlframe \/ DevAnswer \/ DevEvent
  BY DEF Next, vars, SenderStep, CallerStep, WorkerStep, DeviceStep, irq, work, window,
   data, ctrl, caller, device, history, TxData, TxTrigger, BusTxctl, TxctlTrigger, TxctlDone,
   TxctlTimeout, TxctlGiveUp, BusRxctl, RxctlTimeout, RxctlLook, StartWork,
   Dataworker, IntrRstatus, ClrIntr, SendCtrl, StartSending, Sendfromq,
   Deflow, Unblock, EndDpc, DevConsume, OobIrq
<1>2. CASE UNCHANGED << fifo, todo >>
  BY <1>0, <1>2 DEF Queues
<1>3. CASE ReadFrame
  <2>1. fifo # <<>> /\ fifo' = Tail(fifo) /\ todo' = todo
    BY <1>3 DEF ReadFrame
  <2> QED
    BY <1>0, <2>1 DEF Queues
<1>4. CASE TxCtrlframe
  <2>1. fifo' = fifo /\ (todo' = todo \/ (ctrl_frame_stat /\ todo' = Append(todo, reqid)))
    BY <1>4 DEF TxCtrlframe, Waits
  <2>2. ctrl_frame_stat => reqid \in Cmds
    BY <1>0 DEF IInv, Underway, Cmds
  <2>3. CASE todo' = todo
    BY <1>0, <2>1, <2>3 DEF Queues
  <2>4. CASE ctrl_frame_stat /\ todo' = Append(todo, reqid)
    <3>1. Append(todo, reqid) \in Seq(Cmds)
      BY <1>0, <2>2, <2>4
    <3> QED
      BY <1>0, <2>1, <2>4, <3>1 DEF Queues
  <2> QED
    BY <2>1, <2>3, <2>4
<1> DEFINE F(a) == [answers |-> a, max |-> (tx_seq + Window - inuse) % Wrap]
<1>5. CASE DevAnswer
  <2>1. /\ todo # <<>> /\ Len(fifo) < MaxFifo /\ fifo' = Append(fifo, F(Head(todo)))
        /\ todo' = Tail(todo)
    BY <1>5 DEF DevAnswer, Ready
  <2>2. Head(todo) \in 0 .. MaxCmds
    BY <1>0, <2>1 DEF Cmds
  <2>3. F(Head(todo)) \in Frame
    BY <2>2, ReadyFrame
  <2> HIDE DEF F
  <2> QED
    BY <1>0, <2>1, <2>3 DEF Queues
<1>6. CASE DevEvent
  <2>1. Len(fifo) < MaxFifo /\ fifo' = Append(fifo, F(0)) /\ todo' = todo
    BY <1>6 DEF DevEvent, Ready
  <2>3. F(0) \in Frame
    BY <1>0, ReadyFrame
  <2> HIDE DEF F
  <2> QED
    BY <1>0, <2>1, <2>3 DEF Queues
<1> QED
  BY <1>1, <1>2, <1>3, <1>4, <1>5, <1>6

(* What is known of the commands. *)
LEMMA CommandsStep == IInv /\ [Next]_vars => Commands'
<1> SUFFICES ASSUME IInv, [Next]_vars PROVE Commands'
  OBVIOUS
<1>0. /\ rxctl \in 0 .. MaxCmds /\ reqid \in 0 .. MaxCmds
      /\ verdict \in [Cmds -> {"none", "ok", "failed", "unsent", "unanswered"}]
      /\ executed \in [Cmds -> Nat]
      /\ lost \subseteq Cmds /\ MaxCmds \in Nat
  BY Constants DEF IInv, Types, Commands
<1>1. reqid' \in 0 .. MaxCmds
  <2>1. reqid' = reqid \/ (reqid' = reqid + 1 /\ reqid < MaxCmds)
    BY DEF Next, vars, SenderStep, CallerStep, WorkerStep, DeviceStep, irq, work, window,
     data, ctrl, caller, device, history, TxData, TxTrigger, BusTxctl, TxctlTrigger, TxctlDone,
     TxctlTimeout, TxctlGiveUp, BusRxctl, RxctlTimeout, RxctlLook, Take, Ends, StartWork,
     Dataworker, IntrRstatus, ReadFrame, ClrIntr, SendCtrl, TxCtrlframe, StartSending, Sendfromq,
     Deflow, Unblock, EndDpc, DevAnswer, DevEvent, DevConsume, OobIrq
  <2> QED
    BY <1>0, <2>1
<1>2. verdict' \in [Cmds -> {"none", "ok", "failed", "unsent", "unanswered"}]
  <2>1. \/ verdict' = verdict
        \/ \E v \in {"ok", "failed", "unsent", "unanswered"} :
             verdict' = [verdict EXCEPT ![reqid] = v]
    BY DEF Next, vars, SenderStep, CallerStep, WorkerStep, DeviceStep, irq, work, window,
     data, ctrl, caller, device, history, TxData, TxTrigger, BusTxctl, TxctlTrigger, TxctlDone,
     TxctlTimeout, TxctlGiveUp, BusRxctl, RxctlTimeout, RxctlLook, Take, Ends, StartWork,
     Dataworker, IntrRstatus, ReadFrame, ClrIntr, SendCtrl, TxCtrlframe, StartSending, Sendfromq,
     Deflow, Unblock, EndDpc, DevAnswer, DevEvent, DevConsume, OobIrq
  <2> QED
    BY <1>0, <2>1
<1>3. executed' \in [Cmds -> Nat]
  <2>1. executed' = executed \/ executed' = [executed EXCEPT ![reqid] = @ + 1]
    BY DEF Next, vars, SenderStep, CallerStep, WorkerStep, DeviceStep, irq, work, window,
     data, ctrl, caller, device, history, TxData, TxTrigger, BusTxctl, TxctlTrigger, TxctlDone,
     TxctlTimeout, TxctlGiveUp, BusRxctl, RxctlTimeout, RxctlLook, StartWork,
     Dataworker, IntrRstatus, ReadFrame, ClrIntr, SendCtrl, TxCtrlframe, StartSending, Sendfromq,
     Deflow, Unblock, EndDpc, DevAnswer, DevEvent, DevConsume, OobIrq
  <2> QED
    BY <1>0, <2>1
<1>4. rxctl' \in 0 .. MaxCmds /\ lost' \subseteq Cmds
  <2>1. \/ UNCHANGED << rxctl, lost >>
        \/ rxctl' = 0 /\ lost' = lost
        \/ ReadFrame
    BY DEF Next, vars, SenderStep, CallerStep, WorkerStep, DeviceStep, irq, work, window,
     data, ctrl, caller, device, history, TxData, TxTrigger, BusTxctl, TxctlTrigger, TxctlDone,
     TxctlTimeout, TxctlGiveUp, BusRxctl, RxctlTimeout, RxctlLook, Take, Kept, StartWork,
     Dataworker, IntrRstatus, ClrIntr, SendCtrl, TxCtrlframe, StartSending, Sendfromq,
     Deflow, Unblock, EndDpc, DevAnswer, DevEvent, DevConsume, OobIrq
  <2>2. CASE ReadFrame
    <3>1. Head(fifo) \in Frame
      BY <2>2 DEF ReadFrame, IInv, Types, Queues
    <3>2. Head(fifo).answers \in 0 .. MaxCmds
      BY <3>1 DEF Frame
    <3> DEFINE a == Head(fifo).answers
    <3>3. ReadControl(a)
      BY <2>2 DEF ReadFrame
    <3>4. a \in 0 .. MaxCmds
      BY <3>2
    <3> HIDE DEF a
    <3>5. rxctl' \in {rxctl, a} /\ (lost' = lost \/ (a # 0 /\ lost' = lost \cup {a}))
      BY <3>3 DEF ReadControl
    <3>6. a # 0 => a \in Cmds
      BY <1>0, <3>4 DEF Cmds
    <3> QED
      BY <1>0, <3>4, <3>5, <3>6
  <2> QED
    BY <1>0, <2>1, <2>2
<1> QED
  BY <1>1, <1>2, <1>3, <1>4 DEF Commands

(* Every variable keeps its type. *)
LEMMA TypesStep == IInv /\ [Next]_vars => Types'
<1>1. IInv => Flags /\ Places
  BY DEF IInv, Types
<1> QED
  BY <1>1, FlagsStep, PlacesStep, NumbersStep, CommandsStep, QueuesStep DEF Types

-----------------------------------------------------------------------------
(* The window. *)

(* What the invariant says of the numbers, spelt out.                      *)
LEMMA WindowFacts ==
  ASSUME IInv
  PROVE  /\ tx_seq \in Seqs /\ tx_max \in Seqs /\ inuse \in Nat /\ Credits \in Seqs
         /\ inuse + Credits <= Window
         /\ fifo \in Seq(Frame)
         /\ \A k \in 1 .. Len(fifo) :
              /\ fifo[k] \in Frame /\ fifo[k].max \in Seqs /\ Ahead(fifo[k].max) \in Seqs
              /\ Credits <= Ahead(fifo[k].max)
              /\ inuse + Ahead(fifo[k].max) <= Window
              /\ \A j \in 1 .. k : Ahead(fifo[j].max) <= Ahead(fifo[k].max)
<1>1. /\ tx_seq \in Seqs /\ tx_max \in Seqs /\ inuse \in Nat
      /\ inuse + Credits <= Window /\ fifo \in Seq(Frame)
  BY DEF IInv, Types, Numbers, Windows, Queues
<1>2. Credits \in Seqs
  BY <1>1, Difference DEF Credits, Ahead
<1>3. ASSUME NEW k \in 1 .. Len(fifo)
      PROVE  /\ fifo[k] \in Frame /\ fifo[k].max \in Seqs /\ Ahead(fifo[k].max) \in Seqs
             /\ k \in DOMAIN fifo
  <2>1. fifo[k] \in Frame
    BY <1>1
  <2>2. fifo[k].max \in Seqs
    BY <2>1 DEF Frame
  <2> QED
    BY <1>1, <2>1, <2>2, Difference DEF Ahead
<1> QED
  BY <1>1, <1>2, <1>3 DEF IInv, Windows

(* Sending n frames within the window.                                     *)
LEMMA SendsWindows ==
  ASSUME IInv, NEW n \in 1 .. Credits,
         \/ UNCHANGED << tx_seq, inuse >>
         \/ tx_seq' = (tx_seq + n) % Wrap /\ inuse' = inuse + n,
         UNCHANGED << tx_max, fifo >>, wpc' # "claim"
  PROVE  Windows'
<1>0. /\ tx_seq \in Seqs /\ tx_max \in Seqs /\ inuse \in Nat /\ Credits \in Seqs
      /\ inuse + Credits <= Window
      /\ \A k \in 1 .. Len(fifo) :
              /\ fifo[k] \in Frame /\ fifo[k].max \in Seqs /\ Ahead(fifo[k].max) \in Seqs
              /\ Credits <= Ahead(fifo[k].max)
              /\ inuse + Ahead(fifo[k].max) <= Window
              /\ \A j \in 1 .. k : Ahead(fifo[j].max) <= Ahead(fifo[k].max)
      /\ fifo \in Seq(Frame) /\ n \in Nat /\ n > 0 /\ n <= Credits /\ Window \in Nat
  BY WindowFacts, Constants DEF Seqs
<1>1. CASE UNCHANGED << tx_seq, inuse >>
  BY <1>1 DEF IInv, Windows, Credits, Ahead
<1>2. CASE tx_seq' = (tx_seq + n) % Wrap /\ inuse' = inuse + n
  <2>1. Credits' = Credits - n
    BY <1>0, <1>2, Nearer DEF Credits, Ahead
  <2>2. \A k \in 1 .. Len(fifo) : Ahead(fifo[k].max)' = Ahead(fifo[k].max) - n
    <3> SUFFICES ASSUME NEW k \in 1 .. Len(fifo)
                 PROVE  (fifo[k].max - ((tx_seq + n) % Wrap)) % Wrap = ((fifo[k].max - tx_seq) % Wrap) - n
      BY <1>2 DEF Ahead
    <3>1. n <= (fifo[k].max - tx_seq) % Wrap /\ fifo[k].max \in Seqs
      BY <1>0, Constants DEF Ahead, Seqs
    <3> QED
      BY <1>0, <3>1, Nearer
  <2>3. inuse' + Credits' <= Window
    BY <1>0, <1>2, <2>1, Constants DEF Seqs
  <2>4. ASSUME NEW k \in 1 .. Len(fifo)
        PROVE  /\ Credits' <= Ahead(fifo[k].max)'
               /\ inuse' + Ahead(fifo[k].max)' <= Window
               /\ \A j \in 1 .. k : Ahead(fifo[j].max)' <= Ahead(fifo[k].max)'
    <3>1. \A j \in 1 .. k : j \in 1 .. Len(fifo)
      BY <1>0
    <3>2. /\ Ahead(fifo[k].max)' = Ahead(fifo[k].max) - n
          /\ Ahead(fifo[k].max) \in Nat /\ Credits \in Nat
          /\ Credits <= Ahead(fifo[k].max) /\ inuse + Ahead(fifo[k].max) <= Window
      BY <1>0, <2>2, Constants DEF Seqs
    <3>3. ASSUME NEW j \in 1 .. k PROVE Ahead(fifo[j].max)' <= Ahead(fifo[k].max)'
      <4>1. /\ Ahead(fifo[j].max)' = Ahead(fifo[j].max) - n
            /\ Ahead(fifo[j].max) \in Nat /\ Ahead(fifo[j].max) <= Ahead(fifo[k].max)
        BY <1>0, <2>2, <3>1, Constants DEF Seqs
      <4> QED
        BY <1>0, <3>2, <4>1
    <3>4. inuse' = inuse + n
      BY <1>2
    <3>5. Credits' <= Ahead(fifo[k].max)' /\ inuse' + Ahead(fifo[k].max)' <= Window
      BY <1>0, <2>1, <3>2, <3>4
    <3> QED
      BY <3>3, <3>5
  <2>5. DOMAIN fifo = 1 .. Len(fifo) /\ Len(fifo) \in Nat
    BY <1>0
  <2> QED
    BY <2>3, <2>4, <2>5 DEF Windows
<1> QED
  BY <1>1, <1>2

(* The oldest frame of the device is read: its offer is believed.          *)
LEMMA ReadWindows == IInv /\ ReadFrame => Windows'
<1> SUFFICES ASSUME IInv, ReadFrame PROVE Windows'
  OBVIOUS
<1> DEFINE m == Head(fifo).max
<1>0. /\ tx_seq \in Seqs /\ tx_max \in Seqs /\ inuse \in Nat
      /\ \A k \in 1 .. Len(fifo) :
              /\ fifo[k] \in Frame /\ fifo[k].max \in Seqs /\ Ahead(fifo[k].max) \in Seqs
              /\ Credits <= Ahead(fifo[k].max)
              /\ inuse + Ahead(fifo[k].max) <= Window
              /\ \A j \in 1 .. k : Ahead(fifo[j].max) <= Ahead(fifo[k].max)
      /\ fifo \in Seq(Frame)
  BY WindowFacts
<1>1. /\ wpc = "read" /\ wpc' = wpc /\ fifo # <<>> /\ fifo' = Tail(fifo)
      /\ tx_max' = Offered(m) /\ UNCHANGED << tx_seq, inuse >>
  BY DEF ReadFrame
<1>2. m = fifo[1].max /\ 1 \in 1 .. Len(fifo) /\ Len(fifo) \in Nat
  BY <1>0, <1>1
<1>3. Ahead(m) \in Nat /\ inuse + Ahead(m) <= Window /\ Window <= MaxAhead
  BY <1>0, <1>2, Constants DEF Seqs
<1> HIDE DEF m
<1>4. tx_max' = m
  BY <1>0, <1>1, <1>3, Constants DEF Offered
<1>5. Credits' = Ahead(m)
  BY <1>1, <1>4 DEF Credits, Ahead
<1>6. /\ Len(fifo') = Len(fifo) - 1 /\ DOMAIN fifo' = 1 .. Len(fifo) - 1
      /\ \A k \in 1 .. Len(fifo) - 1 : fifo'[k] = fifo[k + 1] /\ k + 1 \in 1 .. Len(fifo)
  BY <1>0, <1>1, <1>2
<1>7. ASSUME NEW k \in 1 .. Len(fifo) - 1
      PROVE  /\ Credits' <= Ahead(fifo'[k].max)
             /\ inuse' + Ahead(fifo'[k].max) <= Window
             /\ \A j \in 1 .. k : Ahead(fifo'[j].max) <= Ahead(fifo'[k].max)
  <2>1. fifo'[k] = fifo[k + 1] /\ k + 1 \in 1 .. Len(fifo) /\ 1 \in 1 .. k + 1
    BY <1>2, <1>6
  <2>2. ASSUME NEW j \in 1 .. k PROVE Ahead(fifo'[j].max) <= Ahead(fifo'[k].max)
    <3>1. fifo'[j] = fifo[j + 1] /\ j + 1 \in 1 .. k + 1
      BY <1>2, <1>6
    <3> QED
      BY <1>0, <2>1, <3>1
  <2> QED
    BY <1>0, <1>1, <1>2, <1>5, <2>1, <2>2
<1>8. \A x : Ahead(x)' = Ahead(x)
  BY <1>1 DEF Ahead
<1> QED
  BY <1>1, <1>3, <1>5, <1>6, <1>7 DEF Windows, Ahead

(* A new frame offers the room the device has left.                        *)
LEMMA ReadyWindows ==
  ASSUME IInv, NEW a \in 0 .. MaxCmds, Ready(a),
         UNCHANGED << tx_seq, tx_max, inuse, wpc >>
  PROVE  Windows'
<1> DEFINE f == [answers |-> a, max |-> (tx_seq + Window - inuse) % Wrap]
<1>0. /\ tx_seq \in Seqs /\ tx_max \in Seqs /\ inuse \in Nat /\ Credits \in Seqs
      /\ inuse + Credits <= Window
      /\ \A k \in 1 .. Len(fifo) :
              /\ fifo[k] \in Frame /\ fifo[k].max \in Seqs /\ Ahead(fifo[k].max) \in Seqs
              /\ Credits <= Ahead(fifo[k].max)
              /\ inuse + Ahead(fifo[k].max) <= Window
              /\ \A j \in 1 .. k : Ahead(fifo[j].max) <= Ahead(fifo[k].max)
      /\ fifo \in Seq(Frame)
  BY WindowFacts
<1>1. Ahead(f.max) = Window - inuse
  <2>1. Window - inuse \in 0 .. Wrap - 1 /\ tx_seq + Window - inuse = tx_seq + (Window - inuse)
    BY <1>0, Constants DEF Seqs
  <2> DEFINE w == Window - inuse
  <2>2. (((tx_seq + w) % Wrap) - tx_seq) % Wrap = w
    BY <1>0, <2>1, OfferAhead
  <2> QED
    BY <2>1, <2>2 DEF Ahead
<1>2. f \in Frame
  BY ReadyFrame
<1>3. fifo' = Append(fifo, f)
  BY DEF Ready
<1> HIDE DEF f
<1>4. /\ DOMAIN fifo' = 1 .. Len(fifo) + 1 /\ Len(fifo) \in Nat
      /\ fifo'[Len(fifo) + 1] = f /\ \A k \in 1 .. Len(fifo) : fifo'[k] = fifo[k]
  BY <1>0, <1>2, <1>3
<1>5. ASSUME NEW k \in 1 .. Len(fifo) + 1
      PROVE  /\ Credits <= Ahead(fifo'[k].max)
             /\ inuse + Ahead(fifo'[k].max) <= Window
             /\ \A j \in 1 .. k : Ahead(fifo'[j].max) <= Ahead(fifo'[k].max)
  <2>1. CASE k \in 1 .. Len(fifo)
    <3>1. \A j \in 1 .. k : j \in 1 .. Len(fifo)
      BY <1>4, <2>1
    <3> QED
      BY <1>0, <1>4, <2>1, <3>1
  <2>2. CASE k = Len(fifo) + 1
    <3>1. fifo'[k] = f
      BY <1>4, <2>2
    <3>2. ASSUME NEW j \in 1 .. k PROVE Ahead(fifo'[j].max) <= Window - inuse
      <4>1. CASE j \in 1 .. Len(fifo)
        <5>1. fifo'[j] = fifo[j] /\ Ahead(fifo[j].max) \in Nat /\ inuse + Ahead(fifo[j].max) <= Window
          BY <1>0, <1>4, <4>1, Constants DEF Seqs
        <5> DEFINE h == Ahead(fifo[j].max)
        <5>2. h \in Nat /\ inuse + h <= Window /\ inuse \in Nat /\ Window \in Nat
          BY <1>0, <5>1, Constants
        <5> HIDE DEF h
        <5>3. h <= Window - inuse
          BY <5>2
        <5> QED
          BY <5>1, <5>3 DEF h
      <4>2. CASE j = Len(fifo) + 1
        BY <1>0, <1>1, <1>4, <4>2, Constants
      <4>3. j \in 1 .. Len(fifo) \/ j = Len(fifo) + 1
        BY <1>4, <2>2
      <4> QED
        BY <4>1, <4>2, <4>3
    <3>3. Ahead(fifo'[k].max) = Window - inuse
      BY <1>1, <3>1
    <3>4. Credits <= Window - inuse /\ inuse + (Window - inuse) <= Window
      BY <1>0, Constants DEF Seqs
    <3> QED
      BY <3>2, <3>3, <3>4
  <2> QED
    BY <1>4, <2>1, <2>2
<1>6. Credits' = Credits /\ \A x : Ahead(x)' = Ahead(x)
  BY DEF Credits, Ahead
<1>7. wpc' = "claim" => 0 < Credits
  BY DEF IInv, Windows
<1> QED
  BY <1>0, <1>4, <1>5, <1>6, <1>7 DEF Windows, Ahead

(* Whatever wraps, the host believes no more than the device has room for. *)
LEMMA WindowsStep == IInv /\ [Next]_vars => Windows'
<1> SUFFICES ASSUME IInv, [Next]_vars PROVE Windows'
  OBVIOUS
<1>1. \/ UNCHANGED << tx_seq, tx_max, inuse, fifo >> /\ (wpc' = "claim" => wpc = "claim" \/ txctl_ok)
      \/ ReadFrame \/ TxCtrlframe \/ Sendfromq \/ DevAnswer \/ DevEvent \/ DevConsume
  BY DEF Next, vars, SenderStep, CallerStep, WorkerStep, DeviceStep, irq, work, window,
   data, ctrl, caller, device, history, TxData, TxTrigger, BusTxctl, TxctlTrigger, TxctlDone,
   TxctlTimeout, TxctlGiveUp, BusRxctl, RxctlTimeout, RxctlLook, StartWork,
   Dataworker, IntrRstatus, ClrIntr, SendCtrl, StartSending, Deflow, Unblock, EndDpc, OobIrq
<1>2. CASE UNCHANGED << tx_seq, tx_max, inuse, fifo >> /\ (wpc' = "claim" => wpc = "claim" \/ txctl_ok)
  BY <1>2 DEF IInv, Windows, Credits, Ahead, txctl_ok
<1>3. CASE ReadFrame
  BY <1>3, ReadWindows
<1>4. CASE TxCtrlframe
  <2>1. /\ wpc = "claim" /\ wpc' = "data" /\ UNCHANGED << tx_max, fifo >>
        /\ \/ UNCHANGED << tx_seq, inuse >>
           \/ tx_seq' = (tx_seq + 1) % Wrap /\ inuse' = inuse + 1
    BY <1>4 DEF TxCtrlframe, Sends
  <2>2. 1 \in 1 .. Credits
    BY <2>1, WindowFacts, Constants DEF IInv, Windows, Seqs
  <2> QED
    BY <2>1, <2>2, SendsWindows
<1>5. CASE Sendfromq
  <2>1. /\ wpc = "send" /\ wpc' = wpc /\ UNCHANGED << tx_max, fifo >>
        /\ \/ UNCHANGED << tx_seq, inuse >>
           \/ tx_seq' = (tx_seq + Batch) % Wrap /\ inuse' = inuse + Batch
    BY <1>5 DEF Sendfromq, Sends
  <2>2. Batch \in 1 .. Credits
    BY <1>5, BatchRange DEF Sendfromq, IInv
  <2> QED
    BY <2>1, <2>2, SendsWindows
<1>6. CASE DevAnswer \/ DevEvent
  <2>1. PICK a \in 0 .. MaxCmds : Ready(a)
    <3>1. CASE DevAnswer
      <4>1. todo # <<>> /\ todo \in Seq(Cmds)
        BY <3>1 DEF DevAnswer, IInv, Types, Queues
      <4>2. Head(todo) \in 0 .. MaxCmds
        BY <4>1, Constants DEF Cmds
      <4> QED
        BY <3>1, <4>2 DEF DevAnswer
    <3>2. CASE DevEvent
      BY <3>2, Constants DEF DevEvent
    <3> QED
      BY <1>6, <3>1, <3>2
  <2>2. UNCHANGED << tx_seq, tx_max, inuse, wpc >>
    BY <1>6 DEF DevAnswer, DevEvent, window, work
  <2> QED
    BY <2>1, <2>2, ReadyWindows
<1>7. CASE DevConsume
  <2>1. inuse > 0 /\ inuse' = inuse - 1 /\ UNCHANGED << tx_seq, tx_max, fifo, wpc >>
    BY <1>7 DEF DevConsume, window, work
  <2>2. inuse \in Nat /\ Credits \in Nat /\ Window \in Nat /\ fifo \in Seq(Frame)
    BY WindowFacts, Constants DEF Seqs
  <2>3. ASSUME NEW k \in DOMAIN fifo PROVE inuse' + Ahead(fifo[k].max) <= Window
    <3>1. k \in 1 .. Len(fifo)
      BY <2>2
    <3>2. Ahead(fifo[k].max) \in Nat /\ inuse + Ahead(fifo[k].max) <= Window
      BY <3>1, WindowFacts, Constants DEF Seqs
    <3> QED
      BY <2>1, <2>2, <3>2
  <2>4. inuse' + Credits <= Window
    BY <2>1, <2>2 DEF IInv, Windows
  <2>5. Credits' = Credits /\ \A x : Ahead(x)' = Ahead(x)
    BY <2>1 DEF Credits, Ahead
  <2> QED
    BY <2>1, <2>3, <2>4, <2>5 DEF IInv, Windows, Ahead
<1> QED
  BY <1>1, <1>2, <1>3, <1>4, <1>5, <1>6, <1>7

-----------------------------------------------------------------------------
(* The commands. *)

(* What the invariant says of the commands, spelt out.                     *)
LEMMA CommandFacts ==
  ASSUME IInv
  PROVE  /\ rxctl \in 0 .. MaxCmds /\ reqid \in 0 .. MaxCmds /\ MaxCmds \in Nat
         /\ verdict \in [Cmds -> {"none", "ok", "failed", "unsent", "unanswered"}]
         /\ executed \in [Cmds -> Nat]
         /\ cpc # "idle" => reqid \in Cmds
         /\ ctrl_frame_stat \in BOOLEAN /\ ctrl_frame_err \in BOOLEAN
         /\ cpc \in {"idle", "trigger", "sending", "claim", "answer", "late"}
<1>1. /\ rxctl \in 0 .. MaxCmds /\ reqid \in 0 .. MaxCmds /\ MaxCmds \in Nat
      /\ verdict \in [Cmds -> {"none", "ok", "failed", "unsent", "unanswered"}]
      /\ executed \in [Cmds -> Nat]
      /\ ctrl_frame_stat \in BOOLEAN /\ ctrl_frame_err \in BOOLEAN
      /\ cpc \in {"idle", "trigger", "sending", "claim", "answer", "late"}
  BY Constants DEF IInv, Types, Commands, Flags, Places
<1>2. cpc # "idle" => reqid \in Cmds
  BY <1>1 DEF IInv, Underway, Cmds
<1> QED
  BY <1>1, <1>2

(* The command underway is in the buffer, sent or failed, and its verdict, *)
(* like those of the commands before it, is true.                          *)
LEMMA CommandStep == IInv /\ [Next]_vars => Underway' /\ Verdicts'
<1> SUFFICES ASSUME IInv, [Next]_vars PROVE Underway' /\ Verdicts'
  OBVIOUS
<1> USE CommandFacts
<1>0. Underway /\ Verdicts
  BY DEF IInv
<1>1. \/ UNCHANGED << cpc, reqid, verdict, executed, ctrl_frame_stat, ctrl_frame_err >>
      \/ BusTxctl \/ TxctlTrigger \/ TxctlDone \/ TxctlTimeout \/ TxctlGiveUp
      \/ BusRxctl \/ RxctlTimeout \/ RxctlLook \/ TxCtrlframe \/ EndDpc
  BY DEF Next, vars, SenderStep, CallerStep, WorkerStep, DeviceStep, irq, work, window,
   data, ctrl, caller, device, history, TxData, TxTrigger, StartWork,
   Dataworker, IntrRstatus, ReadFrame, ClrIntr, SendCtrl, StartSending, Sendfromq,
   Deflow, Unblock, DevAnswer, DevEvent, DevConsume, OobIrq
<1>2. CASE UNCHANGED << cpc, reqid, verdict, executed, ctrl_frame_stat, ctrl_frame_err >>
  BY <1>0, <1>2 DEF Underway, Verdicts, VerdictTrue
<1>3. CASE BusTxctl
  <2>1. /\ cpc = "idle" /\ reqid' = reqid + 1 /\ reqid < MaxCmds /\ ctrl_frame_stat' /\ cpc' = "trigger"
        /\ UNCHANGED << verdict, executed >>
    BY <1>3 DEF BusTxctl, device
  <2>2. reqid' \in Cmds /\ reqid' > reqid
    BY <2>1 DEF Cmds
  <2>3. executed[reqid'] = 0 /\ verdict[reqid'] = "none" /\ reqid' # 0
    BY <1>0, <2>1, <2>2 DEF Verdicts
  <2>4. \A c \in Cmds : c > reqid' => c > reqid
    BY <2>1 DEF Cmds
  <2>5. Underway'
    BY <2>1, <2>3 DEF Underway
  <2> QED
    BY <1>0, <2>1, <2>4, <2>5 DEF Verdicts, VerdictTrue
<1>4. CASE TxctlTrigger \/ TxctlTimeout
  BY <1>0, <1>4 DEF TxctlTrigger, TxctlTimeout, Underway, Verdicts, VerdictTrue, ctrl, device
<1>5. CASE RxctlTimeout
  BY <1>0, <1>5 DEF RxctlTimeout, Underway, Verdicts, VerdictTrue, ctrl, device
<1>6. CASE TxctlDone \/ TxctlGiveUp \/ BusRxctl \/ RxctlLook
  <2>1. /\ cpc # "idle" /\ UNCHANGED << reqid, executed, ctrl_frame_err >>
        /\ ctrl_frame_stat' => ctrl_frame_stat
    BY <1>6 DEF TxctlDone, TxctlGiveUp, BusRxctl, RxctlLook, ctrl, device
  <2>2. /\ reqid \in Cmds /\ reqid # 0 /\ verdict[reqid] = "none"
    BY <1>0, <2>1 DEF Underway
  <2>3. CASE verdict' = verdict
    <3>1. \/ cpc = "sending" /\ ~ctrl_frame_stat /\ ~ctrl_frame_err /\ cpc' = "answer" /\ ~ctrl_frame_stat'
          \/ cpc = "claim" /\ cpc' = "sending" /\ ctrl_frame_stat' = ctrl_frame_stat
          \/ cpc \in {"answer", "late"} /\ cpc' = "answer" /\ ctrl_frame_stat' = ctrl_frame_stat
          \/ cpc' = "idle"
      BY <1>6, <2>3 DEF TxctlDone, TxctlGiveUp, BusRxctl, RxctlLook, ctrl, device, Take, Ends
    <3>2. cpc' # "idle"
      BY <1>6, <2>1, <2>2, <2>3 DEF TxctlDone, TxctlGiveUp, BusRxctl, RxctlLook, ctrl, device, Take, Ends
    <3>3. Underway'
      BY <1>0, <2>1, <2>2, <2>3, <3>1, <3>2 DEF Underway
    <3> QED
      BY <1>0, <2>1, <2>3, <3>3 DEF Verdicts, VerdictTrue
  <2>4. CASE verdict' # verdict
    <3>1. PICK v \in {"ok", "failed", "unsent", "unanswered"} :
            /\ Ends(v) /\ ~ctrl_frame_stat'
            /\ v \in {"failed", "unsent"} => executed[reqid] = 0
            /\ v \in {"ok", "unanswered"} => executed[reqid] = 1
      <4>1. CASE TxctlDone
        BY <1>0, <2>4, <4>1 DEF TxctlDone, ctrl, Underway
      <4>2. CASE TxctlGiveUp
        BY <1>0, <2>4, <4>2 DEF TxctlGiveUp, ctrl, Underway, Withdraws
      <4>3. CASE BusRxctl
        BY <1>0, <2>4, <4>3 DEF BusRxctl, ctrl, Underway, Take
      <4>4. CASE RxctlLook
        BY <1>0, <2>4, <4>4 DEF RxctlLook, ctrl, Underway, Take
      <4> QED
        BY <1>6, <4>1, <4>2, <4>3, <4>4
    <3>2. verdict' = [verdict EXCEPT ![reqid] = v] /\ cpc' = "idle"
      BY <3>1 DEF Ends
    <3>3. Underway'
      BY <3>1, <3>2 DEF Underway
    <3>4. VerdictTrue'
      BY <1>0, <2>1, <2>2, <3>1, <3>2 DEF Verdicts, VerdictTrue
    <3>5. \A c \in Cmds : c > reqid => c # reqid
      BY DEF Cmds
    <3>6. \A c \in Cmds : c > reqid' => executed'[c] = 0 /\ verdict'[c] = "none"
      BY <1>0, <2>1, <3>2, <3>5 DEF Verdicts
    <3> QED
      BY <3>3, <3>4, <3>6 DEF Verdicts
  <2> QED
    BY <2>3, <2>4
<1>7. CASE TxCtrlframe
  <2>1. CASE ~ctrl_frame_stat
    BY <1>0, <1>7, <2>1 DEF TxCtrlframe, Waits, Underway, Verdicts, VerdictTrue, ctrl, caller
  <2>2. CASE ctrl_frame_stat
    <3>1. /\ ~ctrl_frame_stat' /\ UNCHANGED << cpc, reqid, verdict >>
          /\ \/ ctrl_frame_err' /\ executed' = executed
             \/ ~ctrl_frame_err' /\ executed' = [executed EXCEPT ![reqid] = @ + 1]
      BY <1>7, <2>2 DEF TxCtrlframe, Waits, caller
    <3>2. /\ cpc \in {"trigger", "sending", "claim"} /\ executed[reqid] = 0 /\ reqid \in Cmds
          /\ verdict[reqid] = "none" /\ reqid # 0
      BY <1>0, <2>2 DEF Underway
    <3>3. CASE ctrl_frame_err' /\ executed' = executed
      BY <1>0, <3>1, <3>2, <3>3 DEF Underway, Verdicts, VerdictTrue
    <3>4. CASE ~ctrl_frame_err' /\ executed' = [executed EXCEPT ![reqid] = @ + 1]
      <4>1. executed'[reqid] = 1 /\ \A c \in Cmds : c # reqid => executed'[c] = executed[c]
        BY <3>2, <3>4
      <4>2. Underway'
        BY <3>1, <3>2, <3>4, <4>1 DEF Underway
      <4>3. VerdictTrue'
        BY <1>0, <3>1, <3>2, <4>1 DEF Verdicts, VerdictTrue
      <4>4. \A c \in Cmds : c > reqid => c # reqid
        BY DEF Cmds
      <4> QED
        BY <1>0, <3>1, <4>1, <4>2, <4>3, <4>4 DEF Verdicts
    <3> QED
      BY <3>1, <3>3, <3>4
  <2> QED
    BY <2>1, <2>2
<1>8. CASE EndDpc
  <2>1. UNCHANGED << cpc, reqid, verdict, executed >>
    BY <1>8 DEF EndDpc, caller, device
  <2>2. Verdicts'
    BY <1>0, <2>1 DEF Verdicts, VerdictTrue
  <2>3. \/ UNCHANGED << ctrl_frame_stat, ctrl_frame_err >>
        \/ ~ctrl_frame_stat' /\ ctrl_frame_err' = (ctrl_frame_err \/ ctrl_frame_stat)
    BY <1>8 DEF EndDpc, ctrl
  <2>4. Underway'
    BY <1>0, <2>1, <2>3 DEF Underway
  <2> QED
    BY <2>2, <2>4
<1> QED
  BY <1>1, <1>2, <1>3, <1>4, <1>5, <1>6, <1>7, <1>8

-----------------------------------------------------------------------------
(* The answers. *)

(* There is no answer anywhere: none kept, none to be given, none on its   *)
(* way.                                                                    *)
NoAnswer ==
  /\ lost = {} /\ rxctl = 0 /\ todo = <<>>
  /\ \A k \in DOMAIN fifo : fifo[k].answers = 0

LEMMA NoAnswerEnough == NoAnswer => Answers
  BY DEF NoAnswer, Answers

(* While the command underway has not reached the device there is none.    *)
LEMMA NoneAwaited ==
  ASSUME IInv, Untroubled, cpc = "idle" \/ ctrl_frame_stat \/ executed[reqid] # 1
  PROVE  NoAnswer
<1>1. Answers /\ todo \in Seq(Cmds)
  BY DEF IInv, Types, Queues
<1>2. \A a : ~Awaited(a)
  BY DEF Awaited
<1> QED
  BY <1>1, <1>2 DEF Answers, NoAnswer

(* A command that gave up waiting did so for good.                         *)
LEMMA TroubleStays == IInv /\ [Next]_vars /\ Untroubled' => Untroubled
<1> SUFFICES ASSUME IInv, [Next]_vars, Untroubled' PROVE Untroubled
  OBVIOUS
<1> USE CommandFacts
<1>1. \/ verdict' = verdict
      \/ cpc # "idle" /\ \E v : verdict' = [verdict EXCEPT ![reqid] = v]
  BY DEF Next, vars, SenderStep, CallerStep, WorkerStep, DeviceStep, irq, work, window,
   data, ctrl, caller, device, history, TxData, TxTrigger, BusTxctl, TxctlTrigger, TxctlDone,
   TxctlTimeout, TxctlGiveUp, BusRxctl, RxctlTimeout, RxctlLook, Take, Ends, StartWork,
   Dataworker, IntrRstatus, ReadFrame, ClrIntr, SendCtrl, TxCtrlframe, StartSending, Sendfromq,
   Deflow, Unblock, EndDpc, DevAnswer, DevEvent, DevConsume, OobIrq
<1>2. cpc # "idle" => reqid \in Cmds /\ verdict[reqid] = "none"
  BY DEF IInv, Underway
<1> QED
  BY <1>1, <1>2 DEF Untroubled

(* The oldest frame of the device is read: the answer in it is kept.       *)
LEMMA ReadAnswers == IInv /\ Untroubled /\ ReadFrame => Answers'
<1> SUFFICES ASSUME IInv, Untroubled, ReadFrame PROVE Answers'
  OBVIOUS
<1> DEFINE a == Head(fifo).answers
<1>1. /\ fifo \in Seq(Frame) /\ fifo # <<>> /\ fifo' = Tail(fifo)
      /\ ReadControl(a) /\ UNCHANGED << todo, reqid, cpc, ctrl_frame_stat, executed >>
  BY DEF IInv, Types, Queues, ReadFrame, caller, ctrl
<1>2. /\ Len(fifo) \in Nat /\ 1 \in 1 .. Len(fifo) /\ a = fifo[1].answers
      /\ DOMAIN fifo = 1 .. Len(fifo) /\ DOMAIN fifo' = 1 .. Len(fifo) - 1
      /\ \A k \in 1 .. Len(fifo) - 1 : fifo'[k] = fifo[k + 1] /\ k + 1 \in 1 .. Len(fifo)
  BY <1>1
<1>3. /\ lost = {}
      /\ rxctl # 0 => Awaited(rxctl)
      /\ todo # <<>> => Len(todo) = 1 /\ Awaited(todo[1]) /\ rxctl = 0
      /\ \A k \in 1 .. Len(fifo) :
           fifo[k].answers # 0 =>
             /\ Awaited(fifo[k].answers)
             /\ rxctl = 0 /\ todo = <<>>
             /\ \A j \in 1 .. Len(fifo) : fifo[j].answers # 0 => j = k
  BY <1>2 DEF IInv, Answers
<1> HIDE DEF a
<1>4. \A x : Awaited(x)' <=> Awaited(x)
  BY <1>1 DEF Awaited
<1>5. CASE a = 0
  <2>1. rxctl' = rxctl /\ lost' = lost
    BY <1>1, <1>5 DEF ReadControl
  <2>2. ASSUME NEW k \in 1 .. Len(fifo) - 1, fifo'[k].answers # 0
        PROVE  /\ Awaited(fifo'[k].answers) /\ rxctl = 0 /\ todo = <<>>
               /\ \A j \in 1 .. Len(fifo) - 1 : fifo'[j].answers # 0 => j = k
    <3>1. fifo[k + 1].answers # 0 /\ fifo'[k] = fifo[k + 1] /\ k + 1 \in 1 .. Len(fifo)
      BY <1>2, <2>2
    <3>2. ASSUME NEW j \in 1 .. Len(fifo) - 1, fifo'[j].answers # 0 PROVE j = k
      <4>1. fifo[j + 1].answers # 0 /\ j + 1 \in 1 .. Len(fifo)
        BY <1>2, <3>2
      <4>2. j + 1 = k + 1
        BY <1>3, <3>1, <4>1
      <4> QED
        BY <1>2, <4>2
    <3> QED
      BY <1>3, <3>1, <3>2
  <2> QED
    BY <1>1, <1>2, <1>3, <1>4, <2>1, <2>2 DEF Answers, Awaited
<1>6. CASE a # 0
  <2>1. /\ Awaited(a) /\ rxctl = 0 /\ todo = <<>>
        /\ \A j \in 1 .. Len(fifo) : fifo[j].answers # 0 => j = 1
    BY <1>2, <1>3, <1>6
  <2>2. rxctl' = a /\ lost' = lost
    BY <1>1, <2>1 DEF ReadControl
  <2>3. ASSUME NEW k \in 1 .. Len(fifo) - 1 PROVE fifo'[k].answers = 0
    <3>1. fifo'[k] = fifo[k + 1] /\ k + 1 \in 1 .. Len(fifo) /\ k + 1 # 1
      BY <1>2
    <3> QED
      BY <2>1, <3>1
  <2> QED
    BY <1>1, <1>2, <1>3, <1>4, <2>1, <2>2, <2>3 DEF Answers, Awaited
<1> QED
  BY <1>5, <1>6

(* A new frame carries the only answer, or none.                           *)
LEMMA ReadyAnswers == IInv /\ Untroubled /\ (DevAnswer \/ DevEvent) => Answers'
<1> SUFFICES ASSUME IInv, Untroubled, DevAnswer \/ DevEvent PROVE Answers'
  OBVIOUS
<1>1. /\ fifo \in Seq(Frame) /\ todo \in Seq(Cmds) /\ Answers /\ MaxCmds \in Nat
      /\ UNCHANGED << rxctl, lost, reqid, cpc, ctrl_frame_stat, executed >>
  BY Constants DEF IInv, Types, Queues, DevAnswer, DevEvent, caller, ctrl, history
<1>2. \A x : Awaited(x)' <=> Awaited(x)
  BY <1>1 DEF Awaited
<1>3. PICK a \in 0 .. MaxCmds :
        /\ Ready(a)
        /\ \/ a = 0 /\ todo' = todo
           \/ todo # <<>> /\ a = todo[1] /\ todo' = Tail(todo)
  <2>1. CASE DevAnswer
    <3>1. todo # <<>> /\ Head(todo) = todo[1] /\ Head(todo) \in Cmds
      BY <1>1, <2>1 DEF DevAnswer
    <3> QED
      BY <1>1, <2>1, <3>1 DEF DevAnswer, Cmds
  <2>2. CASE DevEvent
    BY <1>1, <2>2 DEF DevEvent
  <2> QED
    BY <2>1, <2>2
<1> DEFINE f == [answers |-> a, max |-> (tx_seq + Window - inuse) % Wrap]
<1>4. f \in Frame /\ f.answers = a
  BY ReadyFrame
<1>5. fifo' = Append(fifo, f)
  BY <1>3 DEF Ready
<1> HIDE DEF f
<1>6. /\ DOMAIN fifo = 1 .. Len(fifo) /\ DOMAIN fifo' = 1 .. Len(fifo) + 1 /\ Len(fifo) \in Nat
      /\ fifo'[Len(fifo) + 1] = f /\ \A k \in 1 .. Len(fifo) : fifo'[k] = fifo[k]
      /\ \A k \in 1 .. Len(fifo) + 1 : k \in 1 .. Len(fifo) \/ k = Len(fifo) + 1
  BY <1>1, <1>4, <1>5
<1>7. CASE a = 0 /\ todo' = todo
  BY <1>1, <1>2, <1>4, <1>6, <1>7 DEF Answers
<1>8. CASE todo # <<>> /\ a = todo[1] /\ todo' = Tail(todo)
  <2>1. Len(todo) = 1 /\ Awaited(a) /\ rxctl = 0 /\ lost = {}
    BY <1>1, <1>8 DEF Answers
  <2>2. \A k \in 1 .. Len(fifo) : fifo[k].answers = 0
    BY <1>1, <1>6, <1>8 DEF Answers
  <2>3. todo' = <<>>
    BY <1>1, <1>8, <2>1
  <2>4. \A k \in 1 .. Len(fifo) + 1 :
          fifo'[k].answers # 0 => k = Len(fifo) + 1 /\ fifo'[k].answers = a
    BY <1>4, <1>6, <2>2
  <2> QED
    BY <1>1, <1>2, <1>6, <2>1, <2>3, <2>4 DEF Answers
<1> QED
  BY <1>3, <1>7, <1>8

(* The one answer there is belongs to the command that waits.              *)
LEMMA AnswersStep == IInv /\ [Next]_vars => Answers'
<1> SUFFICES ASSUME IInv, [Next]_vars, Untroubled' PROVE Answers'
  BY DEF Answers
<1> USE CommandFacts
<1>0. Untroubled /\ Answers /\ todo \in Seq(Cmds)
  BY TroubleStays DEF IInv, Types, Queues
<1>1. \/ /\ UNCHANGED << lost, rxctl, reqid, ctrl_frame_stat, todo, fifo, executed >>
         /\ cpc # "idle" => cpc' # "idle"
      \/ BusTxctl \/ TxctlDone \/ TxctlGiveUp \/ BusRxctl \/ RxctlLook
      \/ TxCtrlframe \/ EndDpc \/ ReadFrame \/ DevAnswer \/ DevEvent
  BY DEF Next, vars, SenderStep, CallerStep, WorkerStep, DeviceStep, irq, work, window,
   data, ctrl, caller, device, history, TxData, TxTrigger, TxctlTrigger, TxctlTimeout,
   RxctlTimeout, StartWork, Dataworker, IntrRstatus, ClrIntr, SendCtrl, StartSending, Sendfromq,
   Deflow, Unblock, DevConsume, OobIrq
<1> DEFINE Still == UNCHANGED << lost, rxctl, todo, fifo >>
<1>2. CASE /\ UNCHANGED << lost, rxctl, reqid, ctrl_frame_stat, todo, fifo, executed >>
           /\ cpc # "idle" => cpc' # "idle"
  BY <1>0, <1>2 DEF Answers, Awaited
<1>3. ASSUME cpc = "idle" \/ ctrl_frame_stat \/ executed[reqid] # 1, Still
      PROVE  Answers'
  <2>1. NoAnswer
    BY <1>0, <1>3, NoneAwaited
  <2> QED
    BY <1>3, <2>1 DEF NoAnswer, Answers
<1>4. CASE BusTxctl
  BY <1>3, <1>4 DEF BusTxctl, device, history
<1>5. CASE TxctlDone \/ TxctlGiveUp
  <2>1. Still /\ UNCHANGED << reqid, executed >>
    BY <1>5 DEF TxctlDone, TxctlGiveUp, device, history
  <2>2. \/ ctrl_frame_stat
        \/ executed[reqid] # 1
        \/ ctrl_frame_stat' = ctrl_frame_stat /\ cpc' # "idle"
    BY <1>5 DEF TxctlDone, TxctlGiveUp, ctrl, Withdraws, IInv, Underway
  <2> QED
    BY <1>2, <1>3, <2>1, <2>2
<1>6. CASE BusRxctl \/ RxctlLook
  <2>1. cpc # "idle" /\ verdict[reqid] = "none" /\ reqid \in Cmds
    BY <1>6 DEF BusRxctl, RxctlLook, IInv, Underway
  <2>2. rxctl # 0 /\ Take /\ UNCHANGED << lost, todo, fifo >>
    <3>1. CASE BusRxctl
      BY <3>1 DEF BusRxctl, device, history
    <3>2. CASE RxctlLook
      <4>1. (Take /\ rxctl # 0) \/ Ends("unanswered")
        BY <3>2 DEF RxctlLook
      <4>2. ~Ends("unanswered")
        BY <2>1 DEF Ends, Untroubled
      <4> QED
        BY <3>2, <4>1, <4>2 DEF RxctlLook, device, history
    <3> QED
      BY <1>6, <3>1, <3>2
  <2>3. rxctl' = 0 /\ lost' = {} /\ todo' = <<>>
    BY <1>0, <2>2 DEF Take, Kept, Answers
  <2>4. \A k \in DOMAIN fifo : fifo[k].answers = 0
    BY <1>0, <2>2 DEF Answers
  <2> QED
    BY <2>2, <2>3, <2>4 DEF Answers
<1>7. CASE TxCtrlframe
  <2>1. UNCHANGED << lost, rxctl, fifo, reqid, cpc >>
    BY <1>7 DEF TxCtrlframe, caller
  <2>2. CASE ~ctrl_frame_stat
    BY <1>2, <1>7, <2>1, <2>2 DEF TxCtrlframe, Waits, ctrl
  <2>3. CASE ctrl_frame_stat
    <3>1. NoAnswer
      BY <1>0, <2>3, NoneAwaited
    <3>2. /\ ~ctrl_frame_stat'
          /\ \/ todo' = todo
             \/ todo' = Append(todo, reqid) /\ executed' = [executed EXCEPT ![reqid] = @ + 1]
      BY <1>7, <2>3 DEF TxCtrlframe, Waits
    <3>3. CASE todo' = todo
      BY <2>1, <3>1, <3>3 DEF NoAnswer, Answers
    <3>4. CASE todo' = Append(todo, reqid) /\ executed' = [executed EXCEPT ![reqid] = @ + 1]
      <4>1. cpc # "idle" /\ reqid \in Cmds /\ executed[reqid] = 0
        BY <2>3 DEF IInv, Underway
      <4>2. todo = <<>>
        BY <3>1 DEF NoAnswer
      <4>3. todo' = << reqid >>
        BY <3>4, <4>2
      <4>4. Len(todo') = 1 /\ todo'[1] = reqid
        BY <4>3
      <4>5. executed'[reqid] = 1
        BY <3>4, <4>1
      <4> QED
        BY <2>1, <3>1, <3>2, <4>1, <4>4, <4>5 DEF NoAnswer, Answers, Awaited
    <3> QED
      BY <3>2, <3>3, <3>4
  <2> QED
    BY <2>2, <2>3
<1>8. CASE EndDpc
  <2>1. Still /\ UNCHANGED << reqid, executed, cpc >>
    BY <1>8 DEF EndDpc, device, history, caller
  <2>2. ctrl_frame_stat \/ ctrl_frame_stat' = ctrl_frame_stat
    BY <1>8 DEF EndDpc, ctrl
  <2> QED
    BY <1>2, <1>3, <2>1, <2>2
<1>9. CASE ReadFrame
  BY <1>0, <1>9, ReadAnswers
<1>10. CASE DevAnswer \/ DevEvent
  BY <1>0, <1>10, ReadyAnswers
<1> QED
  BY <1>1, <1>2, <1>4, <1>5, <1>6, <1>7, <1>8, <1>9, <1>10

-----------------------------------------------------------------------------
(* The work item. *)

(* As long as no transfer fails, none of one step failed either.           *)
LEMMA NoFailure ==
  ASSUME IInv, [Next]_vars, fails' = 0
  PROVE  /\ fails = 0 /\ Work
         /\ \A failed \in BOOLEAN : Transfer(failed) => ~failed
         /\ tx_seq \in Seqs /\ tx_max \in Seqs /\ txq \in 0 .. TXQLEN
<1>1. fails \in 0 .. MaxFails /\ tx_seq \in Seqs /\ tx_max \in Seqs /\ txq \in 0 .. TXQLEN
  BY DEF IInv, Types, Numbers
<1>2. fails' = fails \/ fails' = fails + 1 \/ fails' = fails + 0
  BY DEF Next, vars, SenderStep, CallerStep, WorkerStep, DeviceStep, irq, work, window, data,
   ctrl, caller, device, history, TxData, TxTrigger, BusTxctl, TxctlTrigger, TxctlDone,
   TxctlTimeout, TxctlGiveUp, BusRxctl, RxctlTimeout, RxctlLook, StartWork, Dataworker,
   IntrRstatus, ReadFrame, ClrIntr, SendCtrl, TxCtrlframe, StartSending, Sendfromq,
   Deflow, Unblock, EndDpc, DevAnswer, DevEvent, DevConsume, OobIrq, Sends, Transfer
<1>3. fails = 0
  BY <1>1, <1>2, Constants
<1>4. ASSUME NEW failed \in BOOLEAN, Transfer(failed) PROVE ~failed
  BY <1>3, <1>4 DEF Transfer
<1> QED
  BY <1>1, <1>3, <1>4 DEF IInv

(* What the numbers of frames can do in one step: nothing, or the worker   *)
(* is at work and a command has no more credits than before.               *)
LEMMA WindowMoves ==
  ASSUME IInv, [Next]_vars
  PROVE  \/ UNCHANGED << tx_seq, tx_max >>
         \/ ReadFrame
         \/ (TxCtrlframe \/ Sendfromq) /\ (txctl_ok' => txctl_ok)
<1>1. UNCHANGED << tx_seq, tx_max >> \/ ReadFrame \/ TxCtrlframe \/ Sendfromq
  BY DEF Next, vars, SenderStep, CallerStep, WorkerStep, DeviceStep, irq, work, window, data,
   ctrl, caller, device, history, TxData, TxTrigger, BusTxctl, TxctlTrigger, TxctlDone,
   TxctlTimeout, TxctlGiveUp, BusRxctl, RxctlTimeout, RxctlLook, StartWork, Dataworker,
   IntrRstatus, ClrIntr, SendCtrl, StartSending, Deflow, Unblock, EndDpc, DevAnswer,
   DevEvent, DevConsume, OobIrq
<1>2. IInv => 0 <= Credits /\ Credits < Wrap \div 2
  BY WindowFacts, Constants DEF Seqs
<1>3. Credits \in Nat /\ tx_seq \in Seqs /\ tx_max \in Seqs
  BY WindowFacts, Constants DEF Seqs
<1>4. ASSUME NEW n \in 1 .. Credits, tx_seq' = (tx_seq + n) % Wrap, tx_max' = tx_max
      PROVE  txctl_ok' => txctl_ok
  <2>1. Credits' = Credits - n /\ n \in Nat
    <3>1. n \in Nat /\ n <= (tx_max - tx_seq) % Wrap
      BY <1>3, <1>4 DEF Credits, Ahead
    <3> QED
      BY <1>3, <1>4, <3>1, Nearer DEF Credits, Ahead
  <2> QED
    BY <1>2, <1>3, <2>1 DEF txctl_ok
<1>5. CASE TxCtrlframe
  <2>1. tx_max' = tx_max /\ (tx_seq' = tx_seq \/ tx_seq' = (tx_seq + 1) % Wrap)
    BY <1>5 DEF TxCtrlframe, Sends
  <2>2. 1 \in 1 .. Credits
    BY <1>3, <1>5 DEF TxCtrlframe, IInv, Windows
  <2> QED
    BY <1>4, <1>5, <2>1, <2>2
<1>6. CASE Sendfromq
  <2>1. tx_max' = tx_max /\ (tx_seq' = tx_seq \/ tx_seq' = (tx_seq + Batch) % Wrap)
    BY <1>6 DEF Sendfromq, Sends
  <2>2. Batch \in 1 .. Credits
    BY <1>6, BatchRange DEF Sendfromq, IInv
  <2> QED
    BY <1>4, <1>6, <2>1, <2>2
<1> QED
  BY <1>1, <1>5, <1>6

(* Whoever makes work for the dpc triggers it, and the dpc does not stop   *)
(* before there is none.                                                   *)
LEMMA WorkStep == IInv /\ [Next]_vars /\ fails' = 0 => Work'
<1> SUFFICES ASSUME IInv, [Next]_vars, fails' = 0 PROVE Work'
  OBVIOUS
<1>0. /\ fails = 0 /\ Work
      /\ \A failed \in BOOLEAN : Transfer(failed) => ~failed
  BY NoFailure
<1>t. Flags /\ Places
  BY DEF IInv, Types
<1>1. dpc_triggered' => queued' \/ wpc' # "idle"
  BY <1>0 DEF Work, TriggerDpc,
   Next, vars, SenderStep, CallerStep, WorkerStep, DeviceStep, irq, work, window, data,
   ctrl, caller, device, history, TxData, TxTrigger, BusTxctl, TxctlTrigger, TxctlDone,
   TxctlTimeout, TxctlGiveUp, BusRxctl, RxctlTimeout, RxctlLook, StartWork, Dataworker,
   IntrRstatus, ReadFrame, ClrIntr, SendCtrl, TxCtrlframe, StartSending, Sendfromq,
   Deflow, Unblock, EndDpc, DevAnswer, DevEvent, DevConsume, OobIrq
<1>2. ~irq_en' => ipend' \/ wpc' \in {"read", "clear"}
  BY <1>0, <1>t DEF Work, Reenabled, TriggerDpc, Flags, Places,
   Next, vars, SenderStep, CallerStep, WorkerStep, DeviceStep, irq, work, window, data,
   ctrl, caller, device, history, TxData, TxTrigger, BusTxctl, TxctlTrigger, TxctlDone,
   TxctlTimeout, TxctlGiveUp, BusRxctl, RxctlTimeout, RxctlLook, StartWork, Dataworker,
   IntrRstatus, ReadFrame, ClrIntr, SendCtrl, TxCtrlframe, StartSending, Sendfromq,
   Deflow, Unblock, EndDpc, DevAnswer, DevEvent, DevConsume, OobIrq
<1>3. ipend' \/ intstatus' => Runs'
  BY <1>0, <1>t DEF Work, Runs, TriggerDpc, MoreToDo, Flags, Places,
   Next, vars, SenderStep, CallerStep, WorkerStep, DeviceStep, irq, work, window, data,
   ctrl, caller, device, history, TxData, TxTrigger, BusTxctl, TxctlTrigger, TxctlDone,
   TxctlTimeout, TxctlGiveUp, BusRxctl, RxctlTimeout, RxctlLook, StartWork, Dataworker,
   IntrRstatus, ReadFrame, ClrIntr, SendCtrl, TxCtrlframe, StartSending, Sendfromq,
   Deflow, Unblock, EndDpc, DevAnswer, DevEvent, DevConsume, OobIrq
<1>4. fifo' # <<>> => hw' \/ intstatus' \/ wpc' = "read"
  <2>1. CASE IntrRstatus
    <3>1. /\ wpc = "status" /\ fifo' = fifo
          /\ hw' = (hw /\ ~ipend)
          /\ intstatus \/ (ipend /\ hw) => wpc' = "read"
      BY <1>0, <2>1 DEF IntrRstatus
    <3> QED
      BY <1>0, <3>1 DEF Work
  <2>2. CASE ~IntrRstatus
    BY <1>0, <2>2 DEF Work, Ready,
     Next, vars, SenderStep, CallerStep, WorkerStep, DeviceStep, irq, work, window, data,
     ctrl, caller, device, history, TxData, TxTrigger, BusTxctl, TxctlTrigger,
     TxctlDone, TxctlTimeout, TxctlGiveUp, BusRxctl, RxctlTimeout, RxctlLook,
     StartWork, Dataworker, ReadFrame, ClrIntr, SendCtrl, TxCtrlframe, StartSending,
     Sendfromq, Deflow, Unblock, EndDpc, DevAnswer, DevEvent, DevConsume, OobIrq
  <2> QED
    BY <2>1, <2>2
<1>5. txq' > 0 /\ data_ok' => Runs' \/ spc' = "trigger"
  <2>1. CASE UNCHANGED << tx_seq, tx_max >>
    <3>1. data_ok' <=> data_ok
      BY <2>1 DEF data_ok, Credits, Ahead
    <3> QED
      BY <1>0, <1>t, <3>1 DEF Work, Runs, TriggerDpc, MoreToDo, Flags, Places,
       Next, vars, SenderStep, CallerStep, WorkerStep, DeviceStep, irq, work, window, data,
       ctrl, caller, device, history, TxData, TxTrigger, BusTxctl, TxctlTrigger,
       TxctlDone, TxctlTimeout, TxctlGiveUp, BusRxctl, RxctlTimeout, RxctlLook,
       StartWork, Dataworker, IntrRstatus, ReadFrame, ClrIntr, SendCtrl, TxCtrlframe,
       StartSending, Sendfromq, Deflow, Unblock, EndDpc, DevAnswer, DevEvent,
       DevConsume, OobIrq
  <2>2. CASE ReadFrame \/ TxCtrlframe \/ Sendfromq
    BY <2>2 DEF Runs, ReadFrame, TxCtrlframe, Sendfromq
  <2> QED
    BY <2>1, <2>2, WindowMoves
<1>6. ctrl_frame_stat' /\ txctl_ok' =>
        \/ dpc_triggered' \/ cpc' = "trigger"
        \/ wpc' \in {"status", "read", "clear", "ctrl", "claim"}
  <2>1. CASE UNCHANGED << tx_seq, tx_max >>
    <3>1. txctl_ok' <=> txctl_ok
      BY <2>1 DEF txctl_ok, Credits, Ahead
    <3> QED
      BY <1>0, <1>t, <3>1 DEF Work, TriggerDpc, MoreToDo, Flags, Places, Waits, Withdraws,
       Next, vars, SenderStep, CallerStep, WorkerStep, DeviceStep, irq, work, window, data,
       ctrl, caller, device, history, TxData, TxTrigger, BusTxctl, TxctlTrigger,
       TxctlDone, TxctlTimeout, TxctlGiveUp, BusRxctl, RxctlTimeout, RxctlLook,
       StartWork, Dataworker, IntrRstatus, ReadFrame, ClrIntr, SendCtrl, TxCtrlframe,
       StartSending, Sendfromq, Deflow, Unblock, EndDpc, DevAnswer, DevEvent,
       DevConsume, OobIrq
  <2>2. CASE ReadFrame
    BY <2>2 DEF ReadFrame
  <2>3. CASE TxCtrlframe /\ (txctl_ok' => txctl_ok)
    BY <1>0, <2>3 DEF Work, TxCtrlframe, Waits, ctrl
  <2>4. CASE Sendfromq /\ (txctl_ok' => txctl_ok)
    BY <1>0, <2>4 DEF Work, Sendfromq, ctrl, caller
  <2> QED
    BY <2>1, <2>2, <2>3, <2>4, WindowMoves
<1>7. ~err'
  BY <1>0 DEF Work, Sends,
   Next, vars, SenderStep, CallerStep, WorkerStep, DeviceStep, irq, work, window, data,
   ctrl, caller, device, history, TxData, TxTrigger, BusTxctl, TxctlTrigger, TxctlDone,
   TxctlTimeout, TxctlGiveUp, BusRxctl, RxctlTimeout, RxctlLook, StartWork, Dataworker,
   IntrRstatus, ReadFrame, ClrIntr, SendCtrl, TxCtrlframe, StartSending, Sendfromq,
   Deflow, Unblock, EndDpc, DevAnswer, DevEvent, DevConsume, OobIrq
<1>8. txoff' => txq' >= TXLOW \/ wpc' \in {"send", "unblock"}
  <2>1. CASE TxData
    <3>1. Accepted >= txq /\ txq \in Nat
      BY NoFailure, Constants DEF Accepted, Least
    <3>2. Accepted \in Nat
      BY <3>1, Constants DEF Accepted, Least
    <3> QED
      BY <1>0, <1>t, <2>1, <3>1, <3>2, Constants DEF Work, TxData, work, Flags
  <2>2. CASE ~TxData
    <3>1. txq \in Nat
      BY NoFailure, Constants
    <3>2. \/ UNCHANGED << txoff, txq >> /\ (wpc \in {"send", "unblock"} => wpc' = wpc)
          \/ wpc' = "send"
          \/ ~txoff'
          \/ Deflow
      BY <2>2 DEF Next, vars, SenderStep, CallerStep, WorkerStep, DeviceStep, irq, work, window, data,
       ctrl, caller, device, history, TxTrigger, BusTxctl, TxctlTrigger, TxctlDone,
       TxctlTimeout, TxctlGiveUp, BusRxctl, RxctlTimeout, RxctlLook, StartWork,
       Dataworker, IntrRstatus, ReadFrame, ClrIntr, SendCtrl, TxCtrlframe,
       StartSending, Sendfromq, Unblock, EndDpc, DevAnswer, DevEvent, DevConsume,
       OobIrq
    <3>3. CASE Deflow
      BY <1>0, <1>t, <3>1, <3>3, Constants DEF Work, Deflow, IsLow, data, Flags
    <3> QED
      BY <1>0, <1>t, <3>2, <3>3 DEF Work, Flags
  <2> QED
    BY <2>1, <2>2
<1> QED
  BY <1>1, <1>2, <1>3, <1>4, <1>5, <1>6, <1>7, <1>8 DEF Work

-----------------------------------------------------------------------------
(* The invariant and what follows from it. *)

(* The invariant holds at the start: nothing is ready, sent or known.      *)
LEMMA InitInv == Init => IInv
<1> SUFFICES ASSUME Init PROVE IInv
  OBVIOUS
<1> USE Constants
<1>1. Types
  <2>1. Flags /\ Places
    BY DEF Init, Flags, Places
  <2>2. Numbers
    BY DEF Init, Numbers, Seqs
  <2>3. Commands
    BY DEF Init, Commands
  <2>4. Queues
    BY DEF Init, Queues
  <2> QED
    BY <2>1, <2>2, <2>3, <2>4 DEF Types
<1>2. Windows
  <2>1. tx_max = 0 /\ tx_seq = Wrap - 1 /\ inuse = 0 /\ fifo = <<>> /\ wpc = "idle"
    BY DEF Init
  <2>0. 0 \in Seqs /\ Wrap - 1 \in Seqs
    BY DEF Seqs
  <2>2. (0 - (Wrap - 1)) % Wrap = (IF 0 >= Wrap - 1 THEN 0 - (Wrap - 1) ELSE 0 - (Wrap - 1) + Wrap)
    BY <2>0, Difference
  <2>3. Credits <= 1
    BY <2>1, <2>2 DEF Credits, Ahead
  <2>4. Credits \in Nat
    BY <2>0, <2>1, Difference DEF Credits, Ahead, Seqs
  <2> QED
    BY <2>1, <2>3, <2>4 DEF Windows
<1>3. Underway /\ Verdicts
  BY DEF Init, Underway, Verdicts, VerdictTrue
<1>4. Answers
  BY DEF Init, Answers
<1>5. Work
  BY DEF Init, Work
<1> QED
  BY <1>1, <1>2, <1>3, <1>4, <1>5 DEF IInv

(* Every step keeps it.                                                    *)
LEMMA StepInv == IInv /\ [Next]_vars => IInv'
  BY TypesStep, WindowsStep, CommandStep, AnswersStep, WorkStep DEF IInv

THEOREM Safety == Spec => []IInv
  BY InitInv, StepInv, PTL DEF Spec

(* Every variable keeps its type.                                          *)
THEOREM TypeCorrect == Spec => []TypeOK
<1>1. IInv => TypeOK
  <2> SUFFICES ASSUME IInv PROVE TypeOK
    OBVIOUS
  <2>1. Flags /\ Places /\ Numbers /\ Commands /\ Queues
    BY DEF IInv, Types
  <2>2. \A k \in DOMAIN fifo : fifo[k].answers \in 0 .. MaxCmds /\ fifo[k].max \in Seqs
    <3> SUFFICES ASSUME NEW k \in DOMAIN fifo
                 PROVE  fifo[k].answers \in 0 .. MaxCmds /\ fifo[k].max \in Seqs
      OBVIOUS
    <3>1. fifo[k] \in Frame
      BY <2>1 DEF Queues
    <3> QED
      BY <3>1 DEF Frame
  <2>3. \A k \in DOMAIN todo : todo[k] \in Cmds
    BY <2>1 DEF Queues
  <2> QED
    BY <2>1, <2>2, <2>3 DEF TypeOK, Flags, Places, Numbers, Commands, Queues
<1> QED
  BY Safety, <1>1, PTL

(* The device is never sent a frame it has no room for (the window of      *)
(* brcmf_sdio_hdparse, data_ok and txctl_ok), for every width of the       *)
(* numbers more than twice the window.                                     *)
THEOREM WindowKept == Spec => []WindowRespected
<1>1. IInv => WindowRespected
  BY DEF IInv, Windows, WindowRespected
<1> QED
  BY Safety, <1>1, PTL

(* What a caller of brcmf_sdio_bus_txctl and brcmf_sdio_bus_rxctl is told  *)
(* of its command is true, whatever times out and whichever transfer fails. *)
THEOREM VerdictsTrue == Spec => []VerdictTrue
<1>1. IInv => VerdictTrue
  BY DEF IInv, Verdicts
<1> QED
  BY Safety, <1>1, PTL

(* The answer read by brcmf_sdio_read_control finds its place free.        *)
THEOREM AnswersNotLost == Spec => []AnswersKept
<1>1. IInv => AnswersKept
  BY DEF IInv, Answers, Untroubled, Awaited, AnswersKept
<1> QED
  BY Safety, <1>1, PTL

(* When brcmf_sdio_dataworker stops, nothing is left that only the dpc     *)
(* would do.                                                               *)
THEOREM NothingLeft == Spec => []NothingForgotten
<1>1. IInv => NothingForgotten
  <2> SUFFICES ASSUME IInv, Quiet, fails = 0
               PROVE  /\ irq_en /\ ~ipend /\ ~intstatus /\ (fifo # <<>> => hw)
                      /\ ~(ctrl_frame_stat /\ txctl_ok)
                      /\ ~(txq > 0 /\ data_ok)
                      /\ txoff => txq >= TXLOW
    BY DEF NothingForgotten
  <2>1. Work /\ ~dpc_triggered /\ wpc = "idle" /\ ~Runs
    BY DEF IInv, Work, Quiet, Runs
  <2> QED
    BY <2>1 DEF Work, Quiet
<1> QED
  BY Safety, <1>1, PTL
=============================================================================
