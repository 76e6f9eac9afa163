---------------------------- MODULE MsgbufIoctl ----------------------------
(***************************************************************************)
(* Firmware commands and receive buffers over PCIe: the parts of msgbuf.c  *)
(* that share the pool of receive packet ids.                              *)
(*                                                                         *)
(* The host posts empty buffers of three kinds: for received packets, for  *)
(* events and for the answers to commands.  A command is written to the    *)
(* control ring, its payload lies in one shared buffer, and the caller     *)
(* waits, with a timeout, for the interrupt thread to note which buffer    *)
(* holds the answer.  Commands are serialised by the callers (fwil.c holds *)
(* proto_block).  Threads: the caller, the interrupt thread, the device,   *)
(* and the suspend code that takes the bus down.                           *)
(*                                                                         *)
(* Operators named X_Y are faulty variants of X that the properties are    *)
(* tried against.                                                          *)
(***************************************************************************)
EXTENDS Integers, Sequences, FiniteSets

CONSTANTS NPktIds,       \* NR_RX_PKTIDS
          MaxPost,       \* max_rxbufpost, max_eventbuf and max_ioctlrespbuf
          Threshold,     \* BRCMF_MSGBUF_RXBUFPOST_THRESHOLD
          CtlSlots,      \* messages the control submission ring holds
          MaxQueries,    \* bound on the commands issued
          AllocFails,    \* a buffer may be missing for want of memory
          TimesOut,      \* an answer may take longer than the caller waits
          Suspends       \* the bus may go down and up

Kinds == {"data", "event", "ioctl"}
PktIds == 0 .. NPktIds - 1

ASSUME IdAssumption == NPktIds \in Nat \ {0}
ASSUME PostAssumption == MaxPost \in [Kinds -> Nat \ {0}] /\ Threshold \in 1 .. MaxPost["data"]
ASSUME BoundAssumption == CtlSlots \in Nat \ {0} /\ MaxQueries \in Nat
ASSUME SwitchAssumption == {AllocFails, TimesOut, Suspends} \subseteq BOOLEAN

VARIABLES
  rx_pktids,       \* the kind each allocated id was posted as, or "free"
  last_allocated_idx,
  cur,             \* rxbufpost, cur_eventbuf and cur_ioctlrespbuf
  ctl, ctlpub,     \* the control submission ring, and how much of it is published
  rxunpub,         \* data buffers written to their ring and not published
  up,              \* devinfo->state is BRCMFMAC_PCIE_STATE_UP
  qpc, reqid, err, \* the caller; msgbuf->reqid; what its last command returned
  gaveUp,          \* some command has failed with -EIO (history, for the properties)
  ctl_completed, ioctl_resp_status, ioctl_resp_pktid,
  ioctbuf,         \* the shared request buffer: the command whose payload it holds
  got,             \* the status and the data the last command returned
  ipc,             \* the interrupt thread
  devbuf, devreq,  \* the device: buffers it may fill, command it is working on
  filled,          \* the answer in each buffer, by its command
  rxcpl, ctlcpl    \* what the device has posted on the completion rings

pool == << rx_pktids, last_allocated_idx, cur >>
ring == << ctl, ctlpub, rxunpub >>
caller == << qpc, reqid, err, gaveUp, ioctbuf, got >>
resp == << ctl_completed, ioctl_resp_status, ioctl_resp_pktid >>
device == << devbuf, devreq, filled >>
cpl == << rxcpl, ctlcpl >>
vars == << pool, ring, up, caller, resp, ipc, device, cpl >>

-----------------------------------------------------------------------------
Smaller(a, b) == IF a < b THEN a ELSE b
Ids(s) == {s[j] : j \in DOMAIN s}

(* brcmf_msgbuf_alloc_pktid scans the array from the last id it found: how *)
(* far it goes to find one, and what it finds in so many calls.            *)
Free == {i \in PktIds : rx_pktids[i] = "free"}
Ahead(i) == (i - last_allocated_idx - 1) % NPktIds
Found(n) ==
  {s \in [1 .. n -> Free] :
     /\ \A j, m \in 1 .. n : j < m => Ahead(s[j]) < Ahead(s[m])
     /\ \A i \in Free \ Ids(s) : \A j \in 1 .. n : Ahead(s[j]) < Ahead(i)}
Allocated(s, k) == [i \in PktIds |-> IF i \in Ids(s) THEN k ELSE rx_pktids[i]]
LastOf(s) == IF s = <<>> THEN last_allocated_idx ELSE s[Len(s)]

(* How many buffers of a kind to post when n are counted as posted.        *)
Wanted(k, n) == MaxPost[k] - n

(* The ids of the buffers a call posts when the ring has room for so many: *)
(* fewer than wanted near the ring's end, or if ids or memory are short,   *)
(* and then the rest of the reservation is cancelled.                      *)
Grants(wish, room, all) ==
  LET most == Smaller(Smaller(wish, room), Cardinality(Free))
      least == IF AllocFails THEN 0 ELSE IF all THEN most ELSE Smaller(1, most)
  IN  UNION {Found(n) : n \in least .. most}

Message(kind, id, trans) == [kind |-> kind, id |-> id, trans |-> trans]

(* A message is written and the write index stored, if the bus is up.      *)
Published(msgs) == IF up THEN Len(msgs) ELSE ctlpub

(* brcmf_msgbuf_rxbuf_ctrl_post for kind k, n being counted as posted.     *)
CtrlPost(k, n) ==
  \E s \in Grants(Wanted(k, n), CtlSlots - Len(ctl), FALSE) :
    /\ rx_pktids' = Allocated(s, k)
    /\ last_allocated_idx' = LastOf(s)
    /\ cur' = [cur EXCEPT ![k] = n + Len(s)]
    /\ ctl' = ctl \o [j \in DOMAIN s |-> Message(k, s[j], 0)]
    /\ ctlpub' = IF s = <<>> THEN ctlpub ELSE Published(ctl')

(* brcmf_proto_msgbuf_attach: every kind posted to the full, or (memory    *)
(* being short) to something less.                                         *)
Init ==
  /\ \E n \in [Kinds -> 1 .. NPktIds] :
       LET first == [data |-> 0, event |-> n["data"], ioctl |-> n["data"] + n["event"]]
       IN  /\ \A k \in Kinds : n[k] \in (IF AllocFails THEN 1 ELSE MaxPost[k]) .. MaxPost[k]
           /\ first["ioctl"] + n["ioctl"] <= NPktIds
           /\ cur = n
           /\ devbuf = [k \in Kinds |-> first[k] .. first[k] + n[k] - 1]
           /\ last_allocated_idx = first["ioctl"] + n["ioctl"] - 1
  /\ rx_pktids = [i \in PktIds |-> IF \E k \in Kinds : i \in devbuf[k]
                                    THEN CHOOSE k \in Kinds : i \in devbuf[k] ELSE "free"]
  /\ ctl = <<>> /\ ctlpub = 0 /\ rxunpub = {} /\ up = TRUE
  /\ qpc = "idle" /\ reqid = 0 /\ err = "0" /\ gaveUp = FALSE /\ ioctbuf = 0 /\ got = << 0, 0 >>
  /\ ctl_completed = FALSE /\ ioctl_resp_status = 0 /\ ioctl_resp_pktid = 0
  /\ ipc = "idle" /\ devreq = <<>> /\ filled = [i \in PktIds |-> 0]
  /\ rxcpl = <<>> /\ ctlcpl = <<>>

-----------------------------------------------------------------------------
(* The caller: brcmf_msgbuf_query_dcmd, which brcmf_msgbuf_set_dcmd calls. *)
QueryDcmd_KeepsFlag ==
  /\ qpc = "idle" /\ reqid < MaxQueries
  /\ qpc' = "tx" /\ got' = << 0, 0 >>
  /\ UNCHANGED << pool, ring, up, reqid, err, gaveUp, ioctbuf, resp, ipc, device, cpl >>

QueryDcmd ==
  /\ qpc = "idle" /\ reqid < MaxQueries
  /\ ctl_completed' = FALSE
  /\ qpc' = "tx" /\ got' = << 0, 0 >>
  /\ UNCHANGED << pool, ring, up, reqid, err, gaveUp, ioctbuf, ioctl_resp_status, ioctl_resp_pktid, ipc, device, cpl >>

(* brcmf_msgbuf_tx_ioctl: no slot in the ring; or the request is written,  *)
(* its payload copied, and published if the bus is up.                     *)
TxIoctlNoRoom ==
  /\ qpc = "tx" /\ Len(ctl) = CtlSlots
  /\ qpc' = "idle" /\ err' = "ENOMEM"
  /\ UNCHANGED << pool, ring, up, reqid, gaveUp, ioctbuf, got, resp, ipc, device, cpl >>

TxIoctl ==
  /\ qpc = "tx" /\ Len(ctl) < CtlSlots
  /\ reqid' = reqid + 1
  /\ ioctbuf' = reqid'
  /\ ctl' = Append(ctl, Message("request", 0, reqid'))
  /\ ctlpub' = Published(ctl')
  /\ \/ up /\ qpc' = "wait" /\ UNCHANGED err
     \/ ~up /\ qpc' = "idle" /\ err' = "EIO"
  /\ gaveUp' = (gaveUp \/ ~up)
  /\ UNCHANGED << pool, rxunpub, up, got, resp, ipc, device, cpl >>

RespWait_Spurious ==
  /\ qpc = "wait"
  /\ qpc' = "take"
  /\ UNCHANGED << pool, ring, up, reqid, err, gaveUp, ioctbuf, got, resp, ipc, device, cpl >>

(* brcmf_msgbuf_ioctl_resp_wait: woken, or two seconds have passed.        *)
RespWait ==
  /\ qpc = "wait" /\ ctl_completed
  /\ qpc' = "take"
  /\ UNCHANGED << pool, ring, up, reqid, err, gaveUp, ioctbuf, got, resp, ipc, device, cpl >>

RespTimeout ==
  /\ TimesOut /\ qpc = "wait" /\ ~ctl_completed
  /\ qpc' = "idle" /\ err' = "EIO" /\ gaveUp' = TRUE
  /\ UNCHANGED << pool, ring, up, reqid, ioctbuf, got, resp, ipc, device, cpl >>

Released_Kept(id) == rx_pktids

(* brcmf_msgbuf_get_pktid: the id is free again.                           *)
Released(id) == [rx_pktids EXCEPT ![id] = "free"]

(* The answer is taken from the buffer noted, then the status is read.     *)
TakeAnswer ==
  /\ qpc = "take" /\ rx_pktids[ioctl_resp_pktid] # "free"
  /\ rx_pktids' = Released(ioctl_resp_pktid)
  /\ got' = << 0, filled[ioctl_resp_pktid] >>
  /\ filled' = [filled EXCEPT ![ioctl_resp_pktid] = 0]
  /\ qpc' = "status"
  /\ UNCHANGED << last_allocated_idx, cur, ring, up, reqid, err, gaveUp, ioctbuf, resp, ipc, devbuf, devreq, cpl >>

NoAnswer ==
  /\ qpc = "take" /\ rx_pktids[ioctl_resp_pktid] = "free"
  /\ qpc' = "idle" /\ err' = "EBADF"
  /\ UNCHANGED << pool, ring, up, reqid, gaveUp, ioctbuf, got, resp, ipc, device, cpl >>

ReadStatus ==
  /\ qpc = "status"
  /\ got' = << ioctl_resp_status, got[2] >>
  /\ qpc' = "idle" /\ err' = "0"
  /\ UNCHANGED << pool, ring, up, reqid, gaveUp, ioctbuf, resp, ipc, device, cpl >>

-----------------------------------------------------------------------------
(* The interrupt thread, going round the completion rings.                 *)

(* brcmf_msgbuf_process_rx_complete, with update_rxbufpost_count and       *)
(* rxbuf_data_fill, which repeats until every buffer wanted is posted or a *)
(* round posts none.                                                       *)
ProcessRxComplete ==
  /\ ipc = "idle" /\ rxcpl # <<>>
  /\ rxcpl' = Tail(rxcpl)
  /\ LET n == cur["data"] - 1
         refill == IF n <= MaxPost["data"] - Threshold THEN Wanted("data", n) ELSE 0
     IN  \E s \in Grants(refill, refill, TRUE) :
           /\ cur' = [cur EXCEPT !["data"] = n + Len(s)]
           /\ rx_pktids' = [Allocated(s, "data") EXCEPT ![Head(rxcpl)] = "free"]
           /\ last_allocated_idx' = LastOf(s)
           /\ IF up /\ s # <<>>
                THEN devbuf' = [devbuf EXCEPT !["data"] = @ \cup rxunpub \cup Ids(s)] /\ rxunpub' = {}
                ELSE rxunpub' = rxunpub \cup Ids(s) /\ UNCHANGED devbuf
  /\ UNCHANGED << ctl, ctlpub, up, caller, resp, ipc, devreq, filled, ctlcpl >>

(* cur_eventbuf--, cur_ioctlrespbuf--, unless they are zero.               *)
Uncounted(k) == IF cur[k] > 0 THEN cur[k] - 1 ELSE 0

NextCtl(kind) == ipc = "idle" /\ ctlcpl # <<>> /\ Head(ctlcpl).kind = kind

(* brcmf_msgbuf_process_event: post anew, then take the buffer.  The two   *)
(* halves are steps: the new buffers cannot use this one's id.             *)
ProcessEvent ==
  /\ NextCtl("event")
  /\ CtrlPost("event", Uncounted("event"))
  /\ ipc' = "event"
  /\ UNCHANGED << rxunpub, up, caller, resp, device, cpl >>

TakeEvent ==
  /\ ipc = "event"
  /\ rx_pktids' = Released(Head(ctlcpl).id)
  /\ ctlcpl' = Tail(ctlcpl)
  /\ ipc' = "idle"
  /\ UNCHANGED << last_allocated_idx, cur, ring, up, caller, resp, device, rxcpl >>

(* brcmf_msgbuf_process_ioctl_complete: note the answer, wake the caller,  *)
(* post a new buffer.                                                      *)
NoteAnswer ==
  /\ NextCtl("ioctl")
  /\ ioctl_resp_status' = Head(ctlcpl).trans
  /\ ioctl_resp_pktid' = Head(ctlcpl).id
  /\ ctlcpl' = Tail(ctlcpl)
  /\ ipc' = "wake"
  /\ UNCHANGED << pool, ring, up, caller, ctl_completed, device, rxcpl >>

RespWake_NoFlag ==
  /\ ipc = "wake"
  /\ ipc' = "post"
  /\ UNCHANGED << pool, ring, up, caller, resp, device, cpl >>

RespWake ==
  /\ ipc = "wake"
  /\ ctl_completed' = TRUE
  /\ ipc' = "post"
  /\ UNCHANGED << pool, ring, up, caller, ioctl_resp_status, ioctl_resp_pktid, device, cpl >>

IoctlrespPost ==
  /\ ipc = "post"
  /\ CtrlPost("ioctl", Uncounted("ioctl"))
  /\ ipc' = "idle"
  /\ UNCHANGED << rxunpub, up, caller, resp, device, cpl >>

-----------------------------------------------------------------------------
(* The device reads the control ring: a buffer, or a command, whose payload*)
(* it fetches from the shared buffer.                                      *)
DevControl ==
  /\ up /\ ctlpub > 0
  /\ LET m == Head(ctl)
     IN  IF m.kind = "request"
           THEN devreq' = Append(devreq, << m.trans, ioctbuf >>) /\ UNCHANGED devbuf
           ELSE devbuf' = [devbuf EXCEPT ![m.kind] = @ \cup {m.id}] /\ UNCHANGED devreq
  /\ ctl' = Tail(ctl) /\ ctlpub' = ctlpub - 1
  /\ UNCHANGED << pool, rxunpub, up, caller, resp, ipc, filled, cpl >>

(* It delivers a packet or an event, or answers its oldest command.        *)
DevDeliver ==
  /\ up
  /\ \E k \in {"data", "event"} : \E id \in devbuf[k] :
       /\ devbuf' = [devbuf EXCEPT ![k] = @ \ {id}]
       /\ IF k = "data" THEN rxcpl' = Append(rxcpl, id) /\ UNCHANGED ctlcpl
                        ELSE ctlcpl' = Append(ctlcpl, Message(k, id, 0)) /\ UNCHANGED rxcpl
  /\ UNCHANGED << pool, ring, up, caller, resp, ipc, devreq, filled >>

DevAnswer ==
  /\ up /\ devreq # <<>>
  /\ \E id \in devbuf["ioctl"] :
       /\ devbuf' = [devbuf EXCEPT !["ioctl"] = @ \ {id}]
       /\ filled' = [filled EXCEPT ![id] = Head(devreq)[1]]
       /\ ctlcpl' = Append(ctlcpl, Message("ioctl", id, Head(devreq)[1]))
  /\ devreq' = Tail(devreq)
  /\ UNCHANGED << pool, ring, up, caller, resp, ipc, rxcpl >>

(* Suspend and hot resume.                                                 *)
BusDownUp ==
  /\ Suspends
  /\ up' = ~up
  /\ UNCHANGED << pool, ring, caller, resp, ipc, device, cpl >>

CallerStep == QueryDcmd \/ TxIoctlNoRoom \/ TxIoctl \/ RespWait \/ TakeAnswer \/ NoAnswer \/ ReadStatus
ControlStep == ProcessEvent \/ TakeEvent \/ NoteAnswer \/ RespWake \/ IoctlrespPost

Next == CallerStep \/ RespTimeout \/ ProcessRxComplete \/ ControlStep \/ DevControl \/ DevDeliver \/ DevAnswer \/ BusDownUp

Spec == Init /\ [][Next]_vars

-----------------------------------------------------------------------------
Messages == [kind : Kinds \cup {"request"}, id : PktIds, trans : Nat]

TypeOK ==
  /\ rx_pktids \in [PktIds -> Kinds \cup {"free"}] /\ last_allocated_idx \in PktIds
  /\ cur \in [Kinds -> Nat] /\ \A k \in Kinds : cur[k] <= MaxPost[k]
  /\ ctl \in Seq(Messages) /\ Len(ctl) <= CtlSlots /\ ctlpub \in 0 .. Len(ctl)
  /\ rxunpub \subseteq PktIds /\ up \in BOOLEAN
  /\ qpc \in {"idle", "tx", "wait", "take", "status"} /\ reqid \in 0 .. MaxQueries
  /\ err \in {"0", "ENOMEM", "EIO", "EBADF"} /\ gaveUp \in BOOLEAN
  /\ ioctbuf = reqid /\ got \in Nat \X Nat
  /\ ctl_completed \in BOOLEAN /\ ioctl_resp_status \in Nat /\ ioctl_resp_pktid \in PktIds
  /\ ipc \in {"idle", "event", "wake", "post"}
  /\ devbuf \in [Kinds -> SUBSET PktIds] /\ devreq \in Seq(Nat \X Nat)
  /\ filled \in [PktIds -> Nat] /\ rxcpl \in Seq(PktIds) /\ ctlcpl \in Seq(Messages)

(* The buffers of a kind that are on their way to the device, with it, or  *)
(* on their way back.                                                      *)
InCtl(k) == {ctl[j].id : j \in {n \in DOMAIN ctl : ctl[n].kind = k}}
InCpl(k) ==
  IF k = "data" THEN {rxcpl[j] : j \in DOMAIN rxcpl}
  ELSE {ctlcpl[j].id : j \in {n \in DOMAIN ctlcpl : ctlcpl[n].kind = k}}
Lent(k) == devbuf[k] \cup InCtl(k) \cup (IF k = "data" THEN rxunpub ELSE {})
Posted(k) == Lent(k) \cup InCpl(k)

(* As long as no command has failed with -EIO:                             *)
(* the counters that decide how many buffers to post are the numbers of    *)
(* buffers posted, whatever was refused, cancelled or not yet published,   *)
(* so that the device is not starved of a kind, nor given more than was    *)
(* agreed; and when no thread is at work every id is free or its buffer is *)
(* posted, so that the pool does not shrink;                               *)
CountOff(k) == CASE k = "ioctl" /\ ipc \in {"wake", "post"} -> 1
                 [] k = "event" /\ ipc = "event" -> -1
                 [] OTHER -> 0
BuffersAccounted ==
  ~gaveUp =>
    /\ \A k \in Kinds : cur[k] = Cardinality(Posted(k)) + CountOff(k)
    /\ qpc = "idle" /\ ipc = "idle" =>
         \A i \in PktIds : rx_pktids[i] = "free" \/ i \in Posted(rx_pktids[i])

(* a command that succeeds returns the status and the data of its own      *)
(* answer, and the device works on the payload that goes with a command;   *)
AnswersMatch ==
  ~gaveUp => /\ qpc = "idle" /\ err = "0" => got = << reqid, reqid >>
             /\ \A j \in DOMAIN devreq : devreq[j][1] = devreq[j][2]

(* the device is never left with a buffer whose id, and memory, the host   *)
(* has taken back;                                                         *)
LentBuffersKept == ~gaveUp => \A k \in Kinds : \A i \in Lent(k) : rx_pktids[i] = k

(* and no wake-up is lost: a caller whose answer has left the rings finds  *)
(* ctl_completed set, or the interrupt thread about to set it.             *)
Requested == {ctl[j].trans : j \in DOMAIN ctl} \cup {devreq[j][1] : j \in DOMAIN devreq}
Underway == Requested \cup {ctlcpl[j].trans : j \in DOMAIN ctlcpl}
WakeNotLost ==
  ~gaveUp /\ qpc = "wait" => reqid \in Underway \/ ctl_completed \/ ipc = "wake"
=============================================================================
