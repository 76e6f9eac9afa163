# A formal model of the brcmfmac host driver

This directory holds TLA+ models of the data and command paths of **brcmfmac**, the FullMAC
wireless driver of this repository (`src/drivers/net/wireless/broadcom/brcm80211/brcmfmac`,
abbreviated `brcmfmac/` below), and of the parts of cfg80211 (`src/net/wireless`) that scanning and
connecting share with it; the configurations that check them with TLC; and proofs about
some of them that TLAPS checks.

The repository is a *backports* tree: the driver, the copy of Linux's cfg80211 it is built
against, and a compatibility layer for older kernels. Almost all the state machines that are its
own are in the driver, and they are the kind that tests hardly reach: several kernel threads and
an autonomous device share rings, counters and flags with few locks, and a mistake shows as a
network interface that stops after days.

Contents: [1 The system](#1-the-system) · [2 Modules](#2-modules) ·
[3 What is checked](#3-what-is-checked) · [4 What is proved](#4-what-is-proved) ·
[5 Abstractions](#5-abstractions) · [6 Where code and comments part](#6-where-code-and-comments-part) ·
[7 Not modelled](#7-not-modelled) · [8 Running it](#8-running-it)

## 1 The system

### 1.1 How the parts fit

The driver moves Ethernet packets and firmware commands between the kernel and a device that runs
the whole 802.11 stack ("dongle"). Two stacks of components do that, one per bus family:

```
             cfg80211.c  p2p.c  btcoex.c  twt.c  vendor*.c          (configuration)
                  |  commands (fwil.c)          ^ events (fweh.c)
   kernel --> core.c (netif)  -----------------------------------
                  |  proto.c: tx_queue_data, query/set_dcmd
     +------------+--------------------+
  msgbuf.c + flowring.c            bcdc.c + fwsignal.c               (protocol)
  commonring.c                         |
  pcie.c                           sdio.c + bcmsdh.c | usb.c         (bus)
     |                                 |
   rings in shared memory          frames with sequence numbers
                     the device
```

*PCIe.* `msgbuf.c` keeps, for each (interface, priority, peer), a *flow ring*: a software queue
(`flowring.c`) and a ring of slots in DMA memory (`commonring.c`). A transmit worker moves packets
from the queue to the ring, naming each by a packet id; the device answers on completion rings; the
interrupt thread of `pcie.c` drains those and finalises packets. Firmware commands share a control
ring with requests to create and delete flow rings, and a pool of receive buffers posted in advance.

*SDIO and USB.* `bcdc.c` adds a header to packets and commands. `fwsignal.c` holds packets back in
per-destination queues under credits the firmware grants, and sends again what the firmware suppressed.
`sdio.c` has one work item, the dpc, that alone talks to the device: it reads frames, sends a command
that a caller left in a buffer, and sends queued packets, all within a window of sequence numbers that
every received frame extends.

*Configuration.* `cfg80211.c`, `p2p.c` and others translate requests of the kernel to firmware
variables and firmware events to reports. A scan or a connection is a state kept three times, by
cfg80211 (under the wiphy mutex), by the driver (bits and pointers that the worker of events
changes without that mutex) and by the firmware, each told by the next with a delay: a firmware
command sleeps, an event waits in a queue, and what the driver posts to cfg80211 waits for a work item.

### 1.2 Inventory

The last column names the module; §7 says why the others have none.

| Component | State it keeps | Operations and who calls them | What is hard | What makes it correct | Status |
|---|---|---|---|---|---|
| `commonring.c`, host to device | `r_ptr` (cached), `w_ptr`, `was_full`, slots | reserve one/many, fill, cancel, publish; called under the ring's lock by msgbuf | the device's index is read only when the ring looks full; the device reads at any time; the bus may be down | never write an unread slot, never publish an unfilled one, FIFO order, a drained ring accepts again | CommonRing |
| `commonring.c` device to host, `pcie.c` interrupt, `msgbuf.c` process_rx | `r_ptr`, `w_ptr` copies, doorbell, mask | isr, isr thread, read in rounds, return slots in batches | doorbell cleared before reading; suspend changes the bus state under the thread | each message handled once, in order, eventually; slots go back | CompletionRing |
| `flowring.c` queues | skblist, `blocked`, ring status, interface stop reason | enqueue (stack), dequeue/reinsert (worker), delete | length and flag read without a lock; several rings share one stop reason | a stopped interface is started again | FlowControl |
| `msgbuf.c` transmission | `flow_map`, `outstanding_tx`, packet ids, work items | tx_queue_data, schedule_txdata, txflow, create/delete with responses, tx status | five threads and the device; worker not always queued; deletion against transmission; timeouts | packets in one place, once, in order, finalised; rings given back only when idle | MsgbufTx |
| `msgbuf.c` commands and receive buffers | receive packet ids, three counters, `ctl_completed` and three result fields | query_dcmd with timeout; post, complete, wake | timeout against late answer; memory short; shared ids | each caller gets its answer; buffers are not lost or freed early | MsgbufIoctl |
| `flowring.c` hash, peers, TDLS | hash table, ring table, TDLS list | lookup, create, delete_peer | found without a lock | one ring per flow; a flow is found while it has one | not modelled |
| `fwsignal.c` transmission | hanger, power save queues, MAC entries, credits with loans | process_skb, dequeue worker, tx status, MAC/credit signals, bus completion | lock let go around txdata; suppression out of order; borrowing | credits balance, order kept, counters exact, packets finalised | FwSignal |
| `fwsignal.c` interface deletion, receive reordering | same; reorder buffers | del_interface, rxreorder | deletion against packets in transit | as above; in-order delivery | not modelled |
| `sdio.c` dpc, window, commands; `bcdc.c` | `tx_seq`/`tx_max`, `intstatus`, `dpc_triggered`, `ctrl_frame_stat`, `rxctl`, transmit queue | trigger, dpc, txdata, txctl/rxctl with timeouts, interrupt | flags shared by three contexts; wrap of numbers | window kept, callers told the truth, dpc never sleeps on work | SdioBus |
| `sdio.c` clocks, sleep, superframes, watchdog, download | clock state, `idlecount`, `sleeping`, glom queue | clkctl, bus_sleep, rxglom, watchdog | watchdog against dpc; `sdio_in_isr` | awake when used; not asleep with work | not modelled |
| `pcie.c` power, download, shared memory | D3 state, mailbox data, console | enter/leave D3, probe, reset | a late D3 answer | D3 entered only when acknowledged | not modelled |
| `usb.c` | pools of URBs, `tx_freecount`, control flags | tx, rx, ctl with timeout | pool limits, completion against stop | pool conserved, flow lifted | not modelled |
| `core.c` | interface table, `netif_stop` reasons, pending 802.1x count | add/remove interface, start_xmit, txfinalize, detach | removal against traffic | no use after removal | not modelled |
| `fweh.c` | event queue, handler table | enqueue (interrupt), worker | events against interface removal | events in order, none for a dead interface | order and worker only, in Scan and Connect |
| `fwil.c` | command buffer under `proto_block` | cmd/iovar get/set | none beyond the mutex | one command at a time | used as an assumption |
| `firmware.c` | request with a list of files | async load, fallback | callback against removal | callback once, everything freed | not modelled |
| `cfg80211.c` scanning, `pno.c`; `scan.c`, `nl80211.c`, `core.c` of cfg80211 | `scan_req`, `int_scan_req`, `scan_msg`; `scan_request`, status bits, timer, internal scans | scan and its second part, abort, escan result, timeout, scheduled scan, interface down | timer against completion against abort against a new scan, each asleep in a command | each request reported once (it is not, §6), each scan answered once, cfg80211 never left with a request | Scan |
| `cfg80211.c` connection; `sme.c`, `util.c` of cfg80211 | `connected`, `ssid`, `connected_addr`, posted events; VIF bits, profile | connect, disconnect, events of link, supplicant and roaming, work item | events and requests that cross | the three agree when all has arrived; one result per request | Connect |
| `cfg80211.c` AP, keys, power, suspend | VIF state bits, keys | start/stop AP, add/del key, suspend | little: serialised by the wiphy mutex | – | not modelled |
| `p2p.c` | find state, action frame state, VIFs | listen, search, tx action frame, add/del VIF | completions against timeouts | a frame is reported once | not modelled |
| `btcoex.c` | three-state timer machine | set mode, timer, worker | timer against abort | parameters restored | not modelled |
| `twt.c` | list of sessions | setup, teardown, event, timer | event against timeout | session list matches firmware | not modelled |
| `bt_shared_sdio*.c` | rings in device memory | attach, read, write | shared with a driver not here | – | not modelled |
| `vendor*.c`, `chip.c`, `common.c`, `feature.c`, `of.c`, `acpi.c`, `dmi.c`, `debug.c`, `xtlv.c`, `pno.c` lists | none that changes after probe | translation, probing | none | – | not modelled |
| `brcmutil/` | packet queues by precedence | enqueue, dequeue | none | – | used as sequences |
| `src/net/wireless` | kernel's cfg80211 | netlink, BSS table, SME | locks of the kernel | – | in part: Scan, Connect |
| `src/compat`, `src/backport-include`, `src/kconf`, scripts | vendored compatibility code and build system | – | – | – | not modelled |

The repository has no tests and no documents about the driver's design. What is said of the
program is in its comments, messages and names, and the properties quote them.

## 2 Modules

Conventions. One module per component, with its state as variables named as in the code. A thread
has a program counter (`pc`, `spc` for a sender, `wpc` for a worker, `cpc`/`qpc` for a caller,
`ipc`/`rpc` for the thread of interrupts or signals; `th[t].pc` in `Scan` and `Connect`) that is "idle" or names the place it
is at. What runs under one lock, or reads and writes nothing shared, is one step; every other shared
access is a step of its own. Operators named `X_Y` are faulty variants of `X` (a dropped guard, an
off-by-one, a forgotten reset) that show each property can fail; no action uses them. `PROJECT.json`
maps each definition to the lines it stands for.

| Module | Component | Depends on |
|---|---|---|
| `RingFifo` | abstract: what a ring between host and device promises | – |
| `RingIndex` | pointers of a ring, and what lies between two of them | – |
| `CommonRing` | host-to-device ring | uses `RingIndex`, implements `RingFifo` |
| `CompletionRing`, `CompletionRingProofs` | device-to-host ring with its interrupt | the same |
| `FlowControl` | queues of flow rings and the stop reason | – |
| `FlowRingProofs` | the theorems about both halves of a flow ring | `CommonRing`, `FlowControl`, which share no variable |
| `MsgbufTx`, `MsgbufTxProofs` | transmission over PCIe | takes rings as FIFOs with a published prefix (`CommonRing`, `CompletionRing`), queues without blocking (`FlowControl`) |
| `MsgbufIoctl`, `MsgbufIoctlProofs` | commands, events, receive buffers over PCIe | takes the control ring the same way |
| `FwSignal`, `FwSignalProofs` | firmware signalled flow control | takes the bus as a set of packets it holds |
| `SdioBus`, `SdioProofs` | the SDIO dpc, window and commands | – |
| `Scan`, `ScanProofs` | scanning, in cfg80211 and the driver | takes a firmware command as a place where the thread sleeps |
| `Connect`, `ConnectProofs` | connections of a station, in cfg80211, the driver and the firmware | the same |
| `MC*` | values for the constants, symmetry | the module they instantiate |

### RingIndex
`Advance` moves a pointer with the one wrap the code makes, `Span` is the distance between two pointers, `View` the
messages in the slots between them. Both rings are refinements of `RingFifo` by `View`: what the reader has not read.

### CommonRing
`WriteAvailable`, `ReserveForWrite`, `ReserveForWriteMultiple` are the functions of
`commonring.c` with the one retry each makes after refreshing `r_ptr`; `Fill` is the caller writing
one reserved slot; `WriteCancel` hands back the unfilled ones as `rxbuf_data_post` and
`rxbuf_ctrl_post` do; `WriteComplete` stores the write index, which `pcie.c` skips
while the bus is down. The slots' contents are modelled, `Stale` standing for a slot without a
message; the device (`DeviceTake`) reads between any two of these steps.
Two kinds of transaction exist: a TX batch (`txflow`) reserves one slot at a time and may publish in
the middle; a submission reserves up to `MaxBatch`.

### CompletionRing
`QuickCheckIsr` masks, `IsrThread` clears the doorbell status, `GetReadPtr` copies the write index and
computes the length of a round that stops at the end of the buffer, `ProcessMsgtype` handles
one message and returns slots at `Threshold` and at the end of a round, `EndOfRound` is the `goto again`,
`IsrThreadEnd` unmasks. `DevicePost` and `DeviceRing` are two steps, so the index may be seen before the
doorbell.

### FlowControl
`brcmf_flowring_enqueue` is the steps `Enqueue`, `TestHigh`, `BlockHigh`, `RecheckLow`, `UnblockLow`, after which
`brcmf_msgbuf_schedule_txdata` (`Schedule`) marks the ring and may queue the worker;
`brcmf_flowring_dequeue` is `Dequeue`, `TestLow`, `WorkerUnblock`; `brcmf_flowring_block` (`Block`) is atomic, being
under `block_lock`. `work[r]` says whether the ring's bit is set in `flow_map` and whether the worker is queued for
it, `out[r]` how many packets it has outstanding. A packet that was dequeued is posted (`Post`) or put back (`NoRoom`
or `NoPktid`, then `Reinsert`), and the bit, which `Scan` cleared, stays clear; `TxStatus` is the status of a packet
and the decision of `rx_trigger` whether to queue the worker again. Senders respect the stop: `Enqueue` waits while the
interface is stopped. The specification is `FlowSpec` (`FlowInit`, `FlowNext`), so that `FlowRingProofs` can extend
this module and `CommonRing`. Deletion is `DeleteUnblock` and `DeleteFree`: it unblocks first and removes
afterwards.

### MsgbufTx
The sender: `FlowringCreate`, `EnqueueNew`, `Enqueue`, `MarkFlow`, `QueueWork`. The creating
worker: `CreateWorker`, `CreateWorkerFails`. The TX worker: `StartWork`, `Scan` (the loop
over `flow_map` and the first test of the ring), `Dequeue`, `Post`, `PutBack`, `NothingQueued`. The deleting
thread: `Closing`, `WaitOutstanding`/`WaitTimesOut`, `CheckBus`, `WriteDelete`, `RemoveAtOnce`. The
interrupt thread: `ProcessTxstatus`, `CreateResponse`, `DeleteResponse`, then `Trigger` (the loop
over `txstatus_done_map`). The device takes published packets and answers in any order. A control request
written while the bus is down stays in the control ring and is published by the next one, although its writer was
told `-EIO` (`Submit`); `leftover` remembers that this happened.

### MsgbufIoctl
The caller: `QueryDcmd`, `TxIoctl`/`TxIoctlNoRoom`, `RespWait`/`RespTimeout`, `TakeAnswer`/`NoAnswer`,
`ReadStatus`. The interrupt thread: `NoteAnswer` and `RespWake` (two steps of `process_ioctl_complete`:
three fields, then the flag), `IoctlrespPost`, `ProcessEvent`/`TakeEvent`, `ProcessRxComplete`. `CtrlPost`
and the data post take ids by the cyclic scan of `alloc_pktid` (`Found`: the free ids that are next `Ahead` of the last one
found, in that order), and may stop short for want of room, ids or memory.

### FwSignal
The stack: `ProcessSkb`, `SkbSchedule`. The worker: for each FIFO from the highest, its own credits
(`SendOwn`, `OwnDone`) and then borrowed ones (`SendBorrowed`, `BorrowDone`), each packet going
through `TxData` without the lock, then `Relock`, or `TxRefused` and `Rollback`/`RollbackFails`. Signals:
`TxStatus`, `TxSuppressed` with `MarkSuppressed`, `TxSuppressedFull`, `MacOpen`, `MacClose`, `MacRequest`,
`MacdescDel`, `MacdescAdd`, `CreditBack`, `RxSchedule`. The bus: `BusDone`, `BusFailed`, `BusUnblocked`.

### SdioBus
The dpc is a chain of steps in the order of the function: `IntrRstatus`, `ReadFrame`, `ClrIntr`,
`SendCtrl`, `TxCtrlframe`, `StartSending`, `Sendfromq`, `Deflow`, `Unblock`, `EndDpc`, run by `Dataworker`
while `dpc_triggered`. Senders: `TxData`, `TxTrigger`. The caller: `BusTxctl` … `TxctlGiveUp`
(hand the frame over, wait, withdraw it) and `BusRxctl`, `RxctlTimeout`, `RxctlLook`. `OobIrq` is
the interrupt. The device offers in each frame the room it has.

### Scan
cfg80211 has one request (`rdev.req`) or, for a scan in two parts, also `rdev.int`; the driver copies a pointer to it
(`cfg.request`). `TriggerScan`, `DriverScan`, `EscanCommand` (asleep), `ScanStarted` or `Failed` and `TriggerFails` are the
system call. `brcmf_notify_escan_complete` is run by whichever thread ends the scan: the worker of events
(`EscanResult`, `SchedScanResults`), the worker of the timeout (`EscanTimeout`, `TimeoutWorker`), a call
(`CritProtoStart`, `AbortIfBusy`, `Leave`, `NetdevStop`). `Notify` enters it; from there on every shared access is a
step of its own, since no lock is held: `ReadRequest`, `ClearRequest`, `AbortCommand` (asleep), `Report`, `NotBusy`, and
`ClearBits` at the end of `brcmf_abort_scanning`. `ScanDone` records the verdict and queues the work item, `ScanDoneWork`
(with `Answer`, `Another`, `SecondFails`) answers or starts the second part. The history variable `alarm` collects
what went wrong: two threads "raced" between the read and the clearing of a request, one was reported "twice", or "stale"
(after it was freed), or the host ended a scan itself ("abort").

### Connect
cfg80211 keeps `wdev` and handles `posted` in a work item under the wiphy mutex (`EventWork`); the driver keeps
two bits, two flags of the supplicant and a profile (`vif`); the firmware has a link and a join (`fw`) and answers by
`events`. The call: `CfgConnect`, `Elements`, `KeyMgmt`, `Join` or `ConnectFails`; `Refused`; `CfgDisconnect`, `Left`. The
worker of events: `LinkUp`, `LinkDown`, `NoNetwork`, `Other` and `RoamingStatus` are the branches of
`brcmf_notify_connect_status` and `brcmf_notify_roaming_status`, `Completed`, `Roamed`, `Disassociated`, `Unkeyed`
what each does after the command in which it sleeps. DISASSOC may fail wherever it is sent, in `Left` and in
`Disassociated` (`DisassocFails`): the driver and cfg80211 go on as if it had not, and the firmware stays as it is. Four kinds
of key are told apart because the code does: none, a supplicant in the firmware that reports when it is done (two events make
a link), fast transition (a reassociation is one command and a roam event), and fast transition with such a supplicant
(SAE). All but the first make `brcmf_link_down` send one more command (`HasPmk`).

## 3 What is checked

Every configuration below is exhaustive: TLC explores all reachable states within the bounds named. A
property marked *violation* is one that the code does not have; §6 explains them.

| Run | Configuration | Properties | States |
|---|---|---|---|
| `ring` | 4 slots, batches of 3, two messages, bus down/up | PointersInOrder, UnreadFilled, PublishedImmutable, RefinesFifo, DrainedRingAccepts | 4.9 k |
| `compl` | 4 slots, threshold 2, two messages, bus down/up | RefinesFifo, SlotsReturned, MessageHandled | 51 k |
| `flow` | 2 rings, 1 sender, limits 3, queues of at most 4, the worker not queued while a packet is outstanding, fair | StoppedMeansBlocked, BlockedHasBacklog, StopIsLifted | 476 k |
| `flow_racy` | 2 senders, deletion under a sender | *StoppedMeansBlocked* | violation |
| `msgtx` | 1 flow, 3 packets, 3 ids, 1 slot, no failures | QuietRemoval, OutstandingExact, DeviceRingsBacked, PacketsInOrder, EventuallyFinalised | 217 k |
| `msgtx_faults` | 2 flows, 2 packets, 1 id, every failure | PacketsConserved, WorkerOnOpenRing | 1.24 M |
| `fws` | 1 station in 2 access categories with a credit each, 2 packets, 2 upsets, fair | CountsExact, CreditBalance, EarliestFirst, EventuallyFinalised | 190 k |
| `fws_faults` | 1 category, explicit credits, 3 packets, queue of 2, bus failures, node deletion | StopHasAReason, CreditBalance, PacketsConserved | 1.34 M |
| `ioctl` | 3 commands, 4 ids, 2 answer buffers, 2 control slots, every failure | BuffersAccounted, AnswersMatch, LentBuffersKept, WakeNotLost | 4.08 M |
| `sdio` | 2 commands with timeouts, numbers modulo 8, window 3, 1 failing transfer | WindowRespected, VerdictTrue, AnswersKept, NothingForgotten | 5.75 M |
| `scan` | 1 scan of 1 or 2 parts, 1 upset (abort, scheduled scan, closing), late events and time-outs, fair | TwiceOnlyByOverlap, AnsweredOnce, VerdictTrue, EventuallyAnswered | 815 k |
| `connect` | 2 requests, 4 upsets (disconnects, failing commands, lost links, roams), 2 access points | InStep, Answered, ResultsOnce, deadlock | 2.44 M |

### 3.1 What the runs show

* **ring.** The host judges free space by a read pointer that may be arbitrarily old. `PointersInOrder` says
  that going round the ring one meets the cached read pointer, the device's, the published write index and the
  host's write pointer in this order; so the old pointer only ever underestimates. `UnreadFilled` and
  `PublishedImmutable`: the device reads only messages, and they do not change under it. `RefinesFifo`: what the
  device can see is a bounded FIFO. `DrainedRingAccepts`: while the bus stays up nothing (an unpublished
  slot, `was_full`) keeps a drained ring from accepting. If the bus goes down it can:
  `write_complete` then leaves slots reserved and unpublished, and
  a ring full of those is refused for ever, since `txflow` tests for room before it publishes.
* **compl.** With the bus up and down at any step no message is handled twice, out of order or after its slot was
  returned; while it stays up every message is handled although the doorbell is cleared first. `SlotsReturned`
  compares the index the device was given with the position up to which the host has handled messages: while the bus stays up
  fewer than `Threshold` handled slots are held back within a round, and none between rounds, so that a round that ends without
  its last `read_complete` is caught.
* **flow.** The second look in `brcmf_flowring_enqueue` ("To prevent (work around) possible
  race condition") is enough: no blocked ring that nobody works on is short of the backlog that will unblock it, and the
  interface is never stopped without a blocked ring.
  A backlog unblocks a ring only if the worker comes for it, and a stopped interface sends no packet that
  would call it. The status of an outstanding packet does, or the opening of the ring. The exception is `Stranded`: a packet
  put back for want of an id (all rings share them) or of a DMA mapping (`msgbuf.c:778-783`) leaves the ring out of
  `flow_map`, and if nothing of the ring is outstanding then, only its next packet would bring the worker back. If that ring
  is what stopped the interface, it stays stopped until the ring is deleted. `StopIsLifted` says that this is the only way.
* **msgtx.** `outstanding_tx`, which deletion waits on and which decides whether the worker is queued, is exact;
  a ring's buffer goes back only when the device has answered everything; packets of a flow keep their order when
  one is put back; the worker is queued often enough that everything is finalised.
* **msgtx_faults.** With refusals, missing memory, deletions that give up waiting and the bus
  down at any step, a packet is still in exactly one place and finalised once. The worker has a packet in hand only
  for an open ring with its buffer, until a request fails for want of the bus: a creation left over in the control ring is
  published by the next request, and its answer opens a later ring of the same id, which may have no buffer yet. (Without
  `~leftover` the property holds with these bounds and fails with three packets, which is how the case was found.)
* **fws.** The device closes destinations and suppresses packets in any order while the worker is in the
  unlocked part of sending: the counts that decide when a destination may send new packets are exact, each
  credit is somewhere (owned, lent, with a packet or owed), packets go out again in their first order, and
  every packet is finalised through closings and suppressions.
* **fws_faults.** The same with a bus that refuses and loses packets, overflowing queues, nodes deleted and
  credits given back by separate signals: no packet and no hanger slot is lost, credits still balance, and the network queue
  is not left stopped.
* **ioctl.** Until a command fails with `-EIO`, each gets its own answer, its wake-up is not
  lost, and the counters by which buffers are posted match the buffers posted. After a timeout none of this
  holds: `trans_id` is not compared, and a late answer shifts to the next command. History
  variable `gaveUp` marks the point.
* **sdio.** The host never sends a frame the device has no room for, across the wrap of numbers; what a caller is
  told is true however its timeout races the dpc; and when the dpc stops with nobody about to
  trigger it, no frame, command or packet waits that only the dpc would serve.

* **scan.** `brcmf_notify_escan_complete` takes the request in two statements without a lock (`cfg80211.c:1336`, 1337). What
  holds is `TwiceOnlyByOverlap`: a request is reported twice only if two threads were between those two statements
  together; whatever else ends a scan while another thread sleeps in the abort command finds nothing to report. And the user
  gets one answer all the same (`AnsweredOnce`), because the work item that is queued twice finds the request gone.
  Two threads do get between the two statements: an event and the timer that end the same scan (§6). `VerdictTrue`: the
  message says "done" exactly if the firmware finished, as long as the host ended nothing itself (results carry a constant
  `sync_id`, so from the moment the host decides to, the end of one scan can be taken for the end of the next) and no freed request was
  reported. Whatever happens `scan_req` is eventually cleared (`EventuallyAnswered`), so that cfg80211 does
  not refuse scans for ever, unless the request was dropped (`scan.lost`): for an internal scan, or by a thread that cleared the
  request of a scan started since. The property is about cfg80211's state. The driver's own BUSY bit, which
  refuses scans as well, is cleared in a step of its own, possibly that of a later scan; the property says nothing of it.
* **connect.** A connection is changed by its three keepers one after the other. When everything on its way has
  arrived they agree (`InStep`), and no request is unanswered or has left a bit behind (`Answered`). Links lost, roams,
  disconnects and failing commands of a join may come at any time, with two limits that the code sets. The first is a
  request made while something of an earlier connection was still on its way (`crossed`). The second is a DISASSOC that fails
  although the firmware was linked or joining (`astray`, `cfg80211.c:3106`, 1951): the driver and cfg80211 say disconnected,
  the firmware does not. That breaks `Answered` too: a worker asleep in `brcmf_bss_connect_done` sets CONNECTED afterwards,
  which no event takes back, and the next request is answered as a roam and leaves its SSID set. After either nothing is
  claimed but `ResultsOnce`, which holds always (§6). The deadlock check shows that no call and no event is left half way:
  `MCSpec` may only rest when all is quiet.

### 3.2 Bounds and why they suffice

* *Rings.* Four slots are enough for every relation of four pointers (equal, adjacent, wrapped), for a
  batch that meets the end of the buffer, and for a cancel of part of a batch. With four slots
  `Depth \div 8` is 0, so the hysteresis of `was_full` is not told apart from room for one; the proof covers
  every depth.
* *FlowControl.* A ring is blocked above High = 3 and unblocked below Low = 3; 1024 and 768 in the code leave a gap
  between them that only makes the races rarer. Queues go one above High, so that a put-back may too. A sender
  and the worker are the threads that can race on one ring, two rings share the stop reason; the theorems have any number of senders. `MaxOut = 1` slot leaves a ring
  full after one packet. With `Delay = 1` (96 in the code) a
  packet behind an outstanding one does not queue the worker.
* *MsgbufTx.* `Slots`, `Trickle`, `Delay` and the flush counts are scaled down from 512, 32, 96, 32 and
  96 in proportion to the packets, so that each threshold is crossed. One flow suffices for the liveness
  run, since rings interact only through packet ids and the control ring, which
  `msgtx_faults` has with two flows and a single id.
* *FwSignal.* `Upsets` bounds how often the device closes a destination, asks for packets or deletes a
  node, or the bus fails: two allow a second disturbance while the first is repaired. Two packets suffice for a
  suppressed one to meet one never sent in either order, and two categories with one credit for a loan; three packets
  and a queue of two overflow it.
* *MsgbufIoctl.* Four ids for two answer buffers, one event buffer and one data buffer leave none
  to spare; three commands allow a failed one between two that succeed.
* *SdioBus.* Modulo 8 with offers believed up to 3 ahead keeps the ratio that matters (the sign of a difference
  is defined); numbers start at the last one, so the first frame wraps. `MaxFrames` bounds the frames sent while
  packets are accepted so that numbers do not come round.

* *Scan.* Every access to the driver's request is a step, and four threads may be at one; the one upset lets three of them
  end a scan, and a scan of two parts is two in the driver, so the late end of one meets the next. The theorems
  about `TwiceOnlyByOverlap`, `AnsweredOnce` and `VerdictTrue` have any number of scans and upsets.
* *Connect.* A second request meets what is left of the first, and four upsets let a link that was lost, or one left by
  a disconnect, be followed by a failing command of each kind and another loss.

To see whether a property holds only because its bounds are small, the safety properties were also tried, once, on larger
instances, with the same outcome. Exhaustively: `msgtx` with two flows of two slots, `fws` with three packets and three upsets
(3.7 million states), `ioctl` with four commands, `flow` with two senders (safety, 1.9 million), `scan` with two scans
and no upset (with its liveness, 339,000). By random walks of up to 200 steps, five minutes
each: `msgtx_faults` with four packets and two ids, `fws_faults` with four packets and four upsets. The properties that the theorems of §4 state with `~leftover` were checked in that form, with refusals and
suspends, in 17 million states.

Deadlock is checked in `ring`, `compl`, `flow`, `sdio` and `connect`. In the others packets or commands are bounded, so the
system stops when they are used up, and deadlock checking is switched off.

### 3.3 Fairness

* *CompletionRing.* Weak fairness of the host's interrupt steps (the kernel schedules a raised interrupt and
  its thread) and of the device's doorbell.
* *FlowControl.* Weak fairness of each sender inside `tx_queue_data` and of the worker once it has a ring (straight-line
  code); strong fairness of the worker reaching a ring for which it is *queued*, since a run goes through all the bits that
  are set and other rings may be marked again meanwhile; none for a bit that is merely set, nor for the worker finding work
  after a put-back. Weak fairness of the device's status of each ring's packets and of its answers to create and delete
  requests. None for the stack sending, nor for deletion being asked for.
* *MsgbufTx.* Weak fairness of each thread and of the device serving each ring and each packet. None for the stack
  or for deletion starting. Liveness is checked with as many packet ids as packets: ids are shared, and a ring that
  finds none free and has nothing of its own outstanding is not queued again until its next packet.
* *FwSignal.* Weak fairness of the threads, of the bus completing and unblocking, of the device opening what it
  closed and returning credits; strong fairness of the device's answer to each packet, which has to wait for the
  lock that the worker and the other signals take again and again.
* *Scan.* Weak fairness of a system call that has started, of an armed timer and of its work item (each command
  returns, the protocol layers bound it by a timeout); strong fairness of `scan_done_wk`, of the worker of events and of
  the closing of an interface, which wait for the wiphy mutex or for the next event while calls take it again and
  again. Nothing is assumed of the firmware, which may never end a scan: the timer does.
* `SdioBus`, `MsgbufIoctl`, `Connect` and `CommonRing` have safety properties only. Those of the kind "work is not forgotten"
  (`NothingForgotten`, `WakeNotLost`, `DrainedRingAccepts`) are stated as what must hold when a thread
  stops, which needs no fairness.

## 4 What is proved

TLC's runs are for one small instance each. Nine components have proofs for every value of their constants,
well over 20,000 obligations in all. The proofs of the two rings each begin with the arithmetic of `RingIndex` they rest on:
distances add up, and `View` grows at its end, shrinks at its front and is blind to slots outside.

**FlowRingProofs**, on `CommonRing`, for every `Depth` from 2 to 65535, every `MaxBatch`, every set of messages, with and without the bus
going down:

| Theorem | Statement |
|---|---|
| `Safety` | `Spec => []IInv` |
| `TypeCorrect` | `Spec => []TypeOK`: every pointer is a slot of the ring |
| `StalePointerSafe` | `Spec => []PointersInOrder` |
| `DeviceReadsFilled` | `Spec => []UnreadFilled` |
| `PublishedSlotsKept` | `Spec => PublishedImmutable` |
| `ImplementsFifo` | `Spec => RefinesFifo`: every step of the ring is a step of `RingFifo` or a stutter |
| `DrainedAccepts` | `Spec => DrainedRingAccepts` |

*Argument.* Distances round the ring (`Span`) add up along a chain of pointers as long as the chain does not
go all the way round. `PointersInOrder` says just that of the chain cached read pointer, device's
read index, published index, write pointer. It is not inductive alone: a reservation must not bring the write
pointer up to the cached read pointer (`Granted` leaves a slot free), and a cancel must take back only slots
reserved last and not published. `TodoUnpublished` records the latter, and that such slots do not go round the
end of the buffer, which makes the unwrapped subtraction in `brcmf_commonring_write_cancel` right.
`UnreadFilled` needs `PendingFilled`, about slots that are filled and will be published later: after an `-EIO` that may
be by another transaction. The invariant is the conjunction of all five; the
module has one lemma per action (or pair of them), then the theorems. The only
assumptions are those named in `RingIndex` and `CommonRing` (`DepthAssumption`, `BatchAssumption`, …).
That the ring implements a FIFO then is a matter of views: a publication appends the view from the old to the new write index,
and `UnreadFilled` makes the slot the device takes the head of the sequence. `DrainedAccepts` follows from `Settled`: while the
bus stays up, between two submissions every reserved slot has been published or handed back, and a submission that filled
nothing can hand back all it reserved.

**CompletionRingProofs**, for every depth, every threshold and every set of messages, with and without suspends:

| Theorem | Statement |
|---|---|
| `TypeCorrect` | `Spec => []TypeOK` |
| `ImplementsFifo` | `Spec => RefinesFifo` |
| `FreedSlotsReturned` | `Spec => SlotsReturned`: up to what the host has handled, not only up to what it stored |

*Argument.* The host works on a copy of the device's write index and on a position it has not stored yet. The invariant
puts them in their order round the ring (`InOrder`: returned read index, the host's read index and position, its copy of the
write index, the write index), says that a round takes only messages that were there when it began and does not go round the
end of the buffer (`RoundBounded`), and that every slot from the position to the write index is filled (`PostedFilled`). Handling a message takes the head of the view; returning slots changes nothing the FIFO sees.

**FlowRingProofs**, on `FlowControl`, for any number of rings, senders and any limits `0 < Low <= High`:

| Theorem | Statement |
|---|---|
| `StopHasAReason` | `FlowSpec => []StoppedMeansBlocked` |
| `RecheckSuffices` | `FlowSpec => []BlockedHasBacklog` |
| `FlowTypeCorrect` | `FlowSpec => []FlowTypeOK` |

*Argument.* "A blocked ring has a backlog" is false in the middle of an operation. What is invariant is
`BlockedIsWatched`: if a ring is blocked and short, then a sender has yet to look again or the worker has
yet to test, and whichever it is will see the short queue. `FreeingIsQuiet` and `PlacesOK` place the threads.
`StoppedMeansBlocked` follows from how `Block` counts the other open rings. The theorems
assume `QuietDeletes`, that is `RacyDelete = FALSE`: no ring is deleted while a sender is in `enqueue` on
it. The code does not guarantee that; `flow_racy` shows what happens without it (§6).

**MsgbufTxProofs**, for any number of flows, packets, packet ids and slots, any thresholds, with and without each kind of failure:

| Theorem | Statement |
|---|---|
| `Safety` | `Spec => []IInv` |
| `TypeCorrect` | `Spec => []TypeOK` |
| `PostsOnOpenRings` | `Spec => []WorkerOnOpenRing` |
| `OrderKept` | `Spec => []PacketsInOrder` |
| `PacketsKept` | `Spec => []PacketsConserved` |
| `OutstandingCounts` | `~TimesOut => (Spec => [](~leftover => OutstandingExact))` |
| `RemovedInPeace` | `~TimesOut => (Spec => [](~leftover => QuietRemoval))` |
| `DeviceBacked` | `~Refuses /\ ~Suspends => (Spec => []DeviceRingsBacked)` |

*Argument.* Why no ring goes while the worker has a packet for it: `Lifecycle` says that a closed ring is in exactly
one place of its creation (queued, asked for, answered) and a closing one in exactly one place of its deletion, so what
arrives at the end of either is never for an open ring. A leftover request breaks this, hence `leftover`; what does not
depend on it is kept apart. `RingsAlive` and `OnePlace` give `PacketsConserved`: a packet is queued, in hand, under an id
or finalised, and a step moves it from one to another. `PacketsInOrder` needs that ids are unique: `Order` speaks of the packets
that the ids in a ring stand for, and `IdsOnce` says that an id in use is in one ring, with the device or in a
completion, once, and free only when it is nowhere. Most steps touch nothing of this; `Aside` collects them, as those that
move no packet except to finalise the queue of a ring that goes.

The count that deletion waits on is right for a reason of its own. `Exact` is `OutstandingExact` with the sets it counts
finite. `Drainable` says that the count of a ring that is closed or gone is zero, and that a closing ring has its buffer and
either counts nothing or is waited for. Together (`Quiet`) they are inductive if the wait never times out;
after a timeout, statuses that come late count below zero. Refusals do not matter, and suspends only through a request left
over: the worker posts only on open rings until then. `DeviceBacked` depends on the requests instead: `Backed` says that every
answer is a success, that a ring whose deletion was answered is not open in the device, and that open rings have their buffers. A
deletion that finds no room in the control ring, or the bus down, breaks it: the host then removes the ring without asking
the device (`RemoveAtOnce`). That deletion gives up waiting for packets does it no harm.

**MsgbufIoctlProofs**, for any number of packet ids, buffers of each kind, control slots and commands, with and without
missing memory, timeouts and suspends:

| Theorem | Statement |
|---|---|
| `Safety` | `Spec => []IInv` |
| `TypeCorrect` | `Spec => []TypeOK` |
| `Accounted` | `Spec => []BuffersAccounted` |
| `Matched` | `Spec => []AnswersMatch` |
| `Kept` | `Spec => []LentBuffersKept` |
| `Woken` | `Spec => []WakeNotLost` |

*Argument.* What holds whatever becomes of the commands is kept apart (`Basic`): types, that the control ring never
overflows and no more buffers than agreed are posted, that the count of data buffers covers those that may come back
(`DataCounted`), and that the interrupt thread has an event in hand while it treats one. The rest (`InOrder`) holds until a
command fails with `-EIO`, and describes two journeys. A buffer's: the unpublished end of its ring or the control ring,
the device, a completion ring; `Places` says it is in one place, once, under an id of its kind, `Counts` that the
counters count those buffers up to the one the interrupt thread has in hand. A command's: `Command` says where it is at each
place of the caller, in the control ring (`Asking`), at work (`Working`), on its way back (`Replying`), noted by the
interrupt thread (`Noting`), noted with the flag set (`Known`) or nowhere, and in each of these that there is no second
one. From `Noting` on, the id noted is of a buffer that carries the answer and is no longer posted, so nothing else
can free it; `NoneLost` says that this is the only id neither free nor posted. `-EIO` ends all this: from then on an
answer may be on its way that no caller waits for.

**ScanProofs**, for any number of scans, forms of scan, upsets and waiting events:

| Theorem | Statement |
|---|---|
| `Once` | `Spec => []TwiceOnlyByOverlap` |
| `HeldOnce` | `Spec => []("raced" \notin alarm => OneHand /\ NotReportedYet)` |
| `Answered` | `Spec => []AnsweredOnce` |
| `Verdicts` | `"split" \notin Forms \/ "wext" \notin Forms => (Spec => []VerdictTrue)` |
| `Types` | `Spec => []TypeOK` |

*Argument.* Whoever ends a scan clears `cfg.request` before anything that sleeps and carries the request from there on.
`OneHand`: a request that a thread has read is in nobody else's hand, and in the driver's pointer only until that thread clears
it. `NotReportedYet`: wherever it is, cfg80211 has not been given it. Both hold until two threads overlap between read and
clearing, an event that `alarm` records at the second read; no other interleaving breaks them.
That would not be inductive if a request could be started again, so `OfTheLast` and `NoneAhead` add that every request
about belongs to a scan already asked for, a second part only once its first is done.

`AnsweredOnce` is about what cfg80211 keeps, and holds whether or not a request was reported twice. `Answering`: there is no message while a request is in place, a message kept is of the
last scan, and a scan that has not started has neither, except in the command that starts it. `Mutex` makes this inductive: the
call and the closing of the interface hold the wiphy mutex wherever they sleep, so the work item never sees a request half made.

`VerdictTrue` depends on the firmware, whose events do not say which scan has ended. `Agreed` holds until the host ends a
scan itself: nobody is in an abort, at most one end of a scan is on its way and none while the firmware scans, whatever runs
or has ended is what the driver's request says (`Believed`), and each verdict about to be reported, reported
or kept in a message is that of the firmware (`Reporting`). The hypothesis on `Forms` excludes the leftover of a split
scan met by a scan of the wireless extensions, where the property fails (§6).

The proofs corrected the model. `alarm` was set when the abort command ran; but from the moment the host has decided, an event
of the escan it is about to abort can already complete the next one, so it is now set at that decision. And
`lost` was set only if the dropped request was still one of cfg80211's; with two upsets the interface may have
closed in between, and the message it keeps is then never sent.

**ConnectProofs**, for any number of access points, requests and upsets:

| Theorem | Statement |
|---|---|
| `Once` | `Spec => []ResultsOnce` |
| `Mutex` | `Spec => []OneCall` |
| `Types` | `Spec => []TypeOK` |
| `OnTheWay` | `Spec => []Course` |
| `InStepAlways` | `Spec => []InStep` |
| `AnsweredAlways` | `Spec => []Answered` |

*Argument.* A result is posted by whoever takes the bit CONNECTING away, and the bit is set once for each
request. `ResultsOnce` alone is not inductive, since the bit may be set or just taken: `Owed` counts, beside the
results, what can still become one (a request before it has set the bit, the bit, a success whose worker sleeps
before it posts) and says that all together are no more than the requests. That a call holds the mutex as long
as it sleeps (`OneCall`) makes it one request at a time.

`InStep` and `Answered` speak of quiet states, but what makes them true is what the queues hold before. `Course` says
it, from the first state to the first request that crosses with something earlier or the first DISASSOC that leaves the firmware linked or joining. The driver is *attached* (connected,
or asleep before it says so), *awaits* the end of a join, or neither; a connection is *doomed* if a call is leaving
it or its loss is among the events. The driver's part: the events lead from the access point it believes in to
the firmware's (`Route`: a path over the queue that each link and roam continues and each loss ends where it is); if
the firmware has no link, a loss, a failure or a join under way will say so (`Ends`); a link of the firmware has somebody to
know of it or to leave it (`Held`); a join that is awaited has its last event ahead (`WillAnswer`), which for a
supplicant in the firmware is the second of two. A DISASSOC that fails with nothing to end changes nothing of this
(`Ebb` says what is left of the queue then). cfg80211's part: of a connection that is not doomed it knows or is told, and
the last message has the right access point (`ToldLink`); without one, no message after the last disconnection
connects it (`ToldEnd`, `OverAtLast`). In a quiet state both queues are empty, and `Agreed` reads both properties off.

**SdioProofs**, for every window smaller than half the range of sequence numbers, every length and marks of the transmit
queue, every bound of the dpc, any number of commands and failing transfers:

| Theorem | Statement |
|---|---|
| `WindowKept` | `Spec => []WindowRespected` |
| `VerdictsTrue` | `Spec => []VerdictTrue` |
| `AnswersNotLost` | `Spec => []AnswersKept` |
| `NothingLeft` | `Spec => []NothingForgotten` |
| `TypeCorrect` | `Spec => []TypeOK` |

*Argument.* The invariant has a part for each. `Windows`: offers on their way to the host grow, none is below what the host
may already send nor above the room left; so believing the oldest is safe, and sending brings all nearer
by the same number, whatever wraps (`Nearer`). `SeqAssumption` asks that the window is at most `MaxAhead` and that this
is less than half of `Wrap`, as 0x40 is of 256: then no difference of numbers is ambiguous. `Underway` and `Verdicts`: the
flag and the error the caller and the dpc share tell, at each place of the caller, whether its command has
reached the device. `Answers`: until a command gives up waiting, the one answer there is is to be given, on its way or kept, and
belongs to the command that waits. `Work` says for each kind of work who has yet to look: the dpc at a place before the one
that serves it, a trigger, or the device's interrupt line; "nothing is left when the dpc stops" is this where nobody is.

**FwSignalProofs**, for any number of destinations, categories, packets, slots, credits and upsets, any length and water
marks of the queues (`Low < Hi <= PsqLen`), implied or explicit credits:

| Theorem | Statement |
|---|---|
| `CoreAlways` | `Spec => []Core` |
| `TypeCorrect` | `Spec => []TypeOK` |
| `StopReasoned` | `Spec => []StopHasAReason` |
| `CreditsBalanced` | `Spec => []CreditBalance` |
| `CountedTrue` | `~BusFails /\ ~Deletes => (Spec => []CountsExact)` |
| `SentInTurn` | `~BusFails => (Spec => EarliestFirst)` |
| `KeptWithRoom` | `Spec /\ [][Fits]_vars => []PacketsConserved` |
| `PacketsKept` | `Spec => []PacketsConserved`, if all traffic is to one destination and `Hi < PsqLen` |

*Argument.* `Core` says where packets may be. A packet on its way is with one of the worker, the bus and the device
(`Placed`) and neither finalised nor queued; one in a queue is there once, and its destination and FIFO are the
queue's (`Waits`); one hangs in its slot until it is finalised (`Hung`). To the packets a step does one of six things: nothing
(`Steady`), take one from a queue (`Takes`), put one back (`Requeues`), finalise one (`Tosses`), accept one, or flush a
node. One lemma for each says what becomes of `Core`, one for each action which of them it is; the properties are then
proved by kinds.

`CreditBalance` is about sums of loans, a row of them for the borrower and a column for the lender. `SumChange` says what a
sum is after one of its terms has changed, and with it borrowing and returning keep the balance (`BorrowBalanced`,
`ReturnBalanced`): the clamp in `brcmf_fws_return_credits` is never in the way, because a FIFO without loans has at most its
credits less what its packets hold. `EarliestFirst` follows from `Ordered`: the numbers in a queue rise,
and what is suppressed or on its way is ahead of what was never sent; that new packets are held back until the last answer
is due to the exact count of those on their way. The hypotheses are what the code needs. A packet the bus refuses is put back without being
counted, and one that cannot be put back is counted out of transit twice; what a deletion flushes is not counted (§6 and the
hazards). `SentInTurn` allows deletions: a flush leaves order and transit alone.

A packet accepted for a queue that has no room is lost, as `brcmf_fws_process_skb` does not look at the error; `KeptWithRoom`
says that nothing else loses one. That the water mark prevents it is so for one destination (`OneFor`): what leaves or joins a
queue looks at the mark again, except a packet that the worker puts back, and there is one such packet, for which
`Within` keeps a place as long as it is in hand. With two destinations the one in short supply is started by the other.

**Only model-checked.** The liveness properties (`StopIsLifted`, `MessageHandled`,
`EventuallyFinalised`, `EventuallyAnswered`: fairness and ENABLED are out of the provers'
reach). No module with a theorem has a recursive operator. `Sum` of `FwSignal` is a recursive function, and what it is over
a changed row is proved without induction: `Climb` says, from the pigeon-hole principle, that a set of numbers with 0 and the
next of each number below n has n.

## 5 Abstractions

Common to all: a packet or message is a number or a model value; addresses, DMA mappings, lengths, headers and
logging are left out; the device is any behaviour that keeps the protocol (answers what it was asked, once).
Memory is sequentially consistent: the driver's use of barriers is not examined.

* **CommonRing.** `brcmf_commonring_config`, when a ring is used again, is `Init`, which also clears `was_full` (the code
  leaves it as it was). In `write_complete` the tests of the write count and of the bus state (`commonring.c:160-175`) are one step.
* **CompletionRing.** A device posts nothing while the bus is down (it has acknowledged D3), but may still owe
  its doorbell.
* **FlowControl.** A queue is its length. The ring shared with the device is `MaxOut` places for outstanding packets. Handling a
  status and the call of `txflow` that follows it are one step. What the packet that creates a ring meets and the time-out of a
  deletion are left to `MsgbufTx`. `TestHigh` reads the flag and the length at one moment. A sender
  inside `enqueue` on a ring that is freed would use freed memory; the model stops short of that, so it says nothing about
  it. A closed ring (one whose creation is not answered yet) does not count as blocking the interface when another ring
  unblocks, as in the code: the interface may be started although a closed ring's queue is long, and that queue then grows
  until its own length is tested again.
* **MsgbufTx.** One sender, and a flow is its ring: the hash is not modelled. An id is any
  free one. `Outruns` allows the response to a create request to be handled between two statements of the sender,
  the enqueue that follows the creation and the creation itself; without it the first packet of a ring is always
  scheduled. The code can take a ring away under a sender that is about to enqueue its first packet, or after a leftover
  request under a worker with a packet in hand, both of which then use freed memory; the model stops short of that
  (`InUse`), so it says nothing about what follows. Publishing and ringing the bell each test the bus
  (`write_wptr`, `ring_bell`); here they test it once. While `was_full` is set a ring refuses although it has a little room
  (`Scarce`); when it is set is left open, so the worker may be refused in either case.
* **MsgbufIoctl.** The ring for receive buffers always has room; the interrupt thread may serve the rings
  in any order; ids are allotted from 0 at attach. Events and received packets are only the buffers that carried
  them. An answer carries at least a byte: with `ret_len == 0` (`msgbuf.c:566-573`) a missing buffer is no error.
* **FwSignal.** A packet's number stands for its free-running count and hanger generation, which excludes a
  status for a former owner of a slot; a free slot is any free one (`slot_pos` is left out). A destination's
  `ac_bitmap` is all FIFOs. One interface. Traffic indication (TIM) is left out, except that the lock is let go where the
  code does so to send it (`MarkSuppressed`, `SkbSchedule`). Flow control is active from the start, and the bus blocks
  only inside `txdata`. `bcmc_credit_check` is on, that is, the device has announced its BCMC credits (`fwsignal.c:1649`); before that,
  such packets go without one (2290). Always there: memory, a free hanger slot for each packet accepted (packets are as
  many as slots), and a node for each destination. `SetState` and `Enq` keep the lock, although `brcmf_fws_tim_update` lets go of it
  (976) when a destination closes or a suppressed packet is queued; so the test of the water mark (1329) belongs to the step that queues.
* **SdioBus.** Packets have no identity. Left out: a failing `vzalloc` for an answer (`sdio.c:2106`), precedences and the device's
  flow control per precedence (`fcstate`), clocks and sleep, superframes, receive errors, bus states other than DATA, and the mode in which the
  interrupt runs the dpc (`sdio_in_isr`). The step between testing and clearing `txoff` takes no lock in
  the code; `FitsGap` excludes that `TXHI - TXLOW` (256) packets are queued within it. `fails` and `lost` are
  history variables.

* **Scan.** The table of BSS entries, channels, random addresses, the phases of a P2P search and the beacon
  reports are left out. Reading the driver's request, clearing it, the abort command, the report and each clearing of BUSY are
  steps. Still together are: `timer_delete_sync` with the clearing before it; the test of `int_escan_map` with the
  `cfg80211_scan_done` it guards; the tests by which an event or the timer decides to end a scan (`cfg80211.c:4260`), which
  come one step before the reading; the test of `scan_req` with the request of the wireless extensions. The
  command of `brcmf_scan_config_mpc` (1362) is not a step of its own; the thread may rest before the report all the same. Runs
  with "split" leave out "wext", with which `VerdictTrue` fails (§6). `int_escan_map` is a flag.
* **Connect.** All access points have one SSID; one connection at a time, no MLO. The firmware is what the driver
  expects of it: a reassociation that fails loses the link, DISASSOC is answered by an event if there was a
  link, and the two events of a supplicant come in either order. A user reassociates with the kind of key he is
  connected with. Keys, elements and the commands that set them are one sleep each, and a key or
  an element that cannot be set leaves nothing of what was reset before it; `rdev_del_key`, which the work item calls for
  a lost link, sends commands that change nothing kept here. OWE, suspend and beacon loss, which also
  call `brcmf_link_down`, IBSS and the profile of the pfn offload are left out. A roam of a supplicant in the firmware is
  announced by its own event, which the driver does not tell (`cfg80211.c:7978`): `InStep` then does not compare the
  addresses.

## 6 Where code and comments part

**A flow ring deleted under a sender leaves the interface stopped** (`flow_racy`).
`core.h:167` says of `BRCMF_NETIF_STOP_REASON_FLOW`: "netif stopped due to flowring full."
`brcmf_flowring_delete` unblocks the ring (`flowring.c:243`) and then removes it, with no lock that
excludes `brcmf_flowring_enqueue`. A sender that appended a packet blocks the ring in
between. The ring is then gone with the flag still set, and only a later ring of the interface that fills and drains clears
it.

**A packet stays in the hanger for ever.** The hanger "holds packets awaiting firmware
txstatus", but `brcmf_fws_process_skb` (`fwsignal.c:2155`) ignores that `brcmf_fws_enq` found the queue full: the
packet is then in no queue, was not sent, and keeps its slot until the interface goes. The queue does fill up,
because the network queue is started again by *any* queue that falls below the low water mark. With two
stations, one asleep, `NPackets = 5` and `PsqLen = 3` TLC reaches it.

**A scan reported twice** (`Scan` with `ReportedOnce`). `brcmf_notify_escan_complete` says at `cfg80211.c:1334`: "clear scan request, because
the FW abort can cause a second call to this functon and might cause a double cfg80211_scan_done". It reads the pointer
(1336) and clears it (1337) without a lock, and the workers of the events and of the escan timer and a closing interface call it
independently. TLC has the timer expire while the last event is handled: both read the request, both report it.
`TwiceOnlyByOverlap` says that this is the only way.

**A DISASSOC that fails** (`Connect` without `~astray`). `brcmf_cfg80211_disconnect` has cleared the driver's bits and told cfg80211 of the
disconnection before it sends the command; if that fails (`cfg80211.c:3106`) it returns the error, which cfg80211
does not act upon, and the firmware keeps its link. The same holds in `brcmf_link_down` (1951). The three then disagree with
nothing under way, and what the firmware later says of that link is taken for the next one: `InStep` and `Answered` fail.

**Requests that cross with an earlier connection** (`Connect` without `~crossed`). A disconnection posted by an
attempt that was given up is handled after the next request has set its SSID, and clears it (`sme.c:1334`): the success of
that request is told to the user and then dropped. A link-down event of an earlier attempt fails a new one that the
firmware then completes (`cfg80211.c:7989`). A second request is accepted while the first is on its way, and
if it fails takes back the bit the first one needs (`cfg80211.c:3073`).

**A request freed under the thread that reports it.** A thread that ends a scan carries the request through its
abort command; if the interface goes down meanwhile, `core.c` frees the request. `ReportedIsCurrent` states the
warning of `cfg80211_scan_done` (`scan.c:1067`); `Scan` violates it with the bounds of its run.

**A leftover of a split scan.** If the driver refuses the first part, `int_scan_req` stays, and a scan
through the wireless extensions is answered with its verdict (`scan.c:973`): `VerdictTrue` fails with
`Forms = {"split", "wext"}`.

Smaller observations are in `PROJECT.json` as hazards with a note, where a property had to be stated with a
restriction: an `-EIO` from `write_complete` whose message is published after all; answers that shift after a
timed out command; `outstanding_tx` below zero after a deletion that timed out; counters of `fwsignal.c` that a
rollback leaves wrong.

## 7 Not modelled

The mapped lines are about 4,900 of 183,000, most of them in the 45,000 lines of brcmfmac. The rest of the tree is
code of a different kind: the kernel's cfg80211 (parsing of netlink messages, tables of channels, rules
and rates, BSS elements), headers of the kernel, and the compatibility layer, all copied from Linux; their concurrency is the
wiphy mutex, which `Scan` and `Connect` have. Within the driver, what is left out and why:

* **Hash of flows, peers and TDLS** (`flowring.c`). Sequential but for one race: the hash slot and the ring number are the first
  free ones, found without a lock (`flowring.c:127`), so that senders of two interfaces can take the same; `MsgbufTx` takes a flow to be its ring.
* **fwsignal: deletion of an interface, receive reordering, changed credit map, `FW_SUPPRESS_ACKED`.** Deletion comes when
  traffic has stopped; the reorder buffers belong to one thread.
* **PCIe power states, download, probe.** D3 is one request and one answer with a timeout, whose late answer can be
  taken for the next, as `MsgbufIoctl` shows for commands; the bus going down and up is in `CommonRing`,
  `CompletionRing`, `MsgbufTx` and `MsgbufIoctl`. The rest runs once in one thread.
* **SDIO clocks, sleep, superframes, receive errors, watchdog, `sdio_in_isr`.** They answer to hardware that
  the repository describes by register names only, so that a model would invent the other side. With `sdio_in_isr` the dpc runs
  under a semaphore, and whoever fails to take it leaves only `dpc_triggered` set (`sdio.c:4588`), which its holder may have
  looked at for the last time.
* **USB** (`usb.c`): pools under one lock each, cancelled by the USB core, which is not in the repository.
* **core, fweh, fwil**: interfaces' life and events of interfaces. The order of events and their one worker are
  in `Scan` and `Connect`, and the mutex of commands is why `MsgbufIoctl` and `SdioBus` have one caller.
* **firmware.c**: files requested one after the other by callbacks of the kernel's loader.
* **cfg80211.c: access points, stations, keys, power, IBSS, suspend**: requests serialised by the wiphy mutex
  and translated to variables whose effect is in the firmware.
* **p2p.c**: its waits and retries are measured against dwell times that only the firmware knows; without time a model
  would allow orders that cannot happen.
* **btcoex.c, twt.c, bt_shared_sdio, vendor commands, chip.c, settings and features, brcmutil**: a timer that sets
  and restores registers, a list that mirrors what the firmware said, a peer that is not in the repository, and code
  without state or run once.

## 8 Running it

```
tlc -workers 2 -config CommonRing.cfg MCCommonRing      # the other runs alike: PROJECT.json "runs"
tlapm FlowRingProofs.tla
tlapm FwSignalProofs.tla                                # and the other modules named *Proofs
```

The long runs (`ioctl`, `sdio`, `fws`, `fws_faults`, `msgtx`, `flow`, `scan`) take one to four minutes, the
others seconds.
`Scan` takes `SequencesExt` from the community modules; the proofs need the standard library of TLAPS.
