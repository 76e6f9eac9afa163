-------------------------------- MODULE Scan --------------------------------
(* Scans, from the request of the user to the message that answers it.     *)
(* nl80211 or the wireless extensions start a scan (nl80211.c, scan.c);    *)
(* cfg80211 splits it into a first part and one of the 6 GHz channels and  *)
(* hands each to brcmfmac (cfg80211.c), which starts an escan in the       *)
(* firmware; it ends by an event, by a timer, or because something else    *)
(* aborts it; cfg80211_scan_done queues the work item that answers.        *)
(* Scheduled scans start escans of their own.                              *)
(*                                                                         *)
(* Threads meet where they sleep, in a firmware command: "call" is a       *)
(* system call or scan_done_wk, both under the wiphy mutex; "event" the    *)
(* worker of firmware events, "timeout" the one of the escan timer, "down" *)
(* the closing of the interface.  None of the last three takes the mutex   *)
(* in the driver.                                                          *)
EXTENDS Naturals, Sequences, SequencesExt, FiniteSets

CONSTANTS
  MaxScans,     \* scans the user asks for
  MaxUpsets,    \* aborts by other operations, scheduled scans that find a network, and
                \*   times the interface goes down, together
  MaxEvents,    \* events of the firmware waiting for their worker
  Forms,        \* the forms of scan: a subset of {"split", "six", "wext"}
  NoReq

ASSUME ScanAssumption ==
  /\ MaxScans \in Nat \ {0} /\ MaxUpsets \in Nat /\ MaxEvents \in Nat \ {0}
  /\ Forms \subseteq {"split", "six", "wext"}

Scans == 1 .. MaxScans
Parts == {"whole", "low", "high"}
Reqs == Scans \X Parts           \* struct cfg80211_scan_request: the user's, and its copies
Pno == << 0, "pno" >>            \* the escan of a scheduled scan
Pfn == << 0, "pfn" >>            \* what the scheduled scan finds
ASSUME NoReqAssumption == NoReq \notin Reqs \cup {Pno, Pfn}

Threads == {"call", "event", "timeout", "down"}
Idle == [pc |-> "idle", req |-> NoReq, aborted |-> FALSE, then |-> "done", old |-> NoReq]

VARIABLES
  rdev,      \* cfg80211_registered_device: scan_req, int_scan_req, scan_6ghz, scan_msg,
             \*   scan_done_wk queued, the interface running, a scheduled scan
  info,      \* of the requests: aborted, notified
  cfg,       \* brcmf_cfg80211_info: scan_request, BUSY, ABORT, SUPPRESS, int_escan_map, the
             \*   timer, its work item, READY, the requests of pno
  fw,        \* what the firmware scans
  events,    \* events on their way to the worker
  lock,      \* wiphy mutex
  th,        \* the threads
  asked,     \* scans asked for so far
  upsets,    \* and of the others
  \* history
  scan,      \* of the scan asked for last: it was started, messages sent about it, a part
             \*   of it was taken and not reported, the firmware finished its last part
  alarm      \* cfg80211_scan_done was called "twice" for a request or for one that is "stale";
             \*   two threads "raced" for a request; the host has ended a scan itself, "abort"

kernel == << rdev, info >>
device == << fw, events >>
history == << scan, alarm >>
vars == << rdev, info, cfg, fw, events, lock, th, asked, upsets, history >>

NewScan == [started |-> FALSE, answers |-> << >>, lost |-> FALSE, finished |-> FALSE]

Init ==
  /\ rdev = [req |-> NoReq, int |-> NoReq, six |-> FALSE, msg |-> << >>, wk |-> FALSE,
             running |-> TRUE, sched |-> FALSE]
  /\ info = [aborted |-> {}, notified |-> {}]
  /\ cfg = [request |-> NoReq, busy |-> FALSE, abort |-> FALSE, suppress |-> FALSE,
            int |-> FALSE, timer |-> FALSE, work |-> FALSE, ready |-> TRUE, pno |-> 0]
  /\ fw = NoReq /\ events = << >> /\ lock = "free"
  /\ th = [t \in Threads |-> Idle]
  /\ asked = 0 /\ upsets = 0
  /\ scan = NewScan /\ alarm = {}

Upset == upsets < MaxUpsets /\ upsets' = upsets + 1

-----------------------------------------------------------------------------
(* The end of a scan in the driver, brcmf_notify_escan_complete: the       *)
(* request is read, then cleared and the timer stopped, without a lock;    *)
(* the firmware is told to abort (one step), the command returns           *)
(* (another), the request is reported and BUSY is cleared.                 *)
At(pc, then) == [Idle EXCEPT !.pc = pc, !.then = then]
FwAbort(t, then) == t # "event" \/ then # "done"    \* only the event of its end needs no abort

Notify(t, aborted, then) ==
  /\ th' = [th EXCEPT ![t] = [At("read", then) EXCEPT !.aborted = aborted]]
  /\ alarm' = alarm \cup (IF FwAbort(t, then) THEN {"abort"} ELSE {})

Overlaps(t) == cfg.request # NoReq /\ \E u \in Threads \ {t} : th[u].pc = "clear" /\ th[u].req = cfg.request
ReadRequest(t) ==
  /\ th[t].pc = "read"
  /\ th' = [th EXCEPT ![t].pc = "clear", ![t].req = cfg.request]
  /\ alarm' = alarm \cup (IF Overlaps(t) THEN {"raced"} ELSE {})
  /\ UNCHANGED << kernel, cfg, device, lock, asked, upsets, scan >>

(* What is cleared may be the request of a scan started since.             *)
Taken_Kept(c) == [c EXCEPT !.timer = FALSE]
Taken(c) == [c EXCEPT !.request = NoReq, !.timer = FALSE]
ClearRequest(t) ==
  /\ th[t].pc = "clear"
  /\ cfg' = Taken(cfg)
  /\ th' = [th EXCEPT ![t].pc = IF FwAbort(t, th[t].then) THEN "abort" ELSE "finish"]
  /\ scan' = [scan EXCEPT !.lost = @ \/ (cfg.request \notin {NoReq, th[t].req} /\ cfg.request[1] = asked)]
  /\ UNCHANGED << kernel, device, lock, asked, upsets, alarm >>

(* The firmware stops scanning; its event of an aborted scan is ignored.   *)
AbortCommand(t) ==
  /\ th[t].pc = "abort"
  /\ th' = [th EXCEPT ![t].pc = "finish"]
  /\ fw' = NoReq
  /\ UNCHANGED << kernel, cfg, events, lock, asked, upsets, history >>

(* cfg80211_scan_done                                                      *)
Current == {rdev.req, rdev.int}
ScanDone(r, aborted) ==
  /\ info' = IF r \notin Current THEN info
             ELSE [notified |-> info.notified \cup {r},
                   aborted |-> IF aborted THEN info.aborted \cup {r} ELSE info.aborted \ {r}]
  /\ rdev' = [rdev EXCEPT !.wk = TRUE]
  /\ alarm' = alarm \cup (IF r \notin Current THEN {"stale"} ELSE IF r \in info.notified THEN {"twice"} ELSE {})

(* What the caller goes on with: after brcmf_abort_scanning nothing, an    *)
(* internal scan or the rest of the closing; otherwise nothing or the end  *)
(* of a scheduled scan.                                                    *)
After(c, then) ==
  CASE then = "internal" -> [c EXCEPT !.abort = FALSE, !.busy = TRUE]
    [] then = "downed" -> [c EXCEPT !.abort = FALSE, !.ready = FALSE]
    [] OTHER -> [c EXCEPT !.abort = FALSE]
NextPc(then) ==
  CASE then = "internal" -> "issue" [] then \in {"downed", "unsched", "leave"} -> then [] OTHER -> "idle"
GoesOn(t, then) ==
  /\ th' = [th EXCEPT ![t] = [Idle EXCEPT !.pc = NextPc(then)]]
  /\ lock' = IF t = "call" /\ NextPc(then) = "idle" THEN "free" ELSE lock

(* An internal scan takes precedence: the request is then not reported.    *)
Report(t) ==
  /\ th[t].pc = "finish"
  /\ cfg' = [cfg EXCEPT !.int = FALSE]
  /\ IF cfg.int \/ th[t].req = NoReq
     THEN /\ scan' = [scan EXCEPT !.lost = @ \/ (th[t].req # NoReq /\ th[t].req[1] = asked)]
          /\ UNCHANGED << kernel, alarm >>
     ELSE ScanDone(th[t].req, th[t].aborted) /\ UNCHANGED scan
  /\ th' = [th EXCEPT ![t] = At("busy", th[t].then)]
  /\ UNCHANGED << device, lock, asked, upsets >>

(* BUSY is cleared once more at the end of brcmf_abort_scanning.           *)
ClearsBits == {"aborted", "internal", "downed"}
NotBusy(t) ==
  /\ th[t].pc = "busy"
  /\ cfg' = [cfg EXCEPT !.busy = FALSE]
  /\ IF th[t].then \in ClearsBits
     THEN th' = [th EXCEPT ![t].pc = "bits"] /\ UNCHANGED lock
     ELSE GoesOn(t, th[t].then)
  /\ UNCHANGED << kernel, device, asked, upsets, history >>
ClearBits(t) ==
  /\ th[t].pc = "bits"
  /\ cfg' = After([cfg EXCEPT !.busy = FALSE], th[t].then)
  /\ GoesOn(t, th[t].then)
  /\ alarm' = alarm \cup (IF cfg.busy THEN {"abort"} ELSE {})
  /\ UNCHANGED << kernel, device, asked, upsets, scan >>

(* brcmf_abort_scanning                                                    *)
AbortScanning(t, c, then) ==
  /\ cfg' = [c EXCEPT !.abort = TRUE]
  /\ lock' = IF t = "call" THEN "call" ELSE lock
  /\ IF cfg.int \/ cfg.request # NoReq
     THEN Notify(t, TRUE, then)
     ELSE /\ th' = [th EXCEPT ![t] = At("bits", then)]
          /\ alarm' = alarm \cup (IF cfg.busy THEN {"abort"} ELSE {})

-----------------------------------------------------------------------------
(* The start of a scan.                                                    *)

(* brcmf_cfg80211_scan refuses while another scan runs or is being         *)
(* aborted, and, what is left open here, while the interface connects.     *)
Refuses == cfg.busy \/ cfg.abort \/ cfg.suppress \/ ~cfg.ready

DriverScan(r, then, old) ==
  /\ ~Refuses
  /\ cfg' = [cfg EXCEPT !.request = r, !.busy = TRUE]
  /\ lock' = "call"
  /\ th' = [th EXCEPT !["call"] = [pc |-> "issue", req |-> r, aborted |-> FALSE, then |-> then, old |-> old]]

(* nl80211_trigger_scan and cfg80211_scan, or the wireless extensions,     *)
(* which do not split the scan.                                            *)
FirstPart(k, form) ==
  << k, CASE form = "split" -> "low" [] form = "six" -> "high" [] OTHER -> "whole" >>

CanScan == rdev.req = NoReq /\ rdev.msg = << >>

TriggerScan(form) ==
  LET k == asked + 1
      r == FirstPart(k, form)
      started == [rdev EXCEPT !.req = << k, "whole" >>, !.six = (form = "six"),
                              !.int = IF form = "wext" THEN @ ELSE r]
  IN  /\ lock = "free" /\ rdev.running /\ CanScan /\ asked < MaxScans
      /\ asked' = k
      /\ \/ /\ DriverScan(r, "trigger", rdev.int)
            /\ rdev' = started
         \/ /\ rdev' = [started EXCEPT !.req = NoReq, !.int = IF form = "six" THEN rdev.int ELSE @]
            /\ UNCHANGED << cfg, lock, th >>
      /\ scan' = NewScan
      /\ info' = [notified |-> info.notified \cap {rdev.int}, aborted |-> info.aborted \cap {rdev.int}]
      /\ UNCHANGED << device, upsets, alarm >>

(* brcmf_do_escan: the firmware starts, instead of what it was doing, or   *)
(* refuses.                                                                *)
EscanCommand(t) ==
  /\ th[t].pc = "issue"
  /\ \/ /\ fw' = IF t = "event" THEN Pno ELSE th[t].req
        /\ th' = [th EXCEPT ![t].pc = "started"]
        /\ scan' = IF t = "event" THEN scan ELSE [scan EXCEPT !.finished = FALSE]
     \/ UNCHANGED << fw, scan >> /\ th' = [th EXCEPT ![t].pc = "failed"]
  /\ UNCHANGED << kernel, cfg, events, lock, asked, upsets, alarm >>

(* Back from the command: the timer is armed whatever happened meanwhile.  *)
Armed_Not(c) == c
Armed(c) == [c EXCEPT !.timer = TRUE]
ScanStarted ==
  /\ th["call"].pc = "started"
  /\ cfg' = Armed(cfg)
  /\ scan' = [scan EXCEPT !.started = TRUE]
  /\ th' = [th EXCEPT !["call"] = Idle] /\ lock' = "free"
  /\ UNCHANGED << kernel, device, asked, upsets, alarm >>

Failed(c) == [c EXCEPT !.busy = FALSE, !.request = NoReq]

(* The first part fails: the request is freed, its copy kept.              *)
TriggerFails ==
  /\ th["call"].pc = "failed" /\ th["call"].then = "trigger"
  /\ cfg' = Failed(cfg)
  /\ rdev' = [rdev EXCEPT !.req = NoReq, !.int = IF rdev.six THEN th["call"].old ELSE @]
  /\ th' = [th EXCEPT !["call"] = Idle] /\ lock' = "free"
  /\ UNCHANGED << info, device, asked, upsets, history >>

-----------------------------------------------------------------------------
(* The answer: ___cfg80211_scan_done.                                      *)
Reported == IF rdev.int # NoReq THEN rdev.int ELSE rdev.req
Verdict == IF Reported \in info.aborted THEN "aborted" ELSE "done"
Cleared_KeepsRequest(r) == [r EXCEPT !.int = NoReq]
Cleared(r) == [r EXCEPT !.req = NoReq, !.int = NoReq]

(* The message is sent; it is kept for scan_done_wk when the interface     *)
(* goes down.                                                              *)
Sent(k, verdict) == scan' = [scan EXCEPT !.answers = Append(@, << k, verdict >>)]
Answer(r) == rdev' = Cleared(r) /\ Sent(rdev.req[1], Verdict)

(* The second part is wanted: cfg80211_scan_6ghz                           *)
Another == rdev.running /\ ~rdev.six /\ Reported \notin info.aborted

ScanDoneWork ==
  /\ lock = "free" /\ rdev.wk
  /\ \/ /\ rdev.msg # << >>
        /\ Sent(rdev.msg[1], rdev.msg[2])
        /\ rdev' = [rdev EXCEPT !.wk = FALSE, !.msg = << >>]
        /\ UNCHANGED << cfg, lock, th >>
     \/ /\ CanScan
        /\ rdev' = [rdev EXCEPT !.wk = FALSE]
        /\ UNCHANGED << cfg, lock, th, scan >>
     \/ /\ rdev.msg = << >> /\ rdev.req # NoReq          \* no 6 GHz channel, or the driver refuses
        /\ Answer([rdev EXCEPT !.wk = FALSE])
        /\ UNCHANGED << cfg, lock, th >>
     \/ /\ rdev.msg = << >> /\ rdev.req # NoReq /\ Another
        /\ rdev' = [rdev EXCEPT !.wk = FALSE, !.six = TRUE, !.int = << rdev.req[1], "high" >>]
        /\ DriverScan(rdev'.int, "second", rdev.int)
        /\ UNCHANGED scan
  /\ UNCHANGED << info, device, asked, upsets, alarm >>

(* The second part fails: the first is answered for.                       *)
SecondFails ==
  /\ th["call"].pc = "failed" /\ th["call"].then = "second"
  /\ cfg' = Failed(cfg)
  /\ LET r == IF th["call"].old # NoReq THEN th["call"].old ELSE rdev.req
     IN  Sent(rdev.req[1], IF r \in info.aborted THEN "aborted" ELSE "done")
  /\ rdev' = Cleared(rdev)
  /\ th' = [th EXCEPT !["call"] = Idle] /\ lock' = "free"
  /\ UNCHANGED << info, device, asked, upsets, alarm >>

-----------------------------------------------------------------------------
(* The firmware, its events and the timer.                                 *)
Push(e) == Len(events) < MaxEvents /\ events' = Append(events, e)

FwFinish(status) ==
  /\ fw # NoReq
  /\ Push([of |-> fw, status |-> status])
  /\ fw' = NoReq
  /\ scan' = IF status = "success" /\ fw \in Current THEN [scan EXCEPT !.finished = TRUE] ELSE scan
  /\ UNCHANGED << kernel, cfg, lock, th, asked, upsets, alarm >>

(* A network of the scheduled scan is found; the event may be malformed.   *)
FwPfn(status) ==
  /\ cfg.pno > 0 /\ Upset
  /\ Push([of |-> Pfn, status |-> status])
  /\ UNCHANGED << kernel, cfg, fw, lock, th, asked, history >>

EventIdle == th["event"].pc = "idle" /\ events # << >>
NextEvent == events' = Tail(events)

(* brcmf_cfg80211_escan_handler; which scan the event is of cannot be told.*)
Unsuccessful_Never(status) == FALSE
Unsuccessful(status) == status # "success"
InProgress == cfg.busy /\ (cfg.int \/ cfg.request # NoReq)
EscanResult ==
  /\ EventIdle /\ Head(events).of # Pfn /\ NextEvent
  /\ IF InProgress
     THEN Notify("event", Unsuccessful(Head(events).status), "done")
     ELSE UNCHANGED << th, alarm >>
  /\ UNCHANGED << kernel, cfg, fw, lock, asked, upsets, scan >>

(* brcmf_notify_sched_scan_results and brcmf_start_internal_escan          *)
SchedScanResults ==
  /\ EventIdle /\ Head(events).of = Pfn /\ Head(events).status = "success" /\ NextEvent
  /\ IF cfg.pno = 0 THEN UNCHANGED << cfg, lock, th, alarm >>
     ELSE IF cfg.busy THEN AbortScanning("event", cfg, "internal")
     ELSE /\ cfg' = [cfg EXCEPT !.busy = TRUE]
          /\ th' = [th EXCEPT !["event"].pc = "issue"]
          /\ UNCHANGED << lock, alarm >>
  /\ UNCHANGED << kernel, fw, asked, upsets, scan >>

InternalStarted ==
  /\ th["event"].pc = "started"
  /\ cfg' = [cfg EXCEPT !.int = TRUE]
  /\ th' = [th EXCEPT !["event"] = Idle]
  /\ UNCHANGED << kernel, device, lock, asked, upsets, history >>
InternalFails ==
  /\ th["event"].pc = "failed"
  /\ cfg' = [cfg EXCEPT !.busy = FALSE]
  /\ th' = [th EXCEPT !["event"].pc = "stopped"]
  /\ UNCHANGED << kernel, device, lock, asked, upsets, history >>
BadPfn ==
  /\ EventIdle /\ Head(events).of = Pfn /\ Head(events).status # "success" /\ NextEvent
  /\ th' = [th EXCEPT !["event"].pc = "stopped"]
  /\ UNCHANGED << kernel, cfg, fw, lock, asked, upsets, history >>

(* cfg80211_sched_scan_stopped, which waits for the mutex and does not     *)
(* call the driver back: pno keeps the request.                            *)
SchedScanStopped ==
  /\ th["event"].pc = "stopped" /\ lock = "free"
  /\ rdev' = [rdev EXCEPT !.sched = FALSE]
  /\ th' = [th EXCEPT !["event"] = Idle]
  /\ UNCHANGED << info, cfg, device, lock, asked, upsets, history >>

(* brcmf_escan_timeout, and the work item it queues: the item ends         *)
(* whatever is in progress when it runs.                                   *)
EscanTimeout ==
  /\ cfg.timer
  /\ cfg' = [cfg EXCEPT !.timer = FALSE, !.work = @ \/ cfg.int \/ cfg.request # NoReq]
  /\ UNCHANGED << kernel, device, lock, th, asked, upsets, history >>
TimeoutWorker ==
  /\ cfg.work /\ th["timeout"].pc = "idle"
  /\ cfg' = [cfg EXCEPT !.work = FALSE]
  /\ Notify("timeout", TRUE, "done")
  /\ UNCHANGED << kernel, device, lock, asked, upsets, scan >>

-----------------------------------------------------------------------------
(* Operations that abort a scan: DHCP begins and ends                      *)
(* (brcmf_cfg80211_crit_proto_start, _stop), an action frame is sent or    *)
(* the host suspends.                                                      *)
Aborts == lock = "free" /\ Upset
CritProtoStart ==
  /\ Aborts /\ ~cfg.suppress
  /\ AbortScanning("call", [cfg EXCEPT !.suppress = TRUE], "aborted")
  /\ UNCHANGED << kernel, device, asked, scan >>
CritProtoStop ==
  /\ lock = "free" /\ cfg.suppress
  /\ cfg' = [cfg EXCEPT !.suppress = FALSE]
  /\ UNCHANGED << kernel, device, lock, th, asked, upsets, history >>
AbortIfBusy ==
  /\ Aborts /\ cfg.busy
  /\ AbortScanning("call", cfg, "aborted")
  /\ UNCHANGED << kernel, device, asked, scan >>

(* A scheduled scan begins; the user or the closing of the interface ends  *)
(* it, and the internal scan it may have started.                          *)
SchedScanStart ==
  /\ lock = "free" /\ rdev.running /\ ~rdev.sched /\ ~cfg.suppress /\ upsets < MaxUpsets
  /\ rdev' = [rdev EXCEPT !.sched = TRUE]
  /\ cfg' = [cfg EXCEPT !.pno = @ + 1]
  /\ UNCHANGED << info, device, lock, th, asked, upsets, history >>

PnoRemoved(c) == [c EXCEPT !.pno = IF @ > 0 THEN @ - 1 ELSE 0]
SchedScanStop(t, then) ==
  /\ cfg' = PnoRemoved(cfg)
  /\ IF cfg.int THEN Notify(t, TRUE, then)
     ELSE th' = [th EXCEPT ![t].pc = then] /\ UNCHANGED alarm
UserStopsSched ==
  /\ lock = "free" /\ rdev.sched
  /\ lock' = "call"
  /\ SchedScanStop("call", "unsched")
  /\ UNCHANGED << kernel, device, asked, upsets, scan >>
SchedStopped ==
  /\ th["call"].pc = "unsched"
  /\ rdev' = [rdev EXCEPT !.sched = FALSE]
  /\ th' = [th EXCEPT !["call"] = Idle] /\ lock' = "free"
  /\ UNCHANGED << info, cfg, device, asked, upsets, history >>

(* The interface goes down: NETDEV_GOING_DOWN, brcmf_netdev_stop and       *)
(* NETDEV_DOWN, the first and the last under the mutex.                    *)
GoingDown ==
  /\ th["down"].pc = "idle" /\ rdev.running /\ lock = "free" /\ Upset
  /\ lock' = "down"
  /\ IF rdev.sched THEN SchedScanStop("down", "leave")
     ELSE th' = [th EXCEPT !["down"].pc = "leave"] /\ UNCHANGED << cfg, alarm >>
  /\ UNCHANGED << kernel, device, asked, scan >>
Leave ==
  /\ th["down"].pc = "leave"
  /\ rdev' = [rdev EXCEPT !.sched = FALSE, !.running = FALSE]
  /\ th' = [th EXCEPT !["down"].pc = "stop"] /\ lock' = "free"
  /\ UNCHANGED << info, cfg, device, asked, upsets, history >>
NetdevStop ==
  /\ th["down"].pc = "stop"
  /\ AbortScanning("down", cfg, "downed")
  /\ UNCHANGED << kernel, device, asked, upsets, scan >>

Unreported == rdev.req \notin info.notified /\ (rdev.int = NoReq \/ rdev.int \notin info.notified)
NetdevDown ==
  /\ th["down"].pc = "downed" /\ lock = "free"
  /\ info' = IF rdev.req # NoReq /\ Unreported THEN [info EXCEPT !.aborted = @ \cup {rdev.req}] ELSE info
  /\ \/ /\ rdev.req # NoReq /\ rdev.msg = << >>
        /\ rdev' = [Cleared(rdev) EXCEPT !.msg =
             << rdev.req[1], IF Reported \in info'.aborted THEN "aborted" ELSE "done" >>]
     \/ rdev.req = NoReq /\ UNCHANGED rdev
  /\ th' = [th EXCEPT !["down"] = Idle]
  /\ UNCHANGED << cfg, device, lock, asked, upsets, history >>
NetdevUp ==
  /\ th["down"].pc = "idle" /\ ~rdev.running /\ lock = "free"
  /\ rdev' = [rdev EXCEPT !.running = TRUE] /\ cfg' = [cfg EXCEPT !.ready = TRUE]
  /\ UNCHANGED << info, device, lock, th, asked, upsets, history >>

-----------------------------------------------------------------------------
EndStep(t) ==
  ReadRequest(t) \/ ClearRequest(t) \/ AbortCommand(t) \/ Report(t) \/ NotBusy(t) \/ ClearBits(t)
CallStep ==
  ScanStarted \/ TriggerFails \/ SecondFails \/ SchedStopped \/ EndStep("call") \/ EscanCommand("call")
EventStep ==
  \/ EscanResult \/ SchedScanResults \/ InternalStarted \/ InternalFails \/ BadPfn \/ SchedScanStopped
  \/ EndStep("event") \/ EscanCommand("event")
TimeoutStep == TimeoutWorker \/ EndStep("timeout")
DownStep == Leave \/ NetdevStop \/ NetdevDown \/ EndStep("down")
UserStep ==
  \/ \E form \in Forms : TriggerScan(form)
  \/ CritProtoStart \/ CritProtoStop \/ AbortIfBusy \/ SchedScanStart \/ UserStopsSched
  \/ GoingDown \/ NetdevUp
DeviceStep == \E status \in {"success", "failed"} : FwFinish(status) \/ FwPfn(status)

Next ==
  CallStep \/ ScanDoneWork \/ EventStep \/ EscanTimeout \/ TimeoutStep \/ DownStep \/ UserStep \/ DeviceStep

Spec == Init /\ [][Next]_vars

(* Threads and work items run, and a timer that is armed expires; nothing  *)
(* is assumed of the firmware.                                             *)
Fairness ==
  /\ WF_vars(CallStep) /\ SF_vars(ScanDoneWork) /\ SF_vars(EventStep) /\ WF_vars(EscanTimeout)
  /\ WF_vars(TimeoutStep) /\ SF_vars(DownStep)

FairSpec == Spec /\ Fairness

-----------------------------------------------------------------------------
(* brcmf_notify_escan_complete clears the request because a second call    *)
(* "might cause a double cfg80211_scan_done": no request is reported       *)
(* twice.                                                                  *)
ReportedOnce == "twice" \notin alarm

(* A request is reported twice only if two threads passed the read of the  *)
(* request and its clearing together: whatever sleeps after the clearing,  *)
(* a second end of the scan, by an event, the timer, an abort or the       *)
(* closing, finds nothing to report.                                       *)
TwiceOnlyByOverlap == "twice" \in alarm => "raced" \in alarm

(* WARN_ON of cfg80211_scan_done: the request reported is one of the two   *)
(* cfg80211 has.                                                           *)
ReportedIsCurrent == "stale" \notin alarm

(* A scan that was started and is over was answered, by one message, and   *)
(* one that was refused by none.                                           *)
AnsweredOnce ==
  LET open == rdev.req # NoReq \/ rdev.msg # << >>
  IN  /\ \A n \in DOMAIN scan.answers : scan.answers[n][1] = asked
      /\ Len(scan.answers) = IF scan.started /\ ~open THEN 1 ELSE 0

(* Until the host ends a scan itself, or a request is reported that was    *)
(* freed, the message says "done" if and only if the firmware finished the *)
(* last part it was given.                                                 *)
VerdictTrue ==
  alarm = {} =>
    \A n \in DOMAIN scan.answers : (scan.answers[n][2] = "done") = scan.finished

(* A scan is eventually answered and another can be started, unless the    *)
(* request was dropped, for an internal scan or by a late clearing.        *)
EventuallyAnswered == ~CanScan ~> (CanScan \/ scan.lost)

-----------------------------------------------------------------------------
(* Why a request is not reported twice unless two threads overlap: whoever *)
(* ends a scan clears its request before anything that sleeps, so that     *)
(* each request is in one hand, and one that was reported in none.         *)
MaybeReqs == Reqs \cup {NoReq}
DriverStates ==
  [request : MaybeReqs, busy : BOOLEAN, abort : BOOLEAN, suppress : BOOLEAN, int : BOOLEAN,
   timer : BOOLEAN, work : BOOLEAN, ready : BOOLEAN, pno : Nat]
Purposes == {"done", "aborted", "internal", "downed", "unsched", "leave", "trigger", "second"}
ThreadStates ==
  [pc : {"idle", "read", "clear", "abort", "finish", "busy", "bits", "issue", "started", "failed", "stopped", "unsched", "leave",
         "stop", "downed"},
   req : MaybeReqs, aborted : BOOLEAN, old : MaybeReqs,
   then : Purposes]
TypeOK ==
  /\ rdev \in [req : MaybeReqs, int : MaybeReqs, six : BOOLEAN,
               msg : {<< >>} \cup (Scans \X {"done", "aborted"}),
               wk : BOOLEAN, running : BOOLEAN, sched : BOOLEAN]
  /\ info \in [aborted : SUBSET Reqs, notified : SUBSET Reqs]
  /\ cfg \in DriverStates
  /\ th \in [Threads -> ThreadStates]
  /\ asked \in 0 .. MaxScans

(* A thread holds the request it has read until it has reported it.        *)
Holds(t, r) == th[t].pc \in {"clear", "abort", "finish"} /\ th[t].req = r
Held(r) == cfg.request = r \/ \E t \in Threads : Holds(t, r)

OneHand ==
  \A r \in Reqs : \A t \in Threads : Holds(t, r) =>
     (cfg.request # r \/ th[t].pc = "clear") /\ \A u \in Threads : Holds(u, r) => u = t
NotReportedYet == \A r \in Reqs : Held(r) => r \notin info.notified
Exclusive == "raced" \in alarm \/ (OneHand /\ NotReportedYet)
OfTheLast == rdev.req # NoReq => rdev.req[1] = asked
NoneAhead ==
  \A r \in Reqs : Held(r) \/ r \in info.notified =>
     r[1] <= asked /\ (rdev.req # NoReq /\ ~rdev.six /\ r[1] = asked => r[2] # "high")

IInv == TypeOK /\ Exclusive /\ OfTheLast /\ NoneAhead /\ TwiceOnlyByOverlap
=============================================================================
