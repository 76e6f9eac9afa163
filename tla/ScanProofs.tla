----------------------------- MODULE ScanProofs -----------------------------
(* A request of Scan.tla is reported twice only if two threads overlap     *)
(* between the read of scan_request and its clearing, for every number of  *)
(* scans, aborts and events.  The argument is that of the comment in       *)
(* brcmf_notify_escan_complete: a request is cleared before anything       *)
(* sleeps, so that it is in one hand at a time (OneHand), and it is given  *)
(* out only when it is new (NoneAhead).                                    *)
EXTENDS Scan, TLAPS

(* The initial state: nothing is asked for, nothing is held. *)
THEOREM InitInv == Init => IInv
<1> SUFFICES ASSUME Init PROVE IInv
  OBVIOUS
<1> USE NoReqAssumption, ScanAssumption
<1>1. TypeOK
  BY DEF Init, TypeOK, MaybeReqs, DriverStates, ThreadStates, Purposes, Idle, Threads
<1>2. \A r \in Reqs : ~Held(r)
  BY DEF Init, Held, Holds, Idle, Threads
<1>3. Exclusive
  BY <1>2 DEF Exclusive, OneHand, NotReportedYet, Held
<1>4. OfTheLast /\ NoneAhead /\ TwiceOnlyByOverlap
  BY <1>2 DEF OfTheLast, NoneAhead, TwiceOnlyByOverlap, Init
<1>5. QED
  BY <1>1, <1>3, <1>4 DEF IInv

-----------------------------------------------------------------------------
(* Types.  The helpers return records of their types. *)

LEMMA RequestTypes ==
  /\ NoReq \in MaybeReqs
  /\ \A k \in Scans, p \in Parts : << k, p >> \in Reqs /\ << k, p >> \in MaybeReqs
  /\ \A r \in Reqs : r \in MaybeReqs /\ r[1] \in Scans
  /\ \A r \in MaybeReqs : r # NoReq => r \in Reqs
  BY DEF Reqs, MaybeReqs

LEMMA IdleType == Idle \in ThreadStates
  BY RequestTypes DEF Idle, ThreadStates, Purposes

(* What the steps of the end of a scan return. *)
LEMMA HelperTypes ==
  ASSUME TypeOK
  PROVE  /\ \A c \in DriverStates, p \in Purposes :
              /\ After(c, p) \in DriverStates /\ Taken(c) \in DriverStates
              /\ PnoRemoved(c) \in DriverStates /\ Failed(c) \in DriverStates
              /\ [c EXCEPT !.abort = TRUE] \in DriverStates
              /\ [c EXCEPT !.busy = FALSE] \in DriverStates
              /\ [c EXCEPT !.int = FALSE] \in DriverStates
         /\ \A t \in Threads, a \in BOOLEAN, p \in Purposes :
              /\ Notify(t, a, p) => th' \in [Threads -> ThreadStates]
              /\ GoesOn(t, p) => th' \in [Threads -> ThreadStates]
              /\ At("bits", p) \in ThreadStates /\ At("busy", p) \in ThreadStates
<1> USE RequestTypes
<1>1. ASSUME NEW c \in DriverStates, NEW p \in Purposes
      PROVE  /\ After(c, p) \in DriverStates /\ Taken(c) \in DriverStates
             /\ PnoRemoved(c) \in DriverStates /\ Failed(c) \in DriverStates
             /\ [c EXCEPT !.abort = TRUE] \in DriverStates
             /\ [c EXCEPT !.busy = FALSE] \in DriverStates
             /\ [c EXCEPT !.int = FALSE] \in DriverStates
  <2>1. After(c, p) \in DriverStates
    BY DEF After, DriverStates, Purposes
  <2>2. Taken(c) \in DriverStates /\ Failed(c) \in DriverStates
    BY DEF Taken, Failed, DriverStates
  <2>3. PnoRemoved(c) \in DriverStates
    BY DEF PnoRemoved, DriverStates
  <2>4. /\ [c EXCEPT !.abort = TRUE] \in DriverStates /\ [c EXCEPT !.busy = FALSE] \in DriverStates
        /\ [c EXCEPT !.int = FALSE] \in DriverStates
    BY DEF DriverStates
  <2>5. QED
    BY <2>1, <2>2, <2>3, <2>4
<1>2. ASSUME NEW t \in Threads, NEW a \in BOOLEAN, NEW p \in Purposes
      PROVE  /\ Notify(t, a, p) => th' \in [Threads -> ThreadStates]
             /\ GoesOn(t, p) => th' \in [Threads -> ThreadStates]
             /\ At("bits", p) \in ThreadStates /\ At("busy", p) \in ThreadStates
  <2>1. [At("read", p) EXCEPT !.aborted = a] \in ThreadStates
    BY DEF At, Idle, ThreadStates
  <2>2. Notify(t, a, p) => th' \in [Threads -> ThreadStates]
    BY <2>1 DEF Notify, TypeOK
  <2>3. [Idle EXCEPT !.pc = NextPc(p)] \in ThreadStates
    BY DEF Idle, NextPc, ThreadStates, Purposes
  <2>4. GoesOn(t, p) => th' \in [Threads -> ThreadStates]
    BY <2>3 DEF GoesOn, TypeOK
  <2>5. At("bits", p) \in ThreadStates /\ At("busy", p) \in ThreadStates
    BY DEF At, Idle, ThreadStates
  <2>6. QED
    BY <2>2, <2>4, <2>5
<1>3. QED
  BY <1>1, <1>2

LEMMA AbortTypes ==
  ASSUME TypeOK, NEW t \in Threads, NEW c \in DriverStates, NEW p \in Purposes,
         AbortScanning(t, c, p)
  PROVE  cfg' \in DriverStates /\ th' \in [Threads -> ThreadStates]
<1>1. cfg' \in DriverStates
  BY HelperTypes DEF AbortScanning
<1>2. CASE Notify(t, TRUE, p)
  BY <1>1, <1>2, HelperTypes
<1>3. CASE th' = [th EXCEPT ![t] = At("bits", p)]
  <2>1. At("bits", p) \in ThreadStates
    BY HelperTypes
  <2>2. QED
    BY <1>1, <1>3, <2>1 DEF TypeOK
<1>4. QED
  BY <1>2, <1>3 DEF AbortScanning

LEMMA SchedStopTypes ==
  ASSUME TypeOK, NEW t \in Threads, NEW p \in {"unsched", "leave"}, SchedScanStop(t, p)
  PROVE  cfg' \in DriverStates /\ th' \in [Threads -> ThreadStates]
<1>1. cfg \in DriverStates /\ p \in Purposes
  BY DEF TypeOK, Purposes
<1>2. CASE cfg.int
  BY <1>1, <1>2, HelperTypes DEF SchedScanStop
<1>3. CASE ~cfg.int
  <2>1. cfg' \in DriverStates
    BY <1>1, <1>3, HelperTypes DEF SchedScanStop
  <2>2. [th[t] EXCEPT !.pc = p] \in ThreadStates
    BY DEF TypeOK, ThreadStates
  <2>3. QED
    BY <1>3, <2>1, <2>2 DEF SchedScanStop, TypeOK
<1>4. QED
  BY <1>2, <1>3

(* A thread goes to another of its places.                                *)
LEMMA PlaceTypes ==
  ASSUME TypeOK, NEW t \in Threads, NEW p \in {"bits", "abort", "finish", "issue", "started", "failed", "stopped", "stop"}
  PROVE  [th EXCEPT ![t].pc = p] \in [Threads -> ThreadStates]
<1>1. [th[t] EXCEPT !.pc = p] \in ThreadStates
  BY DEF TypeOK, ThreadStates
<1>2. [th EXCEPT ![t].pc = p] = [th EXCEPT ![t] = [th[t] EXCEPT !.pc = p]]
  BY DEF TypeOK
<1>3. QED
  BY <1>1, <1>2 DEF TypeOK

LEMMA TypeInv == TypeOK /\ [Next]_vars => TypeOK'
<1> SUFFICES ASSUME TypeOK, [Next]_vars PROVE TypeOK'
  OBVIOUS
<1> USE RequestTypes, IdleType
<1>1. CASE ScanStarted
  BY <1>1 DEF ScanStarted, TypeOK, DriverStates, Armed, Threads, kernel, device
<1>2. CASE TriggerFails
  <2>1. cfg' \in DriverStates
    BY <1>2, HelperTypes DEF TriggerFails, TypeOK, Purposes
  <2>2. th["call"].old \in MaybeReqs
    BY DEF TypeOK, ThreadStates, Threads
  <2>3. QED
    BY <1>2, <2>1, <2>2 DEF TriggerFails, TypeOK, device, history
<1>3. CASE SecondFails
  BY <1>3 DEF SecondFails, TypeOK, DriverStates, Failed, Cleared, Threads, device
<1>4. CASE SchedStopped
  BY <1>4 DEF SchedStopped, TypeOK, Threads, device, history
<1>5. ASSUME NEW t \in Threads, AbortCommand(t) PROVE TypeOK'
  BY <1>5 DEF AbortCommand, TypeOK, ThreadStates, kernel
<1>6. ASSUME NEW t \in Threads, ReadRequest(t) \/ ClearRequest(t) \/ Report(t) \/ NotBusy(t) \/ ClearBits(t)
      PROVE  TypeOK'
  <2>1. th[t] \in ThreadStates /\ cfg \in DriverStates
    BY DEF TypeOK
  <2>2. th[t].then \in Purposes /\ th[t].req \in MaybeReqs /\ th[t].aborted \in BOOLEAN
    BY <2>1 DEF ThreadStates
  <2>3. CASE ReadRequest(t)
    <3>1. [th[t] EXCEPT !.pc = "clear", !.req = cfg.request] \in ThreadStates
      BY <2>1 DEF ThreadStates, DriverStates
    <3>2. th' = [th EXCEPT ![t] = [th[t] EXCEPT !.pc = "clear", !.req = cfg.request]]
      BY <2>3 DEF ReadRequest, TypeOK
    <3>3. QED
      BY <2>3, <3>1, <3>2 DEF ReadRequest, TypeOK, kernel
  <2>4. CASE ClearRequest(t)
    <3>1. PICK p \in {"abort", "finish"} : th' = [th EXCEPT ![t].pc = p]
      BY <2>4 DEF ClearRequest
    <3>2. th' \in [Threads -> ThreadStates]
      BY <3>1, PlaceTypes
    <3>3. cfg' \in DriverStates
      <4>1. cfg' = Taken(cfg)
        BY <2>4 DEF ClearRequest
      <4>2. Taken(cfg) \in DriverStates
        BY <2>1, <2>2, HelperTypes
      <4>3. QED
        BY <4>1, <4>2
    <3>4. QED
      BY <2>4, <3>2, <3>3 DEF ClearRequest, TypeOK, kernel
  <2>5. CASE Report(t)
    <3>1. cfg' \in DriverStates
      BY <2>1, <2>2, <2>5, HelperTypes DEF Report
    <3>2. At("busy", th[t].then) \in ThreadStates
      BY <2>2, HelperTypes
    <3>3. th' \in [Threads -> ThreadStates]
      BY <2>5, <3>2 DEF Report, TypeOK
    <3>4. rdev' \in [req : MaybeReqs, int : MaybeReqs, six : BOOLEAN,
                     msg : {<< >>} \cup (Scans \X {"done", "aborted"}),
                     wk : BOOLEAN, running : BOOLEAN, sched : BOOLEAN]
      <4>1. rdev' = rdev \/ rdev' = [rdev EXCEPT !.wk = TRUE]
        BY <2>5 DEF Report, ScanDone, kernel
      <4>2. QED
        BY <4>1 DEF TypeOK
    <3>5. info' \in [aborted : SUBSET Reqs, notified : SUBSET Reqs]
      BY <2>2, <2>5 DEF Report, ScanDone, kernel, TypeOK
    <3>6. asked' = asked
      BY <2>5 DEF Report
    <3>7. QED
      BY <3>1, <3>3, <3>4, <3>5, <3>6 DEF TypeOK
  <2>6. CASE NotBusy(t) \/ ClearBits(t)
    <3>1. cfg' \in DriverStates
      <4>1. [cfg EXCEPT !.busy = FALSE] \in DriverStates
        BY <2>1, <2>2, HelperTypes
      <4>2. QED
        BY <2>2, <2>6, <4>1, HelperTypes DEF NotBusy, ClearBits
    <3>2. th' \in [Threads -> ThreadStates]
      <4>1. CASE th' = [th EXCEPT ![t].pc = "bits"]
        BY <4>1, PlaceTypes
      <4>2. CASE GoesOn(t, th[t].then)
        BY <2>2, <4>2, HelperTypes
      <4>3. QED
        BY <2>6, <4>1, <4>2 DEF NotBusy, ClearBits
    <3>3. QED
      BY <2>6, <3>1, <3>2 DEF NotBusy, ClearBits, TypeOK, kernel
  <2>7. QED
    BY <1>6, <2>3, <2>4, <2>5, <2>6
<1>7. ASSUME NEW t \in Threads, EscanCommand(t) PROVE TypeOK'
  <2>1. PICK p \in {"started", "failed"} : th' = [th EXCEPT ![t].pc = p]
    BY <1>7 DEF EscanCommand
  <2>2. th' \in [Threads -> ThreadStates]
    BY <2>1, PlaceTypes
  <2>3. QED
    BY <1>7, <2>2 DEF EscanCommand, TypeOK, kernel
<1>8. CASE ScanDoneWork
  <2>1. CASE rdev' = [rdev EXCEPT !.wk = FALSE, !.msg = << >>] /\ UNCHANGED << cfg, th >>
    BY <1>8, <2>1 DEF ScanDoneWork, TypeOK, device
  <2>2. CASE rdev' = [rdev EXCEPT !.wk = FALSE] /\ UNCHANGED << cfg, th >>
    BY <1>8, <2>2 DEF ScanDoneWork, TypeOK, device
  <2>3. CASE rdev' = Cleared([rdev EXCEPT !.wk = FALSE]) /\ UNCHANGED << cfg, th >>
    BY <1>8, <2>3 DEF ScanDoneWork, Cleared, TypeOK, device
  <2>4. CASE /\ rdev.req # NoReq
             /\ rdev' = [rdev EXCEPT !.wk = FALSE, !.six = TRUE, !.int = << rdev.req[1], "high" >>]
             /\ DriverScan(rdev'.int, "second", rdev.int)
    <3>1. << rdev.req[1], "high" >> \in MaybeReqs /\ rdev.int \in MaybeReqs
      BY <2>4 DEF TypeOK, Parts
    <3>2. rdev'.int = << rdev.req[1], "high" >>
      BY <2>4 DEF TypeOK
    <3>3. cfg' \in DriverStates
      BY <2>4, <3>1, <3>2 DEF DriverScan, TypeOK, DriverStates
    <3>4. th' \in [Threads -> ThreadStates]
      BY <2>4, <3>1, <3>2 DEF DriverScan, TypeOK, ThreadStates, Threads, Purposes
    <3>5. QED
      BY <1>8, <2>4, <3>1, <3>3, <3>4 DEF ScanDoneWork, TypeOK, device
  <2>5. QED
    BY <1>8, <2>1, <2>2, <2>3, <2>4 DEF ScanDoneWork, Answer
<1>9. CASE EscanResult
  <2>1. Unsuccessful(Head(events).status) \in BOOLEAN
    BY DEF Unsuccessful
  <2>2. cfg' = cfg /\ th' \in [Threads -> ThreadStates]
    BY <1>9, <2>1, HelperTypes DEF EscanResult, TypeOK, Threads, Purposes
  <2>3. QED
    BY <1>9, <2>2 DEF EscanResult, TypeOK, kernel
<1>10. CASE SchedScanResults
  <2>1. CASE UNCHANGED << cfg, th >>
    BY <1>10, <2>1 DEF SchedScanResults, TypeOK, kernel
  <2>2. CASE AbortScanning("event", cfg, "internal")
    BY <1>10, <2>2, AbortTypes DEF SchedScanResults, TypeOK, Threads, Purposes, kernel
  <2>3. CASE /\ cfg' = [cfg EXCEPT !.busy = TRUE]
             /\ th' = [th EXCEPT !["event"].pc = "issue"]
    <3>1. cfg' \in DriverStates
      BY <2>3 DEF TypeOK, DriverStates
    <3>2. th' \in [Threads -> ThreadStates]
      BY <2>3, PlaceTypes DEF Threads
    <3>3. QED
      BY <1>10, <3>1, <3>2 DEF SchedScanResults, TypeOK, kernel
  <2>4. QED
    BY <1>10, <2>1, <2>2, <2>3 DEF SchedScanResults
<1>11. CASE InternalStarted \/ InternalFails \/ BadPfn \/ SchedScanStopped
  <2>1. CASE InternalStarted
    BY <2>1 DEF InternalStarted, TypeOK, DriverStates, Threads, kernel, device, history
  <2>2. CASE InternalFails
    <3>1. cfg' \in DriverStates
      BY <2>2 DEF InternalFails, TypeOK, DriverStates
    <3>2. th' \in [Threads -> ThreadStates]
      BY <2>2, PlaceTypes DEF InternalFails, Threads
    <3>3. QED
      BY <2>2, <3>1, <3>2 DEF InternalFails, TypeOK, kernel, device, history
  <2>3. CASE BadPfn
    BY <2>3 DEF BadPfn, TypeOK, ThreadStates, Threads, kernel, history
  <2>4. CASE SchedScanStopped
    BY <2>4 DEF SchedScanStopped, TypeOK, Threads, device, history
  <2>5. QED
    BY <1>11, <2>1, <2>2, <2>3, <2>4
<1>12. CASE EscanTimeout
  <2>1. cfg' \in DriverStates
    BY <1>12 DEF EscanTimeout, TypeOK, DriverStates
  <2>2. QED
    BY <1>12, <2>1 DEF EscanTimeout, TypeOK, kernel, device, history
<1>13. CASE TimeoutWorker
  <2>1. cfg' \in DriverStates
    BY <1>13 DEF TimeoutWorker, TypeOK, DriverStates
  <2>2. QED
    BY <1>13, <2>1, HelperTypes DEF TimeoutWorker, TypeOK, Threads, Purposes, kernel
<1>14. CASE CritProtoStart \/ AbortIfBusy \/ NetdevStop
  <2>1. [cfg EXCEPT !.suppress = TRUE] \in DriverStates /\ cfg \in DriverStates
    BY DEF TypeOK, DriverStates
  <2>2. cfg' \in DriverStates /\ th' \in [Threads -> ThreadStates]
    BY <1>14, <2>1, AbortTypes DEF CritProtoStart, AbortIfBusy, NetdevStop, Threads, Purposes
  <2>3. QED
    BY <1>14, <2>2 DEF CritProtoStart, AbortIfBusy, NetdevStop, TypeOK, kernel
<1>15. CASE CritProtoStop \/ SchedScanStart \/ NetdevUp
  <2>1. CASE CritProtoStop
    BY <2>1 DEF CritProtoStop, TypeOK, DriverStates, kernel, device, history
  <2>2. CASE SchedScanStart
    <3>1. cfg' \in DriverStates
      BY <2>2 DEF SchedScanStart, TypeOK, DriverStates
    <3>2. QED
      BY <2>2, <3>1 DEF SchedScanStart, TypeOK
  <2>3. CASE NetdevUp
    BY <2>3 DEF NetdevUp, TypeOK, DriverStates, device, history
  <2>4. QED
    BY <1>15, <2>1, <2>2, <2>3
<1>16. CASE UserStopsSched \/ GoingDown
  <2>1. cfg' \in DriverStates /\ th' \in [Threads -> ThreadStates]
    BY <1>16, SchedStopTypes DEF UserStopsSched, GoingDown, TypeOK, ThreadStates, Threads
  <2>2. QED
    BY <1>16, <2>1 DEF UserStopsSched, GoingDown, TypeOK, kernel
<1>17. CASE Leave \/ NetdevDown
  <2>1. CASE Leave
    <3>1. th' \in [Threads -> ThreadStates]
      BY <2>1, PlaceTypes DEF Leave, Threads
    <3>2. QED
      BY <2>1, <3>1 DEF Leave, TypeOK, device, history
  <2>2. CASE NetdevDown
    <3>1. info' \in [aborted : SUBSET Reqs, notified : SUBSET Reqs]
      BY <2>2 DEF NetdevDown, TypeOK
    <3>2. rdev' \in [req : MaybeReqs, int : MaybeReqs, six : BOOLEAN,
                     msg : {<< >>} \cup (Scans \X {"done", "aborted"}),
                     wk : BOOLEAN, running : BOOLEAN, sched : BOOLEAN]
      <4>1. CASE UNCHANGED rdev
        BY <4>1 DEF TypeOK
      <4>2. CASE rdev.req # NoReq
        <5>1. rdev.req[1] \in Scans
          BY <4>2 DEF TypeOK
        <5>2. Cleared(rdev) \in [req : MaybeReqs, int : MaybeReqs, six : BOOLEAN,
                     msg : {<< >>} \cup (Scans \X {"done", "aborted"}),
                     wk : BOOLEAN, running : BOOLEAN, sched : BOOLEAN]
          BY DEF Cleared, TypeOK
        <5>3. QED
          BY <2>2, <4>2, <5>1, <5>2 DEF NetdevDown
      <4>3. QED
        BY <2>2, <4>1, <4>2 DEF NetdevDown
    <3>3. QED
      BY <2>2, <3>1, <3>2 DEF NetdevDown, TypeOK, device, history
  <2>3. QED
    BY <1>17, <2>1, <2>2
<1>18. ASSUME NEW form \in Forms, TriggerScan(form) PROVE TypeOK'
  <2>1. asked + 1 \in Scans /\ asked' = asked + 1
    BY <1>18, ScanAssumption DEF TriggerScan, TypeOK, Scans
  <2>2. FirstPart(asked + 1, form) \in MaybeReqs /\ << asked + 1, "whole" >> \in MaybeReqs
    BY <2>1 DEF FirstPart, Parts
  <2>3. info' \in [aborted : SUBSET Reqs, notified : SUBSET Reqs]
    BY <1>18 DEF TriggerScan, TypeOK
  <2>4. rdev' \in [req : MaybeReqs, int : MaybeReqs, six : BOOLEAN,
                   msg : {<< >>} \cup (Scans \X {"done", "aborted"}),
                   wk : BOOLEAN, running : BOOLEAN, sched : BOOLEAN]
    <3> DEFINE r == FirstPart(asked + 1, form)
               started == [rdev EXCEPT !.req = << asked + 1, "whole" >>, !.six = (form = "six"),
                                       !.int = IF form = "wext" THEN @ ELSE r]
               RdevStates == [req : MaybeReqs, int : MaybeReqs, six : BOOLEAN,
                   msg : {<< >>} \cup (Scans \X {"done", "aborted"}),
                   wk : BOOLEAN, running : BOOLEAN, sched : BOOLEAN]
    <3>1. rdev \in RdevStates /\ NoReq \in MaybeReqs
      BY DEF TypeOK
    <3>2. started \in RdevStates
      BY <2>2, <3>1
    <3>3. [started EXCEPT !.req = NoReq, !.int = IF form = "six" THEN rdev.int ELSE @] \in RdevStates
      <4> HIDE DEF started
      <4> QED
        BY <3>1, <3>2
    <3>4. QED
      BY <1>18, <3>2, <3>3 DEF TriggerScan
  <2>5. /\ cfg' \in DriverStates
        /\ th' \in [Threads -> ThreadStates]
    <3>1. CASE UNCHANGED << cfg, lock, th >>
      BY <3>1 DEF TypeOK
    <3>2. CASE DriverScan(FirstPart(asked + 1, form), "trigger", rdev.int)
      <4>1. cfg' \in DriverStates
        BY <3>2, <2>2 DEF DriverScan, TypeOK, DriverStates
      <4>2. rdev.int \in MaybeReqs
        BY DEF TypeOK
      <4>3. th' \in [Threads -> ThreadStates]
        BY <3>2, <2>2, <4>2 DEF DriverScan, TypeOK, ThreadStates, Threads, Purposes
      <4>4. QED
        BY <4>1, <4>3
    <3>3. QED
      BY <1>18, <3>1, <3>2 DEF TriggerScan
  <2>6. QED
    BY <1>18, <2>1, <2>3, <2>4, <2>5 DEF TypeOK, Scans
<1>19. CASE (\E status \in {"success", "failed"} : FwFinish(status) \/ FwPfn(status)) \/ UNCHANGED vars
  BY <1>19 DEF FwFinish, FwPfn, TypeOK, kernel, history, vars
<1>20. QED
  BY <1>1, <1>2, <1>3, <1>4, <1>5, <1>6, <1>7, <1>8, <1>9, <1>10, <1>11, <1>12, <1>13, <1>14, <1>15, <1>16,
     <1>17, <1>18, <1>19 DEF Next, CallStep, EventStep, TimeoutStep, DownStep, EndStep, UserStep, DeviceStep, Threads

-----------------------------------------------------------------------------
(* What the steps do to the requests that are held. *)

(* A thread keeps what it holds; one that goes on has cleared the request. *)
Hand(t, r) ==
  Holds(t, r)' => Holds(t, r) /\ (th[t].pc = "clear" => th'[t].pc = "clear" \/ cfg'.request = NoReq)

(* A step that hands nothing over, reports nothing and starts nothing. *)
LEMMA Kept ==
  ASSUME IInv, TypeOK',
         cfg'.request = cfg.request \/ cfg'.request = NoReq,
         \A t \in Threads, r \in Reqs : Hand(t, r),
         info'.notified \subseteq info.notified,
         rdev'.req = rdev.req \/ rdev'.req = NoReq,
         ~rdev'.six => ~rdev.six,
         asked' = asked,
         alarm \subseteq alarm', "twice" \in alarm' => "twice" \in alarm
  PROVE  IInv'
<1>1. \A r \in Reqs : Held(r)' => Held(r)
  BY NoReqAssumption DEF Held, Hand
<1>2. Exclusive'
  <2>1. CASE "raced" \in alarm
    BY <2>1 DEF Exclusive
  <2>2. CASE OneHand /\ NotReportedYet
    <3>1. OneHand'
      BY <2>2, NoReqAssumption DEF OneHand, Hand, Holds
    <3>2. NotReportedYet'
      BY <1>1, <2>2 DEF NotReportedYet
    <3>3. QED
      BY <3>1, <3>2 DEF Exclusive
  <2>3. QED
    BY <2>1, <2>2 DEF IInv, Exclusive
<1>3. OfTheLast'
  BY DEF IInv, OfTheLast
<1>4. NoneAhead'
  BY <1>1 DEF IInv, NoneAhead
<1>5. TwiceOnlyByOverlap'
  BY DEF IInv, TwiceOnlyByOverlap
<1>6. QED
  BY <1>2, <1>3, <1>4, <1>5 DEF IInv

(* A thread reads the request of the driver: alone, or the race is noted.  *)
LEMMA ReadKeeps ==
  ASSUME IInv, TypeOK', NEW t \in Threads, ReadRequest(t)
  PROVE  IInv'
<1>1. /\ \A u \in Threads \ {t} : th'[u] = th[u]
      /\ th'[t].pc = "clear" /\ th'[t].req = cfg.request /\ th[t].pc = "read"
  BY DEF ReadRequest, IInv, TypeOK, ThreadStates
<1>2. cfg' = cfg /\ alarm \subseteq alarm' /\ ("twice" \in alarm' => "twice" \in alarm)
      /\ UNCHANGED << kernel, asked >>
  BY DEF ReadRequest
<1>3. \A u \in Threads \ {t}, r \in Reqs : Holds(u, r)' <=> Holds(u, r)
  BY <1>1 DEF Holds
<1>4. \A r \in Reqs : (Holds(t, r)' <=> cfg.request = r) /\ ~Holds(t, r)
  BY <1>1 DEF Holds
<1>5. \A r \in Reqs : Held(r)' => Held(r)
  BY <1>2, <1>3, <1>4 DEF Held
<1>6. Exclusive'
  <2>1. CASE "raced" \in alarm'
    BY <2>1 DEF Exclusive
  <2>2. CASE "raced" \notin alarm'
    <3>1. OneHand /\ NotReportedYet /\ ~Overlaps(t)
      BY <1>2, <2>2 DEF IInv, Exclusive, ReadRequest
    <3>2. \A u \in Threads \ {t}, r \in Reqs : Holds(u, r) => cfg.request # r
      BY <3>1, NoReqAssumption DEF OneHand, Overlaps, Holds
    <3>3. OneHand'
      BY <1>1, <1>2, <1>3, <1>4, <3>1, <3>2 DEF OneHand
    <3>4. NotReportedYet'
      BY <1>2, <1>5, <3>1 DEF NotReportedYet, kernel
    <3>5. QED
      BY <3>3, <3>4 DEF Exclusive
  <2>3. QED
    BY <2>1, <2>2
<1>7. OfTheLast' /\ NoneAhead' /\ TwiceOnlyByOverlap'
  BY <1>2, <1>5 DEF IInv, OfTheLast, NoneAhead, TwiceOnlyByOverlap, kernel
<1>8. QED
  BY <1>6, <1>7 DEF IInv

(* The request is cleared by the thread that read it, or by a late one. *)
LEMMA ClearKeeps ==
  ASSUME IInv, TypeOK', NEW t \in Threads, ClearRequest(t)
  PROVE  IInv'
<1>1. cfg'.request = NoReq
  BY DEF ClearRequest, Taken, IInv, TypeOK, DriverStates
<1>2. PICK p \in {"abort", "finish"} : th' = [th EXCEPT ![t].pc = p]
  BY DEF ClearRequest
<1>3. \A u \in Threads, r \in Reqs : Hand(u, r)
  <2>1. th \in [Threads -> ThreadStates] /\ th[t].pc = "clear"
    BY DEF ClearRequest, IInv, TypeOK
  <2>2. QED
    BY <1>1, <1>2, <2>1 DEF Hand, Holds, ThreadStates
<1>4. UNCHANGED << kernel, asked, alarm >>
  BY DEF ClearRequest
<1>5. QED
  BY <1>1, <1>3, <1>4, Kept DEF kernel

(* The thread of a step does not hold a request afterwards. *)
LEMMA LetsGo ==
  ASSUME NEW t \in Threads, \A u \in Threads \ {t} : th'[u] = th[u],
         th'[t].pc \notin {"clear", "abort", "finish"}
  PROVE  \A u \in Threads, r \in Reqs : Hand(u, r)
  BY DEF Hand, Holds

(* brcmf_notify_escan_complete is entered. *)
LEMMA NotifyThreads ==
  ASSUME TypeOK, NEW t \in Threads, NEW a, NEW p, Notify(t, a, p)
  PROVE  /\ \A u \in Threads \ {t} : th'[u] = th[u]
         /\ th'[t].pc = "read" /\ th'[t].then = p /\ th'[t].req = NoReq /\ th'[t].aborted = a
         /\ alarm \subseteq alarm' /\ alarm' \subseteq alarm \cup {"abort"}
  BY DEF Notify, At, Idle, TypeOK

(* brcmf_abort_scanning and brcmf_cfg80211_sched_scan_stop, with or without *)
(* a scan in progress. *)
LEMMA AbortKeeps ==
  ASSUME IInv, TypeOK', NEW t \in Threads, NEW c \in DriverStates, NEW p \in Purposes,
         c.request = cfg.request, AbortScanning(t, c, p), UNCHANGED << kernel, asked >>
  PROVE  IInv'
<1>1. cfg'.request = cfg.request
  BY DEF AbortScanning, DriverStates
<1>2. TypeOK
  BY DEF IInv
<1>3. /\ \A u \in Threads \ {t} : th'[u] = th[u]
      /\ th'[t].pc \in {"read", "bits"}
      /\ alarm \subseteq alarm' /\ alarm' \subseteq alarm \cup {"abort"}
  <2>1. CASE Notify(t, TRUE, p)
    BY <1>2, <2>1, NotifyThreads
  <2>2. CASE /\ th' = [th EXCEPT ![t] = At("bits", p)]
             /\ alarm' = alarm \cup (IF cfg.busy THEN {"abort"} ELSE {})
    BY <1>2, <2>2 DEF At, Idle, TypeOK
  <2>3. QED
    BY <2>1, <2>2 DEF AbortScanning
<1>4. \A u \in Threads, r \in Reqs : Hand(u, r)
  BY <1>3, LetsGo
<1>5. QED
  BY <1>1, <1>3, <1>4, Kept DEF kernel

LEMMA SchedStopKeeps ==
  ASSUME IInv, TypeOK', NEW t \in Threads, NEW p \in {"unsched", "leave"},
         SchedScanStop(t, p), UNCHANGED << kernel, asked >>
  PROVE  IInv'
<1>1. TypeOK
  BY DEF IInv
<1>2. cfg'.request = cfg.request
  BY <1>1 DEF SchedScanStop, PnoRemoved, TypeOK, DriverStates
<1>3. /\ \A u \in Threads \ {t} : th'[u] = th[u]
      /\ th'[t].pc \in {"read", p}
      /\ alarm \subseteq alarm' /\ alarm' \subseteq alarm \cup {"abort"}
  <2>1. CASE Notify(t, TRUE, p)
    BY <1>1, <2>1, NotifyThreads
  <2>2. CASE th' = [th EXCEPT ![t].pc = p] /\ UNCHANGED alarm
    BY <1>1, <2>2 DEF TypeOK, ThreadStates
  <2>3. QED
    BY <2>1, <2>2 DEF SchedScanStop
<1>4. \A u \in Threads, r \in Reqs : Hand(u, r)
  BY <1>3, LetsGo
<1>5. QED
  BY <1>2, <1>3, <1>4, Kept DEF kernel

(* The bits are cleared and the caller goes on. *)
LEMMA OverThreads ==
  ASSUME TypeOK, NEW t \in Threads, NotBusy(t) \/ ClearBits(t)
  PROVE  /\ \A u \in Threads \ {t} : th'[u] = th[u]
         /\ th'[t].pc \in {"bits", "idle", "issue", "downed", "unsched", "leave"}
         /\ cfg'.request = cfg.request
         /\ alarm \subseteq alarm' /\ alarm' \subseteq alarm \cup {"abort"}
         /\ UNCHANGED << kernel, asked >>
<1>1. /\ \A u \in Threads \ {t} : th'[u] = th[u]
      /\ th'[t].pc \in {"bits", "idle", "issue", "downed", "unsched", "leave"}
  <2>1. CASE th' = [th EXCEPT ![t].pc = "bits"]
    BY <2>1 DEF TypeOK, ThreadStates
  <2>2. CASE GoesOn(t, th[t].then)
    BY <2>2 DEF GoesOn, NextPc, Idle, TypeOK
  <2>3. QED
    BY <2>1, <2>2 DEF NotBusy, ClearBits
<1>2. cfg'.request = cfg.request
  BY DEF NotBusy, ClearBits, After, TypeOK, DriverStates
<1>3. /\ alarm \subseteq alarm' /\ alarm' \subseteq alarm \cup {"abort"}
      /\ UNCHANGED << kernel, asked >>
  BY DEF NotBusy, ClearBits, history
<1>4. QED
  BY <1>1, <1>2, <1>3

LEMMA OverKeepsInv ==
  ASSUME IInv, TypeOK', NEW t \in Threads, NotBusy(t) \/ ClearBits(t)
  PROVE  IInv'
<1>1. TypeOK
  BY DEF IInv
<1>2. \A u \in Threads, r \in Reqs : Hand(u, r)
  BY <1>1, OverThreads, LetsGo
<1>3. QED
  BY <1>1, <1>2, OverThreads, Kept DEF kernel

(* The request that is reported was in the hand of this thread only. *)
LEMMA FinishKeeps ==
  ASSUME IInv, TypeOK', NEW t \in Threads, Report(t)
  PROVE  IInv'
<1> DEFINE r == th[t].req
<1>1. cfg'.request = cfg.request
  BY DEF Report, IInv, TypeOK, DriverStates
<1>2. th'[t].pc = "busy" /\ \A u \in Threads \ {t} : th'[u] = th[u]
  BY DEF Report, At, Idle, IInv, TypeOK
<1>3. \A u \in Threads, q \in Reqs : Holds(u, q)' => u # t /\ Holds(u, q) /\ th'[u].pc = th[u].pc
  BY <1>2 DEF Holds
<1>4. rdev'.req = rdev.req /\ rdev'.six = rdev.six /\ asked' = asked
  BY DEF Report, ScanDone, kernel, IInv, TypeOK
<1>5. CASE UNCHANGED << info, alarm >>
  <2>1. \A u \in Threads, q \in Reqs : Hand(u, q)
    BY <1>2, LetsGo
  <2>2. QED
    BY <1>1, <1>4, <1>5, <2>1, Kept
<1>6. CASE r # NoReq /\ ScanDone(r, th[t].aborted)
  <2>1. r \in Reqs
    BY <1>6 DEF IInv, TypeOK, ThreadStates, MaybeReqs
  <2>2. Holds(t, r) /\ th[t].pc = "finish"
    BY DEF Report, Holds
  <2>3. Held(r)
    BY <2>1, <2>2 DEF Held
  <2>4. \A q \in Reqs : Held(q)' => Held(q)
    BY <1>1, <1>3 DEF Held
  <2>5. info'.notified \subseteq info.notified \cup {r} /\ alarm \subseteq alarm'
    BY <1>6 DEF ScanDone
  <2>6. OfTheLast' /\ NoneAhead'
    BY <1>4, <2>1, <2>3, <2>4, <2>5 DEF IInv, OfTheLast, NoneAhead
  <2>7. CASE "raced" \in alarm
    BY <2>5, <2>6, <2>7 DEF IInv, Exclusive, TwiceOnlyByOverlap
  <2>8. CASE OneHand /\ NotReportedYet
    <3>1. r \notin info.notified
      BY <2>1, <2>3, <2>8 DEF NotReportedYet
    <3>2. \A q \in Reqs : Held(q)' => q # r
      BY <1>1, <1>3, <2>1, <2>2, <2>8 DEF OneHand, Held
    <3>3. OneHand'
      BY <1>1, <1>3, <2>8 DEF OneHand
    <3>4. NotReportedYet'
      BY <2>4, <2>5, <2>8, <3>2 DEF NotReportedYet
    <3>5. TwiceOnlyByOverlap'
      BY <1>6, <2>5, <3>1 DEF IInv, TwiceOnlyByOverlap, ScanDone
    <3>6. QED
      BY <2>6, <3>3, <3>4, <3>5 DEF IInv, Exclusive
  <2>9. QED
    BY <2>7, <2>8 DEF IInv, Exclusive
<1>7. QED
  BY <1>5, <1>6 DEF Report, kernel

(* The first part of a scan is of a new number. *)
LEMMA TriggerKeeps ==
  ASSUME IInv, TypeOK', NEW form \in Forms, TriggerScan(form)
  PROVE  IInv'
<1> DEFINE n == FirstPart(asked + 1, form)
<1>1. n \in Reqs /\ n[1] = asked + 1 /\ (form # "six" => n[2] # "high")
  BY ScanAssumption DEF TriggerScan, FirstPart, IInv, TypeOK, Reqs, Scans, Parts
<1>2. asked \in Nat /\ asked' = asked + 1
  BY DEF TriggerScan, IInv, TypeOK
<1>3. \A q \in Reqs : Held(q) \/ q \in info.notified => q[1] <= asked
  BY DEF IInv, NoneAhead
<1>4. info'.notified \subseteq info.notified /\ alarm' = alarm
  BY DEF TriggerScan
<1>5. /\ rdev'.req # NoReq => rdev'.req = << asked + 1, "whole" >>
      /\ ~rdev'.six => form # "six"
  BY DEF TriggerScan, IInv, TypeOK
<1>6. /\ cfg'.request = n \/ cfg'.request = cfg.request
      /\ \A t \in Threads, q \in Reqs : Holds(t, q)' => Holds(t, q) /\ th'[t].pc = th[t].pc
  <2>1. CASE UNCHANGED << cfg, th >>
    BY <2>1 DEF Holds
  <2>2. CASE DriverScan(n, "trigger", rdev.int)
    BY <2>2 DEF DriverScan, Holds, IInv, TypeOK, DriverStates
  <2>3. QED
    BY <2>1, <2>2 DEF TriggerScan
<1>7. \A q \in Reqs : Held(q)' => Held(q) \/ q = n
  BY <1>6 DEF Held
<1>8. ~Held(n) /\ n \notin info.notified
  BY <1>1, <1>2, <1>3
<1>9. OneHand => OneHand'
  BY <1>1, <1>6, <1>8 DEF OneHand, Held
<1>10. NotReportedYet => NotReportedYet'
  BY <1>4, <1>7, <1>8 DEF NotReportedYet
<1>11. OfTheLast'
  BY <1>2, <1>5 DEF OfTheLast
<1>12. NoneAhead'
  <2>1. SUFFICES ASSUME NEW q \in Reqs, Held(q)' \/ q \in info'.notified
                 PROVE  q[1] <= asked' /\ (~rdev'.six /\ q[1] = asked' => q[2] # "high")
    BY DEF NoneAhead
  <2>2. CASE q = n
    BY <2>2, <1>1, <1>2, <1>5
  <2>3. CASE q # n
    <3>1. q[1] <= asked
      BY <2>1, <2>3, <1>3, <1>4, <1>7
    <3>2. q[1] \in Nat
      BY DEF Reqs, Scans
    <3>3. QED
      BY <3>1, <3>2, <1>2
  <2>4. QED
    BY <2>2, <2>3
<1>13. QED
  BY <1>4, <1>9, <1>10, <1>11, <1>12 DEF IInv, Exclusive, TwiceOnlyByOverlap

(* The second part was not given out before. *)
LEMMA DoneWorkKeeps ==
  ASSUME IInv, TypeOK', ScanDoneWork
  PROVE  IInv'
<1>1. info' = info /\ asked' = asked /\ alarm' = alarm
  BY DEF ScanDoneWork
<1>2. CASE /\ UNCHANGED << cfg, th >>
           /\ rdev'.req = rdev.req \/ rdev'.req = NoReq
           /\ rdev'.six = rdev.six
  BY <1>1, <1>2, Kept DEF Hand, Holds
<1>3. CASE /\ rdev.req # NoReq /\ ~rdev.six
           /\ rdev' = [rdev EXCEPT !.wk = FALSE, !.six = TRUE, !.int = << rdev.req[1], "high" >>]
           /\ DriverScan(rdev'.int, "second", rdev.int)
  <2> DEFINE n == << rdev.req[1], "high" >>
  <2>1. n \in Reqs /\ n[1] = asked /\ n[2] = "high"
    BY <1>3, RequestTypes DEF IInv, TypeOK, OfTheLast, Parts
  <2>2. ~Held(n) /\ n \notin info.notified
    BY <1>3, <2>1 DEF IInv, NoneAhead
  <2>3. rdev'.int = n /\ rdev'.six /\ rdev'.req = rdev.req
    BY <1>3 DEF IInv, TypeOK
  <2>4. cfg'.request = n /\ \A t \in Threads, q \in Reqs : Holds(t, q)' => Holds(t, q) /\ th'[t].pc = th[t].pc
    BY <1>3, <2>3 DEF DriverScan, Holds, IInv, TypeOK, DriverStates
  <2>5. \A q \in Reqs : Held(q)' => Held(q) \/ q = n
    BY <2>4 DEF Held
  <2>6. (OneHand => OneHand') /\ (NotReportedYet => NotReportedYet')
    BY <1>1, <2>1, <2>2, <2>4, <2>5 DEF OneHand, NotReportedYet, Held
  <2>7. OfTheLast'
    BY <1>1, <2>3 DEF IInv, OfTheLast
  <2>8. asked \in Nat
    BY DEF IInv, TypeOK
  <2>9. NoneAhead'
    BY <1>1, <2>1, <2>3, <2>5, <2>8 DEF IInv, NoneAhead
  <2>10. QED
    BY <1>1, <2>6, <2>7, <2>9 DEF IInv, Exclusive, TwiceOnlyByOverlap
<1>4. QED
  BY <1>2, <1>3 DEF ScanDoneWork, Answer, Cleared, Another, IInv, TypeOK

-----------------------------------------------------------------------------
(* Every step keeps the invariant. *)
THEOREM NextInv == IInv /\ [Next]_vars => IInv'
<1> SUFFICES ASSUME IInv, [Next]_vars PROVE IInv'
  OBVIOUS
<1>1. TypeOK' /\ TypeOK
  BY TypeInv DEF IInv
<1>2. ASSUME NEW t \in Threads, AbortCommand(t) PROVE IInv'
  <2>1. \A u \in Threads, r \in Reqs : Hand(u, r)
    BY <1>1, <1>2 DEF AbortCommand, Hand, Holds, TypeOK, ThreadStates
  <2>2. QED
    BY <1>1, <1>2, <2>1, Kept DEF AbortCommand, kernel, history
<1>3. ASSUME NEW t \in Threads, EscanCommand(t) PROVE IInv'
  <2>1. \A u \in Threads, r \in Reqs : Hand(u, r)
    BY <1>1, <1>3 DEF EscanCommand, Hand, Holds, TypeOK, ThreadStates
  <2>2. QED
    BY <1>1, <1>3, <2>1, Kept DEF EscanCommand, kernel
<1>4. CASE ScanStarted \/ TriggerFails \/ SecondFails \/ SchedStopped
  <2>1. \A u \in Threads, r \in Reqs : Hand(u, r)
    BY <1>1, <1>4 DEF ScanStarted, TriggerFails, SecondFails, SchedStopped, Hand, Holds, Idle, TypeOK
  <2>2. cfg'.request = cfg.request \/ cfg'.request = NoReq
    BY <1>1, <1>4 DEF ScanStarted, TriggerFails, SecondFails, SchedStopped, Armed, Failed, TypeOK, DriverStates
  <2>3. /\ rdev'.req = rdev.req \/ rdev'.req = NoReq
        /\ rdev'.six = rdev.six
        /\ info'.notified = info.notified /\ asked' = asked /\ alarm' = alarm
    BY <1>1, <1>4 DEF ScanStarted, TriggerFails, SecondFails, SchedStopped, Cleared, kernel, history, TypeOK
  <2>4. QED
    BY <1>1, <2>1, <2>2, <2>3, Kept
<1>5. CASE EscanResult
  <2>1. CASE UNCHANGED << th, alarm >>
    BY <1>1, <1>5, <2>1, Kept DEF EscanResult, Hand, Holds, kernel
  <2>2. CASE Notify("event", Unsuccessful(Head(events).status), "done")
    <3>1. /\ \A u \in Threads, r \in Reqs : Hand(u, r)
          /\ alarm \subseteq alarm' /\ ("twice" \in alarm' => "twice" \in alarm)
      BY <1>1, <2>2, NotifyThreads, LetsGo DEF Threads
    <3>2. QED
      BY <1>1, <1>5, <3>1, Kept DEF EscanResult, kernel
  <2>3. QED
    BY <1>5, <2>1, <2>2 DEF EscanResult
<1>6. CASE SchedScanResults
  <2>1. CASE AbortScanning("event", cfg, "internal")
    BY <1>1, <1>6, <2>1, AbortKeeps DEF SchedScanResults, TypeOK, Threads, Purposes
  <2>2. CASE ~AbortScanning("event", cfg, "internal")
    <3>1. cfg'.request = cfg.request
      BY <1>1, <1>6, <2>2 DEF SchedScanResults, TypeOK, DriverStates
    <3>2. \A u \in Threads, r \in Reqs : Hand(u, r)
      BY <1>1, <1>6, <2>2 DEF SchedScanResults, Hand, Holds, TypeOK, ThreadStates
    <3>3. QED
      BY <1>1, <1>6, <2>2, <3>1, <3>2, Kept DEF SchedScanResults, kernel
  <2>3. QED
    BY <2>1, <2>2
<1>7. CASE InternalStarted \/ InternalFails \/ BadPfn \/ SchedScanStopped
  <2>1. \A u \in Threads, r \in Reqs : Hand(u, r)
    BY <1>1, <1>7 DEF InternalStarted, InternalFails, BadPfn, SchedScanStopped, Hand, Holds, Idle, TypeOK, ThreadStates
  <2>2. cfg'.request = cfg.request
    BY <1>1, <1>7 DEF InternalStarted, InternalFails, BadPfn, SchedScanStopped, TypeOK, DriverStates
  <2>3. /\ rdev'.req = rdev.req /\ rdev'.six = rdev.six
        /\ info'.notified = info.notified /\ asked' = asked /\ alarm' = alarm
    BY <1>1, <1>7 DEF InternalStarted, InternalFails, BadPfn, SchedScanStopped, kernel, history, TypeOK
  <2>4. QED
    BY <1>1, <2>1, <2>2, <2>3, Kept
<1>8. CASE TimeoutWorker
  <2>1. /\ \A u \in Threads, r \in Reqs : Hand(u, r)
        /\ alarm \subseteq alarm' /\ ("twice" \in alarm' => "twice" \in alarm)
    BY <1>1, <1>8, NotifyThreads, LetsGo DEF TimeoutWorker, Threads
  <2>2. cfg'.request = cfg.request
    BY <1>1, <1>8 DEF TimeoutWorker, TypeOK, DriverStates
  <2>3. UNCHANGED << kernel, asked >>
    BY <1>8 DEF TimeoutWorker
  <2>4. QED
    BY <1>1, <2>1, <2>2, <2>3, Kept DEF kernel
<1>9. CASE CritProtoStart \/ AbortIfBusy \/ NetdevStop
  <2>1. /\ [cfg EXCEPT !.suppress = TRUE] \in DriverStates /\ cfg \in DriverStates
        /\ [cfg EXCEPT !.suppress = TRUE].request = cfg.request
    BY <1>1 DEF TypeOK, DriverStates
  <2>2. UNCHANGED << kernel, asked >>
    BY <1>9 DEF CritProtoStart, AbortIfBusy, NetdevStop
  <2>3. CASE CritProtoStart
    BY <1>1, <2>1, <2>2, <2>3, AbortKeeps DEF CritProtoStart, Threads, Purposes
  <2>4. CASE AbortIfBusy
    BY <1>1, <2>1, <2>2, <2>4, AbortKeeps DEF AbortIfBusy, Threads, Purposes
  <2>5. CASE NetdevStop
    BY <1>1, <2>1, <2>2, <2>5, AbortKeeps DEF NetdevStop, Threads, Purposes
  <2>6. QED
    BY <1>9, <2>3, <2>4, <2>5
<1>10. CASE UserStopsSched \/ GoingDown
  <2>1. UNCHANGED << kernel, asked >>
    BY <1>10 DEF UserStopsSched, GoingDown
  <2>2. CASE UserStopsSched
    BY <1>1, <2>1, <2>2, SchedStopKeeps DEF UserStopsSched, Threads
  <2>3. CASE GoingDown /\ rdev.sched
    BY <1>1, <2>1, <2>3, SchedStopKeeps DEF GoingDown, Threads
  <2>4. CASE GoingDown /\ ~rdev.sched
    <3>1. cfg' = cfg /\ alarm' = alarm /\ \A u \in Threads, r \in Reqs : Hand(u, r)
      BY <1>1, <2>4 DEF GoingDown, Hand, Holds, TypeOK, ThreadStates
    <3>2. QED
      BY <1>1, <2>1, <3>1, Kept DEF kernel
  <2>5. QED
    BY <1>10, <2>2, <2>3, <2>4
<1>11. CASE Leave \/ NetdevDown
  <2>1. cfg' = cfg /\ \A u \in Threads, r \in Reqs : Hand(u, r)
    <3>1. cfg' = cfg /\ (th' = [th EXCEPT !["down"].pc = "stop"] \/ th' = [th EXCEPT !["down"] = Idle])
      BY <1>11 DEF Leave, NetdevDown
    <3>2. th \in [Threads -> ThreadStates]
      BY <1>1 DEF TypeOK
    <3>3. CASE th' = [th EXCEPT !["down"].pc = "stop"]
      BY <3>1, <3>2, <3>3 DEF Hand, Holds, ThreadStates
    <3>4. CASE th' = [th EXCEPT !["down"] = Idle]
      BY <3>1, <3>2, <3>4 DEF Hand, Holds, Idle, ThreadStates
    <3>5. QED
      BY <3>1, <3>3, <3>4
  <2>2. info'.notified = info.notified
    BY <1>1, <1>11 DEF Leave, NetdevDown, TypeOK
  <2>3. rdev'.req \in {rdev.req, NoReq} /\ rdev'.six = rdev.six
    <3>1. CASE Leave
      BY <1>1, <3>1 DEF Leave, TypeOK
    <3>2. CASE NetdevDown
      <4>1. CASE UNCHANGED rdev
        BY <4>1
      <4>2. CASE ~UNCHANGED rdev
        <5> DEFINE c == Cleared(rdev)
        <5>1. PICK m : rdev' = [c EXCEPT !.msg = m]
          BY <3>2, <4>2 DEF NetdevDown
        <5>2. DOMAIN c = DOMAIN rdev /\ c.req \in {rdev.req, NoReq} /\ c.six = rdev.six
          BY <1>1 DEF Cleared, TypeOK
        <5> HIDE DEF c
        <5>3. QED
          BY <5>1, <5>2
      <4>3. QED
        BY <4>1, <4>2
    <3>3. QED
      BY <1>11, <3>1, <3>2
  <2>4. asked' = asked /\ alarm' = alarm
    BY <1>11 DEF Leave, NetdevDown, history
  <2>5. QED
    BY <1>1, <2>1, <2>2, <2>3, <2>4, Kept
<1>12. CASE CritProtoStop \/ SchedScanStart \/ NetdevUp \/ EscanTimeout
  <2>1. cfg'.request = cfg.request
    <3>1. cfg \in DriverStates
      BY <1>1 DEF TypeOK
    <3>2. CASE CritProtoStop \/ NetdevUp
      BY <3>1, <3>2 DEF CritProtoStop, NetdevUp, DriverStates
    <3>3. CASE SchedScanStart \/ EscanTimeout
      BY <3>1, <3>3 DEF SchedScanStart, EscanTimeout, DriverStates
    <3>4. QED
      BY <1>12, <3>2, <3>3
  <2>2. /\ rdev'.req = rdev.req /\ rdev'.six = rdev.six /\ th' = th
        /\ info'.notified = info.notified /\ asked' = asked /\ alarm' = alarm
    BY <1>1, <1>12 DEF CritProtoStop, SchedScanStart, NetdevUp, EscanTimeout, kernel, history, TypeOK
  <2>3. QED
    BY <1>1, <2>1, <2>2, Kept DEF Hand, Holds
<1>13. CASE DeviceStep \/ UNCHANGED vars
  <2>1. UNCHANGED << kernel, cfg, th, asked, alarm >>
    BY <1>13 DEF DeviceStep, FwFinish, FwPfn, kernel, history, vars
  <2>2. QED
    BY <1>1, <2>1, Kept DEF Hand, Holds, kernel
<1>14. QED
  BY <1>1, <1>2, <1>3, <1>4, <1>5, <1>6, <1>7, <1>8, <1>9, <1>10, <1>11, <1>12, <1>13,
     ReadKeeps, ClearKeeps, FinishKeeps, OverKeepsInv, TriggerKeeps, DoneWorkKeeps
     DEF Next, CallStep, EventStep, TimeoutStep, DownStep, EndStep, UserStep, Threads

(* IInv is an invariant of the specification. *)
THEOREM Inductive == Spec => []IInv
<1>1. QED
  BY InitInv, NextInv, PTL DEF Spec

(* Records keep their types. *)
THEOREM Types == Spec => []TypeOK
<1>1. IInv => TypeOK
  BY DEF IInv
<1>2. QED
  BY <1>1, Inductive, PTL

(* "might cause a double cfg80211_scan_done" (cfg80211.c:1335): only if    *)
(* two threads overlap at the read of the request and its clearing.        *)
THEOREM Once == Spec => []TwiceOnlyByOverlap
<1>1. IInv => TwiceOnlyByOverlap
  BY DEF IInv
<1>2. QED
  BY <1>1, Inductive, PTL

(* Until two threads overlap there, a request that a thread has read is in *)
(* no other hand, not even the driver's once the thread has passed the     *)
(* clearing, and was not reported yet.                                     *)
THEOREM HeldOnce == Spec => [](("raced" \notin alarm) => OneHand /\ NotReportedYet)
<1>1. IInv => (("raced" \notin alarm) => OneHand /\ NotReportedYet)
  BY DEF IInv, Exclusive
<1>2. QED
  BY <1>1, Inductive, PTL

-----------------------------------------------------------------------------
(* One message answers a scan.                                             *)

(* The wiphy mutex is held by the system call in a command, and by the     *)
(* closing of the interface on its way to Leave; a system call in a        *)
(* command of a scan has a request.                                        *)
InCommand == th["call"].pc \in {"issue", "started", "failed"}
EndPcs == {"read", "clear", "abort", "finish", "busy", "bits"}
Leaving == th["down"].pc = "leave" \/ (th["down"].pc \in EndPcs /\ th["down"].then = "leave")
Mutex ==
  /\ th["call"].pc # "idle" => lock = "call"
  /\ Leaving => lock = "down"
  /\ th["call"].pc \in EndPcs => th["call"].then \in {"aborted", "unsched"}
  /\ InCommand => rdev.req # NoReq /\ th["call"].then \in {"trigger", "second"}

(* A scan is open from the command of its first part until its message is  *)
(* sent, and nothing was sent about an open scan.                          *)
ScanOK == scan \in [started : BOOLEAN, answers : Seq(Scans \X {"done", "aborted"}),
                    lost : BOOLEAN, finished : BOOLEAN]
Beginning == InCommand /\ th["call"].then = "trigger"
Answering ==
  /\ rdev.req # NoReq => rdev.msg = << >>
  /\ rdev.msg # << >> => rdev.msg[1] = asked
  /\ ~scan.started => rdev.msg = << >> /\ (rdev.req # NoReq => Beginning)
  /\ Beginning => ~scan.started
  /\ AnsweredOnce

(* A step that leaves the system call, the closing of the interface and    *)
(* the mutex alone.                                                        *)
LEMMA MutexKept ==
  ASSUME Mutex, th'["call"] = th["call"], th'["down"] = th["down"], lock' = lock,
         rdev'.req = rdev.req
  PROVE  Mutex'
  BY DEF Mutex, InCommand, Leaving

(* brcmf_abort_scanning and brcmf_cfg80211_sched_scan_stop: which thread    *)
(* goes where.                                                             *)
LEMMA AbortThreads ==
  ASSUME TypeOK, NEW t \in Threads, NEW c, NEW p \in Purposes, AbortScanning(t, c, p)
  PROVE  /\ \A u \in Threads \ {t} : th'[u] = th[u]
         /\ th'[t].pc \in {"read", "bits"} /\ th'[t].then = p
         /\ lock' = IF t = "call" THEN "call" ELSE lock
<1>1. lock' = IF t = "call" THEN "call" ELSE lock
  BY DEF AbortScanning
<1>2. CASE Notify(t, TRUE, p)
  BY <1>1, <1>2, NotifyThreads
<1>3. CASE th' = [th EXCEPT ![t] = At("bits", p)]
  BY <1>1, <1>3 DEF At, Idle, TypeOK
<1>4. QED
  BY <1>2, <1>3 DEF AbortScanning

LEMMA SchedStopThreads ==
  ASSUME TypeOK, NEW t \in Threads, NEW p \in {"unsched", "leave"}, SchedScanStop(t, p)
  PROVE  /\ \A u \in Threads \ {t} : th'[u] = th[u]
         /\ \/ th'[t].pc = "read" /\ th'[t].then = p
            \/ th'[t].pc = p
<1>1. th \in [Threads -> ThreadStates]
  BY DEF TypeOK
<1>2. CASE Notify(t, TRUE, p)
  BY <1>2, NotifyThreads
<1>3. CASE th' = [th EXCEPT ![t].pc = p]
  BY <1>1, <1>3 DEF ThreadStates
<1>4. QED
  BY <1>2, <1>3 DEF SchedScanStop

(* A step of brcmf_notify_escan_complete and of what follows it: on to the *)
(* next statement, or back to what the caller does then.                   *)
LEMMA EndThreads ==
  ASSUME TypeOK, NEW t \in Threads, EndStep(t)
  PROVE  /\ \A u \in Threads \ {t} : th'[u] = th[u]
         /\ th[t].pc \in EndPcs
         /\ \/ th'[t].pc \in EndPcs /\ th'[t].then = th[t].then /\ lock' = lock
            \/ /\ th'[t].pc = NextPc(th[t].then) /\ th'[t].then = "done"
               /\ lock' = IF t = "call" /\ NextPc(th[t].then) = "idle" THEN "free" ELSE lock
         /\ rdev'.req = rdev.req /\ rdev'.msg = rdev.msg /\ asked' = asked
<1>1. th \in [Threads -> ThreadStates]
  BY DEF TypeOK
<1>2. CASE ReadRequest(t)
  BY <1>1, <1>2 DEF ReadRequest, ThreadStates, EndPcs, kernel
<1>3. CASE ClearRequest(t) \/ AbortCommand(t)
  <2>1. PICK p \in {"abort", "finish"} : th' = [th EXCEPT ![t].pc = p]
    BY <1>3 DEF ClearRequest, AbortCommand
  <2>2. th[t].pc \in EndPcs /\ lock' = lock /\ UNCHANGED kernel /\ asked' = asked
    BY <1>3 DEF ClearRequest, AbortCommand, EndPcs
  <2>3. QED
    BY <1>1, <2>1, <2>2 DEF ThreadStates, EndPcs, kernel
<1>4. CASE Report(t)
  <2>1. th' = [th EXCEPT ![t] = At("busy", th[t].then)] /\ th[t].pc = "finish" /\ lock' = lock /\ asked' = asked
    BY <1>4 DEF Report
  <2>2. rdev'.req = rdev.req /\ rdev'.msg = rdev.msg
    BY <1>4 DEF Report, ScanDone, TypeOK, kernel
  <2>3. QED
    BY <1>1, <2>1, <2>2 DEF At, Idle, EndPcs
<1>5. CASE NotBusy(t) \/ ClearBits(t)
  <2>1. th[t].pc \in EndPcs /\ UNCHANGED kernel /\ asked' = asked
    BY <1>5 DEF NotBusy, ClearBits, EndPcs
  <2>2. CASE GoesOn(t, th[t].then)
    BY <1>1, <2>1, <2>2 DEF GoesOn, Idle, kernel
  <2>3. CASE th' = [th EXCEPT ![t].pc = "bits"] /\ UNCHANGED lock
    BY <1>1, <2>1, <2>3 DEF ThreadStates, EndPcs, kernel
  <2>4. QED
    BY <1>5, <2>2, <2>3 DEF NotBusy, ClearBits
<1>6. QED
  BY <1>2, <1>3, <1>4, <1>5 DEF EndStep

LEMMA MutexNext ==
  ASSUME TypeOK, Mutex, [Next]_vars
  PROVE  Mutex'
<1>0. th \in [Threads -> ThreadStates]
  BY DEF TypeOK
<1>1. CASE ScanStarted \/ TriggerFails \/ SecondFails \/ SchedStopped
  <2>1. th'["call"] = Idle /\ th'["down"] = th["down"] /\ lock' = "free" /\ th["call"].pc # "idle"
    BY <1>0, <1>1 DEF ScanStarted, TriggerFails, SecondFails, SchedStopped, Threads
  <2>2. ~Leaving
    BY <2>1 DEF Mutex
  <2>3. QED
    BY <2>1, <2>2 DEF Mutex, InCommand, Leaving, EndPcs, Idle
<1>2. ASSUME NEW t \in Threads, EndStep(t) PROVE Mutex'
  <2>1. CASE t = "call"
    <3>1. th["call"].then \in {"aborted", "unsched"} /\ lock = "call"
      BY <1>2, <2>1, EndThreads DEF Mutex, EndPcs
    <3>2. th'["call"].pc # "idle" => lock' = "call"
      BY <1>2, <2>1, <3>1, EndThreads
    <3>3. /\ th'["call"].pc \in EndPcs => th'["call"].then \in {"aborted", "unsched"}
          /\ th'["call"].pc \notin {"issue", "started", "failed"}
      BY <1>2, <2>1, <3>1, EndThreads DEF NextPc, EndPcs
    <3>4. ~Leaving /\ ~Leaving'
      BY <1>2, <2>1, <3>1, EndThreads DEF Mutex, Leaving, Threads
    <3>5. QED
      BY <3>2, <3>3, <3>4 DEF Mutex, InCommand
  <2>2. CASE t = "down"
    <3>1. th'["call"] = th["call"] /\ lock' = lock /\ rdev'.req = rdev.req
      BY <1>2, <2>2, EndThreads DEF Threads
    <3>2. Leaving' => Leaving
      BY <1>2, <2>2, EndThreads DEF Leaving, NextPc, EndPcs
    <3>3. QED
      BY <3>1, <3>2 DEF Mutex, InCommand
  <2>3. CASE t \in {"event", "timeout"}
    BY <1>2, <2>3, EndThreads, MutexKept DEF Threads
  <2>4. QED
    BY <2>1, <2>2, <2>3 DEF Threads
<1>4. ASSUME NEW t \in Threads, EscanCommand(t) PROVE Mutex'
  <2>1. /\ \A u \in Threads \ {t} : th'[u] = th[u]
        /\ th[t].pc = "issue" /\ th'[t].pc \in {"started", "failed"} /\ th'[t].then = th[t].then
        /\ lock' = lock /\ rdev' = rdev
    BY <1>0, <1>4 DEF EscanCommand, ThreadStates, kernel
  <2>2. QED
    BY <2>1 DEF Mutex, InCommand, Leaving, EndPcs, Threads
<1>5. CASE ScanDoneWork
  <2>1. th["call"].pc = "idle" /\ ~Leaving
    BY <1>5 DEF ScanDoneWork, Mutex
  <2>2. CASE UNCHANGED << th, lock >>
    BY <2>1, <2>2 DEF Mutex, InCommand, Leaving, EndPcs
  <2>3. CASE /\ DriverScan(rdev'.int, "second", rdev.int) /\ rdev.req # NoReq
             /\ rdev' = [rdev EXCEPT !.wk = FALSE, !.six = TRUE, !.int = << rdev.req[1], "high" >>]
    <3>1. /\ th'["call"].pc = "issue" /\ th'["call"].then = "second" /\ th'["down"] = th["down"]
          /\ lock' = "call"
      BY <1>0, <2>3 DEF DriverScan, Threads
    <3>2. rdev'.req # NoReq
      BY <2>3 DEF TypeOK
    <3>3. QED
      BY <2>1, <3>1, <3>2 DEF Mutex, InCommand, Leaving, EndPcs
  <2>4. QED
    BY <1>5, <2>2, <2>3 DEF ScanDoneWork
<1>6. CASE EscanResult \/ TimeoutWorker
  <2>1. th'["call"] = th["call"] /\ th'["down"] = th["down"]
    BY <1>6, NotifyThreads DEF EscanResult, TimeoutWorker, Threads
  <2>2. lock' = lock /\ rdev' = rdev
    BY <1>6 DEF EscanResult, TimeoutWorker, kernel
  <2>3. QED
    BY <2>1, <2>2, MutexKept
<1>7. CASE SchedScanResults
  <2>1. rdev' = rdev
    BY <1>7 DEF SchedScanResults, kernel
  <2>2. CASE AbortScanning("event", cfg, "internal")
    <3>1. th'["call"] = th["call"] /\ th'["down"] = th["down"] /\ lock' = lock
      BY <2>2, AbortThreads DEF Threads, Purposes
    <3>2. QED
      BY <2>1, <3>1, MutexKept
  <2>3. CASE ~AbortScanning("event", cfg, "internal")
    BY <1>0, <1>7, <2>1, <2>3, MutexKept DEF SchedScanResults, Threads
  <2>4. QED
    BY <2>2, <2>3
<1>8. CASE InternalStarted \/ InternalFails \/ BadPfn \/ SchedScanStopped
  <2>1. th'["call"] = th["call"] /\ th'["down"] = th["down"] /\ lock' = lock
    BY <1>0, <1>8 DEF InternalStarted, InternalFails, BadPfn, SchedScanStopped, Threads
  <2>2. rdev'.req = rdev.req
    BY <1>8 DEF InternalStarted, InternalFails, BadPfn, SchedScanStopped, kernel, TypeOK
  <2>3. QED
    BY <2>1, <2>2, MutexKept
<1>9. CASE EscanTimeout \/ CritProtoStop \/ SchedScanStart \/ NetdevUp \/ DeviceStep \/ UNCHANGED vars
  <2>1. th' = th /\ lock' = lock
    BY <1>9 DEF EscanTimeout, CritProtoStop, SchedScanStart, NetdevUp, DeviceStep, FwFinish, FwPfn, vars
  <2>2. rdev'.req = rdev.req
    BY <1>9 DEF EscanTimeout, CritProtoStop, SchedScanStart, NetdevUp, DeviceStep, FwFinish, FwPfn, vars,
       kernel, TypeOK
  <2>3. QED
    BY <2>1, <2>2, MutexKept
<1>10. CASE CritProtoStart \/ AbortIfBusy
  <2>1. PICK c : AbortScanning("call", c, "aborted")
    BY <1>10 DEF CritProtoStart, AbortIfBusy
  <2>2. lock = "free" /\ rdev' = rdev
    BY <1>10 DEF CritProtoStart, AbortIfBusy, Aborts, kernel
  <2>3. th'["down"] = th["down"]
    BY <2>1, AbortThreads DEF Threads, Purposes
  <2>4. lock' = "call" /\ th'["call"].then = "aborted" /\ th'["call"].pc \in {"read", "bits"}
    BY <2>1, AbortThreads DEF Threads, Purposes
  <2>5. QED
    BY <2>2, <2>3, <2>4 DEF Mutex, InCommand, Leaving, EndPcs
<1>11. CASE NetdevStop
  <2>1. /\ th'["call"] = th["call"] /\ lock' = lock /\ rdev' = rdev
        /\ th'["down"].pc \in {"read", "bits"} /\ th'["down"].then = "downed"
    BY <1>11, AbortThreads DEF NetdevStop, Threads, Purposes, kernel
  <2>2. QED
    BY <2>1 DEF Mutex, InCommand, Leaving, EndPcs
<1>12. CASE UserStopsSched
  <2>1. /\ th'["down"] = th["down"] /\ lock' = "call" /\ rdev' = rdev /\ lock = "free"
        /\ \/ th'["call"].pc = "read" /\ th'["call"].then = "unsched"
           \/ th'["call"].pc = "unsched"
    BY <1>12, SchedStopThreads DEF UserStopsSched, Threads, kernel
  <2>2. QED
    BY <2>1 DEF Mutex, InCommand, Leaving, EndPcs
<1>13. CASE GoingDown
  <2>1. /\ th'["call"] = th["call"] /\ lock' = "down" /\ lock = "free"
        /\ rdev' = rdev
    BY <1>0, <1>13, SchedStopThreads DEF GoingDown, Threads, kernel
  <2>2. QED
    BY <2>1 DEF Mutex, InCommand, Leaving, EndPcs
<1>14. CASE Leave
  <2>1. /\ th'["call"] = th["call"] /\ th'["down"].pc = "stop" /\ th["down"].pc = "leave"
    BY <1>0, <1>14 DEF Leave, Threads, ThreadStates
  <2>2. th["call"].pc = "idle"
    BY <2>1 DEF Mutex, Leaving
  <2>3. QED
    BY <2>1, <2>2 DEF Mutex, InCommand, Leaving, EndPcs
<1>15. CASE NetdevDown
  <2>1. th'["call"] = th["call"] /\ th'["down"] = Idle /\ lock = "free"
    BY <1>0, <1>15 DEF NetdevDown, Threads
  <2>2. QED
    BY <2>1 DEF Mutex, InCommand, Leaving, EndPcs, Idle
<1>16. ASSUME NEW form \in Forms, TriggerScan(form) PROVE Mutex'
  <2>1. th["call"].pc = "idle" /\ ~Leaving
    BY <1>16 DEF TriggerScan, Mutex
  <2>2. CASE UNCHANGED << th, lock >>
    BY <2>1, <2>2 DEF Mutex, InCommand, Leaving, EndPcs
  <2>3. CASE ~UNCHANGED << th, lock >>
    <3>1. /\ th'["call"].pc = "issue" /\ th'["call"].then = "trigger" /\ th'["down"] = th["down"]
          /\ lock' = "call"
      BY <1>0, <1>16, <2>3 DEF TriggerScan, DriverScan, Threads
    <3>2. rdev'.req = << asked + 1, "whole" >>
      BY <1>16, <2>3 DEF TriggerScan, TypeOK
    <3>3. rdev'.req # NoReq
      <4>1. asked + 1 \in Scans
        BY <1>16, ScanAssumption DEF TriggerScan, TypeOK, Scans
      <4>2. QED
        BY <3>2, <4>1, NoReqAssumption DEF Reqs, Parts
    <3>4. QED
      BY <2>1, <3>1, <3>3 DEF Mutex, InCommand, Leaving, EndPcs
  <2>4. QED
    BY <2>2, <2>3
<1>17. QED
  BY <1>1, <1>2, <1>4, <1>5, <1>6, <1>7, <1>8, <1>9, <1>10, <1>11, <1>12, <1>13, <1>14, <1>15, <1>16
     DEF Next, CallStep, EventStep, TimeoutStep, DownStep, UserStep, Threads

(* The record of the scan keeps its type.                                  *)
LEMMA ScanTypes ==
  ASSUME IInv, ScanOK, Mutex, [Next]_vars
  PROVE  ScanOK'
<1> DEFINE A == Seq(Scans \X {"done", "aborted"})
<1>1. ASSUME NEW k \in Scans, NEW v \in {"done", "aborted"}, Sent(k, v) PROVE ScanOK'
  <2>1. Append(scan.answers, << k, v >>) \in A
    BY <1>1 DEF ScanOK
  <2>2. QED
    BY <1>1, <2>1 DEF Sent, ScanOK
<1>2. CASE scan' = scan
  BY <1>2 DEF ScanOK
<1>3. CASE ScanStarted
  BY <1>3 DEF ScanStarted, ScanOK
<1>4. CASE SecondFails
  <2>1. rdev.req # NoReq
    BY <1>4 DEF SecondFails, Mutex, InCommand
  <2>2. rdev.req[1] \in Scans
    BY <2>1, RequestTypes DEF IInv, TypeOK
  <2>3. QED
    BY <1>1, <1>4, <2>2 DEF SecondFails
<1>5. ASSUME NEW t \in Threads, EndStep(t) PROVE ScanOK'
  <2>1. \/ scan' = scan
        \/ scan' = [scan EXCEPT !.lost = @ \/ (th[t].req # NoReq /\ th[t].req[1] = asked)]
        \/ scan' = [scan EXCEPT !.lost = @ \/ (cfg.request \notin {NoReq, th[t].req} /\ cfg.request[1] = asked)]
    BY <1>5 DEF EndStep, ReadRequest, ClearRequest, AbortCommand, Report, NotBusy, ClearBits, history
  <2>2. QED
    BY <2>1 DEF ScanOK
<1>6. ASSUME NEW t \in Threads, EscanCommand(t) PROVE ScanOK'
  <2>1. scan' = scan \/ scan' = [scan EXCEPT !.finished = FALSE]
    BY <1>6 DEF EscanCommand
  <2>2. QED
    BY <2>1 DEF ScanOK
<1>7. CASE ScanDoneWork
  <2>1. CASE rdev.msg # << >> /\ Sent(rdev.msg[1], rdev.msg[2])
    <3>1. rdev.msg[1] \in Scans /\ rdev.msg[2] \in {"done", "aborted"}
      BY <2>1 DEF IInv, TypeOK
    <3>2. QED
      BY <1>1, <2>1, <3>1
  <2>2. CASE rdev.req # NoReq /\ Sent(rdev.req[1], Verdict)
    <3>1. rdev.req[1] \in Scans /\ Verdict \in {"done", "aborted"}
      BY <2>2, RequestTypes DEF IInv, TypeOK, Verdict
    <3>2. QED
      BY <1>1, <2>2, <3>1
  <2>3. QED
    BY <1>2, <1>7, <2>1, <2>2 DEF ScanDoneWork, Answer
<1>8. ASSUME NEW form \in Forms, TriggerScan(form) PROVE ScanOK'
  BY <1>8 DEF TriggerScan, NewScan, ScanOK
<1>9. ASSUME NEW s \in {"success", "failed"}, FwFinish(s) \/ FwPfn(s) PROVE ScanOK'
  <2>1. scan' = scan \/ scan' = [scan EXCEPT !.finished = TRUE]
    BY <1>9 DEF FwFinish, FwPfn, history
  <2>2. QED
    BY <2>1 DEF ScanOK
<1>10. CASE TriggerFails \/ SchedStopped \/ InternalStarted \/ InternalFails \/ BadPfn \/ SchedScanStopped
            \/ EscanTimeout \/ CritProtoStop \/ SchedScanStart \/ NetdevUp \/ NetdevDown \/ Leave
            \/ UNCHANGED vars
  BY <1>2, <1>10 DEF TriggerFails, SchedStopped, InternalStarted, InternalFails, BadPfn, SchedScanStopped,
     EscanTimeout, CritProtoStop, SchedScanStart, NetdevUp, NetdevDown, Leave, history, vars
<1>11. CASE EscanResult \/ SchedScanResults \/ TimeoutWorker \/ CritProtoStart \/ AbortIfBusy
            \/ UserStopsSched \/ GoingDown \/ NetdevStop
  BY <1>2, <1>11 DEF EscanResult, SchedScanResults, TimeoutWorker, CritProtoStart, AbortIfBusy,
     UserStopsSched, GoingDown, NetdevStop
<1>12. QED
  BY <1>3, <1>4, <1>5, <1>6, <1>7, <1>8, <1>9, <1>10, <1>11
     DEF Next, CallStep, EventStep, TimeoutStep, DownStep, UserStep, DeviceStep, Threads

(* A step that neither opens a scan nor answers one.                       *)
LEMMA AnsweringKept ==
  ASSUME Answering, rdev'.req = rdev.req, rdev'.msg = rdev.msg, asked' = asked,
         scan'.started = scan.started, scan'.answers = scan.answers, Beginning' <=> Beginning
  PROVE  Answering'
  BY DEF Answering, AnsweredOnce

(* One message more.                                                       *)
LEMMA OneAnswer ==
  ASSUME ScanOK, Len(scan.answers) = 0, NEW v, Sent(asked, v), asked' = asked
  PROVE  /\ scan'.started = scan.started /\ Len(scan'.answers) = 1
         /\ \A n \in DOMAIN scan'.answers : scan'.answers[n][1] = asked'
<1>1. scan'.answers = Append(scan.answers, << asked, v >>) /\ scan'.started = scan.started
  BY DEF Sent, ScanOK
<1>2. scan.answers = << >>
  BY DEF ScanOK
<1>3. scan'.answers = << << asked, v >> >>
  BY <1>1, <1>2
<1>4. QED
  BY <1>1, <1>3

LEMMA AnsweringNext ==
  ASSUME IInv, ScanOK, Mutex, Answering, [Next]_vars
  PROVE  Answering'
<1> TypeOK /\ th \in [Threads -> ThreadStates] /\ "call" \in Threads
  BY DEF IInv, TypeOK, Threads
<1>1. CASE ScanStarted
  <2>1. /\ th["call"].pc = "started" /\ th'["call"] = Idle
        /\ rdev' = rdev /\ asked' = asked /\ scan'.started /\ scan'.answers = scan.answers
    BY <1>1 DEF ScanStarted, ScanOK, kernel
  <2>2. InCommand /\ rdev.req # NoReq /\ ~Beginning'
    BY <2>1 DEF InCommand, Mutex, Beginning, Idle
  <2>3. QED
    BY <2>1, <2>2 DEF Answering, AnsweredOnce
<1>2. CASE TriggerFails
  <2>1. /\ Beginning /\ th'["call"] = Idle
        /\ rdev'.req = NoReq /\ rdev'.msg = rdev.msg /\ asked' = asked /\ scan' = scan
    BY <1>2 DEF TriggerFails, Beginning, InCommand, TypeOK, history
  <2>2. ~Beginning'
    BY <2>1 DEF InCommand, Beginning, Idle
  <2>3. QED
    BY <2>1, <2>2 DEF Answering, AnsweredOnce
<1>3. CASE SecondFails
  <2>1. /\ InCommand /\ ~Beginning /\ th'["call"] = Idle
        /\ rdev'.req = NoReq /\ rdev'.msg = rdev.msg /\ asked' = asked
    BY <1>3 DEF SecondFails, Beginning, InCommand, Cleared, TypeOK
  <2>2. rdev.req # NoReq /\ ~Beginning' /\ rdev.req[1] = asked
    BY <2>1 DEF Mutex, InCommand, Beginning, Idle, IInv, OfTheLast
  <2>3. scan.started /\ Len(scan.answers) = 0 /\ rdev.msg = << >>
    BY <2>1, <2>2 DEF Answering, AnsweredOnce
  <2>4. PICK v : Sent(asked, v)
    BY <1>3, <2>2 DEF SecondFails
  <2>5. /\ scan'.started /\ Len(scan'.answers) = 1
        /\ \A n \in DOMAIN scan'.answers : scan'.answers[n][1] = asked'
    BY <2>1, <2>3, <2>4, OneAnswer
  <2>6. QED
    BY <2>1, <2>2, <2>3, <2>5 DEF Answering, AnsweredOnce
<1>4. CASE ScanDoneWork
  <2>1. /\ asked' = asked /\ ~Beginning /\ th["call"].pc = "idle"
    BY <1>4 DEF ScanDoneWork, Mutex, Beginning, InCommand
  <2>2. CASE /\ rdev.msg # << >> /\ Sent(rdev.msg[1], rdev.msg[2])
             /\ rdev' = [rdev EXCEPT !.wk = FALSE, !.msg = << >>] /\ UNCHANGED th
    <3>1. rdev.req = NoReq /\ rdev.msg[1] = asked /\ scan.started /\ Len(scan.answers) = 0
      BY <2>2 DEF Answering, AnsweredOnce
    <3>2. /\ scan'.started /\ Len(scan'.answers) = 1
          /\ \A n \in DOMAIN scan'.answers : scan'.answers[n][1] = asked'
      BY <2>1, <2>2, <3>1, OneAnswer
    <3>3. rdev'.req = NoReq /\ rdev'.msg = << >> /\ ~Beginning'
      BY <2>1, <2>2, <3>1 DEF TypeOK, Beginning, InCommand
    <3>4. QED
      BY <3>2, <3>3 DEF Answering, AnsweredOnce
  <2>3. CASE rdev' = [rdev EXCEPT !.wk = FALSE] /\ UNCHANGED << scan, th >>
    BY <2>1, <2>3, AnsweringKept DEF TypeOK, Beginning, InCommand
  <2>4. CASE /\ rdev.msg = << >> /\ rdev.req # NoReq /\ UNCHANGED th
             /\ Answer([rdev EXCEPT !.wk = FALSE])
    <3>1. rdev.req[1] = asked /\ scan.started /\ Len(scan.answers) = 0
      BY <2>1, <2>4 DEF Answering, AnsweredOnce, IInv, OfTheLast
    <3>2. /\ scan'.started /\ Len(scan'.answers) = 1
          /\ \A n \in DOMAIN scan'.answers : scan'.answers[n][1] = asked'
      BY <2>1, <2>4, <3>1, OneAnswer DEF Answer
    <3>3. rdev'.req = NoReq /\ rdev'.msg = << >> /\ ~Beginning'
      BY <2>1, <2>4 DEF TypeOK, Answer, Cleared, Beginning, InCommand
    <3>4. QED
      BY <3>2, <3>3 DEF Answering, AnsweredOnce
  <2>5. CASE /\ rdev.msg = << >> /\ rdev.req # NoReq /\ scan' = scan
             /\ rdev' = [rdev EXCEPT !.wk = FALSE, !.six = TRUE, !.int = << rdev.req[1], "high" >>]
             /\ DriverScan(rdev'.int, "second", rdev.int)
    <3>1. rdev'.req = rdev.req /\ rdev'.msg = rdev.msg
      BY <2>5 DEF TypeOK
    <3>2. ~Beginning'
      BY <2>5 DEF DriverScan, Beginning
    <3>3. QED
      BY <2>1, <2>5, <3>1, <3>2, AnsweringKept
  <2>6. QED
    BY <1>4, <2>2, <2>3, <2>4, <2>5 DEF ScanDoneWork
<1>5. CASE NetdevDown
  <2>1. /\ asked' = asked /\ scan' = scan /\ th'["call"] = th["call"] /\ ~Beginning
    BY <1>5 DEF NetdevDown, history, Threads, Mutex, Beginning, InCommand
  <2>2. ~Beginning'
    BY <2>1 DEF Beginning, InCommand
  <2>3. CASE rdev' = rdev
    BY <2>1, <2>2, <2>3, AnsweringKept
  <2>4. CASE rdev' # rdev
    <3> DEFINE c == Cleared(rdev)
    <3>1. rdev.req # NoReq
      BY <1>5, <2>4 DEF NetdevDown
    <3>2. PICK v : rdev' = [c EXCEPT !.msg = << rdev.req[1], v >>]
      BY <1>5, <2>4 DEF NetdevDown
    <3>3. DOMAIN c = DOMAIN rdev /\ c.req = NoReq /\ DOMAIN rdev = DOMAIN [req |-> 1, int |-> 1, six |-> 1,
             msg |-> 1, wk |-> 1, running |-> 1, sched |-> 1]
      BY DEF Cleared, TypeOK
    <3> HIDE DEF c
    <3>4. rdev'.req = NoReq /\ rdev'.msg = << rdev.req[1], v >>
      BY <3>2, <3>3
    <3>5. rdev.req[1] = asked /\ rdev'.msg # << >> /\ rdev'.msg[1] = asked
      BY <3>1, <3>4 DEF IInv, OfTheLast
    <3>6. QED
      BY <2>1, <2>2, <3>1, <3>4, <3>5 DEF Answering, AnsweredOnce
  <2>5. QED
    BY <2>3, <2>4
<1>6. ASSUME NEW form \in Forms, TriggerScan(form) PROVE Answering'
  <2>1. /\ th["call"].pc = "idle" /\ rdev.req = NoReq /\ rdev.msg = << >> /\ scan' = NewScan
    BY <1>6 DEF TriggerScan, CanScan, Mutex
  <2>2. rdev'.msg = << >>
    BY <1>6, <2>1 DEF TriggerScan, TypeOK
  <2>3. rdev'.req # NoReq => Beginning'
    <3>1. CASE DriverScan(FirstPart(asked + 1, form), "trigger", rdev.int)
      BY <3>1 DEF DriverScan, Beginning, InCommand
    <3>2. CASE ~DriverScan(FirstPart(asked + 1, form), "trigger", rdev.int)
      BY <1>6, <3>2 DEF TriggerScan, TypeOK
    <3>3. QED
      BY <3>1, <3>2
  <2>4. ~scan'.started /\ scan'.answers = << >>
    BY <2>1 DEF NewScan
  <2>5. QED
    BY <2>2, <2>3, <2>4 DEF Answering, AnsweredOnce
<1>7. CASE Leave \/ SchedStopped \/ SchedScanStopped \/ SchedScanStart \/ NetdevUp
           \/ InternalStarted \/ InternalFails \/ BadPfn \/ EscanTimeout \/ CritProtoStop
  <2>1. rdev'.req = rdev.req /\ rdev'.msg = rdev.msg /\ asked' = asked /\ scan' = scan
    BY <1>7 DEF Leave, SchedStopped, SchedScanStopped, SchedScanStart, NetdevUp, InternalStarted, InternalFails,
       BadPfn, EscanTimeout, CritProtoStop, TypeOK, history, kernel
  <2>2. Beginning' <=> Beginning
    BY <1>7 DEF Leave, SchedStopped, SchedScanStopped, SchedScanStart, NetdevUp, InternalStarted, InternalFails,
       BadPfn, EscanTimeout, CritProtoStop, Beginning, InCommand, Idle, Threads
  <2>3. QED
    BY <2>1, <2>2, AnsweringKept
<1>8. ASSUME NEW t \in Threads, EscanCommand(t) PROVE Answering'
  <2>1. /\ rdev' = rdev /\ asked' = asked
        /\ scan'.started = scan.started /\ scan'.answers = scan.answers
    BY <1>8 DEF EscanCommand, history, kernel, ScanOK
  <2>2. Beginning' <=> Beginning
    BY <1>8 DEF EscanCommand, Beginning, InCommand, ThreadStates
  <2>3. QED
    BY <2>1, <2>2, AnsweringKept
<1>9. ASSUME NEW t \in Threads, EndStep(t) PROVE Answering'
  <2>1. rdev'.req = rdev.req /\ rdev'.msg = rdev.msg /\ asked' = asked
    BY <1>9, EndThreads
  <2>2. scan'.started = scan.started /\ scan'.answers = scan.answers
    BY <1>9 DEF EndStep, ReadRequest, ClearRequest, AbortCommand, Report, NotBusy, ClearBits, history, ScanOK
  <2>3. Beginning' <=> Beginning
    <3>1. CASE t = "call"
      <4>1. th[t].then \in {"aborted", "unsched"} /\ ~Beginning
        BY <1>9, <3>1, EndThreads DEF Mutex, Beginning, InCommand, EndPcs
      <4>2. th'["call"].then \in {"done", "aborted", "unsched"}
        BY <1>9, <3>1, <4>1, EndThreads
      <4>3. QED
        BY <4>1, <4>2 DEF Beginning
    <3>2. CASE t # "call"
      <4>1. th'["call"] = th["call"]
        BY <1>9, <3>2, EndThreads
      <4>2. QED
        BY <4>1 DEF Beginning, InCommand
    <3>3. QED
      BY <3>1, <3>2
  <2>4. QED
    BY <2>1, <2>2, <2>3, AnsweringKept
<1>10. CASE DeviceStep \/ UNCHANGED vars
  <2>1. /\ rdev' = rdev /\ asked' = asked /\ th' = th
        /\ scan'.started = scan.started /\ scan'.answers = scan.answers
    BY <1>10 DEF DeviceStep, FwFinish, FwPfn, history, kernel, ScanOK, vars
  <2>2. QED
    BY <2>1, AnsweringKept DEF Beginning, InCommand
<1>11. CASE EscanResult \/ TimeoutWorker \/ SchedScanResults \/ NetdevStop \/ GoingDown
            \/ CritProtoStart \/ AbortIfBusy \/ UserStopsSched
  <2>1. rdev' = rdev /\ asked' = asked /\ scan' = scan
    BY <1>11 DEF EscanResult, TimeoutWorker, SchedScanResults, NetdevStop, GoingDown, CritProtoStart, AbortIfBusy,
       UserStopsSched, kernel
  <2>2. CASE th'["call"] = th["call"]
    BY <2>1, <2>2, AnsweringKept DEF Beginning, InCommand
  <2>3. CASE th'["call"] # th["call"]
    <3>1. CASE EscanResult \/ TimeoutWorker \/ SchedScanResults \/ NetdevStop \/ GoingDown
      <4>1. CASE EscanResult \/ TimeoutWorker
        BY <2>3, <4>1, NotifyThreads DEF EscanResult, TimeoutWorker, Threads
      <4>2. CASE SchedScanResults
        BY <2>3, <4>2, AbortThreads DEF SchedScanResults, Threads, Purposes
      <4>3. CASE NetdevStop
        BY <2>3, <4>3, AbortThreads DEF NetdevStop, Threads, Purposes
      <4>4. CASE GoingDown
        BY <2>3, <4>4, SchedStopThreads DEF GoingDown, Threads
      <4>5. QED
        BY <3>1, <4>1, <4>2, <4>3, <4>4
    <3>2. CASE CritProtoStart \/ AbortIfBusy \/ UserStopsSched
      <4>1. th["call"].pc = "idle"
        BY <3>2 DEF CritProtoStart, AbortIfBusy, UserStopsSched, Aborts, Mutex
      <4>2. th'["call"].pc \in {"read", "bits", "unsched"}
        <5>1. CASE UserStopsSched
          BY <5>1, SchedStopThreads DEF UserStopsSched, Threads
        <5>2. CASE CritProtoStart \/ AbortIfBusy
          BY <5>2, AbortThreads DEF CritProtoStart, AbortIfBusy, Threads, Purposes
        <5>3. QED
          BY <3>2, <5>1, <5>2
      <4>3. QED
        BY <2>1, <4>1, <4>2, AnsweringKept DEF Beginning, InCommand
    <3>3. QED
      BY <1>11, <3>1, <3>2
  <2>4. QED
    BY <2>2, <2>3
<1>12. QED
  BY <1>1, <1>2, <1>3, <1>4, <1>5, <1>6, <1>7, <1>8, <1>9, <1>10, <1>11
     DEF Next, CallStep, EventStep, TimeoutStep, DownStep, UserStep, Threads

LEMMA AnsweringInit ==
  ASSUME Init
  PROVE  ScanOK /\ Mutex /\ Answering
<1>1. /\ rdev.req = NoReq /\ rdev.msg = << >> /\ scan = NewScan
      /\ th["call"] = Idle /\ th["down"] = Idle
  BY DEF Init, Threads
<1>2. ScanOK
  BY <1>1 DEF ScanOK, NewScan
<1>3. QED
  BY <1>1, <1>2 DEF Mutex, InCommand, Leaving, EndPcs, Answering, AnsweredOnce, Beginning, Idle, NewScan

LEMMA OpenScans == Spec => [](IInv /\ ScanOK /\ Mutex /\ Answering)
<1>1. Init => IInv /\ ScanOK /\ Mutex /\ Answering
  BY InitInv, AnsweringInit
<1>2. IInv /\ ScanOK /\ Mutex /\ Answering /\ [Next]_vars => (IInv /\ ScanOK /\ Mutex /\ Answering)'
  BY NextInv, ScanTypes, MutexNext, AnsweringNext DEF IInv
<1>3. QED
  BY <1>1, <1>2, PTL DEF Spec

(* A scan that was started and is over was answered by one message, of its *)
(* own number, and one that was refused by none: in every interleaving of  *)
(* the work item, the closing of the interface and the failing parts.      *)
THEOREM Answered == Spec => []AnsweredOnce
<1>1. Answering => AnsweredOnce
  BY DEF Answering
<1>2. QED
  BY <1>1, OpenScans, PTL

-----------------------------------------------------------------------------
(* The verdict of the message.  Until the host ends a scan itself, the     *)
(* firmware and the driver agree on what is scanned (Believed), although   *)
(* no event says which scan it is of; and the report that is to come, or   *)
(* has come, is the one the open scan waits for (Reporting).               *)

FirmwareEvents == [of : Reqs \cup {Pno, Pfn}, status : {"success", "failed"}]
FirmwareOK ==
  /\ fw \in Reqs \cup {Pno, NoReq}
  /\ events \in Seq(FirmwareEvents)
  /\ InCommand => th["call"].req \in Reqs

Pending == \E n \in DOMAIN events : events[n].of # Pfn
Runs(x) == fw = x \/ \E n \in DOMAIN events : events[n].of = x
Internal == cfg.int \/ th["event"].pc \in {"issue", "started", "failed"}
Issuing == th["call"].pc \in {"issue", "failed"}
InEnd == th["event"].pc \in {"read", "clear", "finish", "busy"}
Handed == th["event"].pc \in {"finish", "busy"}
Ending == th["event"].pc = "finish"
Fit(t) ==
  th[t].pc \in EndPcs =>
    IF t = "event" THEN th[t].then = "done" /\ th[t].pc \notin {"abort", "bits"}
    ELSE th[t].pc = "bits" /\ th[t].then \in {"aborted", "downed"}
Believed ==
  /\ \A t \in Threads : Fit(t)
  /\ \A m, n \in DOMAIN events : events[m].of # Pfn /\ events[n].of # Pfn => m = n
  /\ fw # NoReq => ~Pending
  /\ ~cfg.busy => fw = NoReq /\ ~Pending /\ cfg.request = NoReq /\ ~Internal /\ ~InEnd /\ ~Issuing
  /\ fw # NoReq \/ Pending => th["event"].pc \notin {"issue", "failed"} /\ ~InEnd /\ ~Issuing
  /\ Internal \/ Handed => cfg.request = NoReq
  /\ Internal \/ InEnd => ~Issuing
  /\ cfg.int => th["event"].pc \notin {"issue", "started", "failed", "busy"}
  /\ th["event"].pc = "clear" => th["event"].req = cfg.request
  /\ Runs(Pno) => Internal
  /\ \A r \in Reqs : Runs(r) => cfg.request = r
  /\ Issuing => cfg.request = th["call"].req
  /\ Ending /\ th["event"].req # NoReq => ~cfg.int

Active == cfg.request # NoReq \/ (Ending /\ th["event"].req # NoReq)
Second == IF th["call"].old # NoReq THEN th["call"].old ELSE rdev.req
Reporting ==
  /\ cfg.request # NoReq => rdev.req # NoReq /\ cfg.request = Reported
  /\ Ending /\ th["event"].req # NoReq =>
       rdev.req # NoReq /\ th["event"].req = Reported /\ (th["event"].aborted <=> ~scan.finished)
  /\ th["event"].pc \in {"read", "clear"} /\ cfg.request # NoReq => (th["event"].aborted <=> ~scan.finished)
  /\ rdev.req # NoReq /\ ~Active =>
       Reported \in info.notified /\ (Reported \in info.aborted <=> ~scan.finished)
  /\ rdev.wk => rdev.msg # << >> \/ (rdev.req # NoReq /\ ~Active)
  /\ fw \in Reqs => ~scan.finished
  /\ \A n \in DOMAIN events : events[n].of \in Reqs => (events[n].status = "success" <=> scan.finished)
  /\ Issuing /\ th["call"].then = "second" => scan.finished /\ Second \notin info.aborted
  /\ rdev.msg # << >> => (rdev.msg[2] = "done" <=> scan.finished)
  /\ \A n \in DOMAIN scan.answers : scan.answers[n][2] = "done" <=> scan.finished
  /\ th["down"].pc = "downed" => ~cfg.ready /\ ~Active
  /\ "wext" \in Forms /\ (rdev.req = NoReq \/ ~rdev.six) => rdev.int = NoReq
  /\ "wext" \in Forms /\ Beginning => th["call"].old = NoReq

(* What the firmware scans, and its events, have their types.              *)
LEMMA FirmwareTypes ==
  ASSUME IInv, FirmwareOK, Mutex, [Next]_vars
  PROVE  FirmwareOK'
<1> TypeOK /\ th \in [Threads -> ThreadStates] /\ "call" \in Threads
  BY DEF IInv, TypeOK, Threads
<1> DEFINE E == Seq(FirmwareEvents)
           F == fw' \in Reqs \cup {Pno, NoReq}
           C == InCommand' => th'["call"].req \in Reqs
<1>1. C
  <2>1. CASE th'["call"] = th["call"]
    BY <2>1 DEF InCommand, FirmwareOK
  <2>2. CASE th'["call"].pc \notin {"issue", "started", "failed"}
    BY <2>2 DEF InCommand
  <2>3. CASE EscanCommand("call")
    BY <2>3 DEF EscanCommand, InCommand, FirmwareOK, ThreadStates
  <2>4. ASSUME NEW form \in Forms, TriggerScan(form) PROVE C
    <3>1. asked + 1 \in Scans
      BY <2>4, ScanAssumption DEF TriggerScan, TypeOK, Scans
    <3>2. FirstPart(asked + 1, form) \in Reqs
      BY <3>1 DEF FirstPart, Reqs, Parts
    <3>3. QED
      BY <2>1, <2>4, <3>2 DEF TriggerScan, DriverScan
  <2>5. CASE ScanDoneWork
    <3>1. CASE DriverScan(rdev'.int, "second", rdev.int) /\ rdev.req # NoReq
               /\ rdev' = [rdev EXCEPT !.wk = FALSE, !.six = TRUE, !.int = << rdev.req[1], "high" >>]
      <4>1. rdev'.int = << rdev.req[1], "high" >> /\ rdev'.int \in Reqs
        BY <3>1, RequestTypes DEF TypeOK, Parts
      <4>2. QED
        BY <3>1, <4>1 DEF DriverScan
    <3>2. QED
      BY <2>1, <2>5, <3>1 DEF ScanDoneWork
  <2>6. CASE ScanStarted \/ TriggerFails \/ SecondFails \/ SchedStopped
    <3>1. th'["call"].pc = "idle"
      BY <2>6 DEF ScanStarted, TriggerFails, SecondFails, SchedStopped, Idle
    <3>2. QED
      BY <2>2, <3>1
  <2>7. ASSUME NEW t \in Threads, EndStep(t) PROVE C
    <3>1. /\ t # "call" => th'["call"] = th["call"]
          /\ t = "call" => th'["call"].pc \notin {"issue", "started", "failed"}
      BY <2>7, EndThreads DEF IInv, Mutex, EndPcs, NextPc
    <3>2. QED
      BY <2>1, <2>2, <3>1
  <2>8. CASE CritProtoStart \/ AbortIfBusy
    BY <2>2, <2>8, AbortThreads DEF CritProtoStart, AbortIfBusy, Purposes, NextPc
  <2>9. CASE UserStopsSched
    BY <2>2, <2>9, SchedStopThreads DEF UserStopsSched
  <2>10. CASE SchedScanResults \/ NetdevStop \/ GoingDown
    <3>1. CASE SchedScanResults
      BY <2>1, <3>1, AbortThreads DEF SchedScanResults, Threads, Purposes
    <3>2. CASE NetdevStop
      BY <2>1, <3>2, AbortThreads DEF NetdevStop, Threads, Purposes
    <3>3. CASE GoingDown
      BY <2>1, <3>3, SchedStopThreads DEF GoingDown, Threads
    <3>4. QED
      BY <2>10, <3>1, <3>2, <3>3
  <2>11. CASE EscanResult \/ InternalStarted \/ InternalFails \/ BadPfn \/ SchedScanStopped
              \/ TimeoutWorker \/ Leave \/ NetdevDown \/ EscanCommand("event")
    BY <2>1, <2>11 DEF EscanResult, InternalStarted, InternalFails, BadPfn, SchedScanStopped, TimeoutWorker,
       Leave, NetdevDown, EscanCommand, Notify, Threads
  <2>12. CASE EscanTimeout \/ CritProtoStop \/ SchedScanStart \/ NetdevUp \/ DeviceStep \/ UNCHANGED vars
    BY <2>1, <2>12 DEF EscanTimeout, CritProtoStop, SchedScanStart, NetdevUp, DeviceStep, FwFinish, FwPfn, vars
  <2>13. QED
    BY <2>3, <2>4, <2>5, <2>6, <2>7, <2>8, <2>9, <2>10, <2>11, <2>12
       DEF Next, CallStep, EventStep, TimeoutStep, DownStep, UserStep, Threads
<1>2. CASE UNCHANGED << fw, events >>
  BY <1>1, <1>2 DEF FirmwareOK
<1>3. CASE fw' = fw /\ events # << >> /\ events' = Tail(events)
  BY <1>1, <1>3 DEF FirmwareOK
<1>4. ASSUME NEW s \in {"success", "failed"}, FwFinish(s) \/ FwPfn(s) PROVE F /\ events' \in E
  <2>1. CASE FwFinish(s)
    <3>1. [of |-> fw, status |-> s] \in FirmwareEvents
      BY <2>1 DEF FwFinish, FirmwareOK, FirmwareEvents
    <3>2. QED
      BY <2>1, <3>1 DEF FwFinish, Push, FirmwareOK
  <2>2. CASE FwPfn(s)
    <3>1. [of |-> Pfn, status |-> s] \in FirmwareEvents
      BY DEF FirmwareEvents
    <3>2. QED
      BY <2>2, <3>1 DEF FwPfn, Push, FirmwareOK
  <2>3. QED
    BY <1>4, <2>1, <2>2
<1>5. CASE (\E t \in Threads : AbortCommand(t)) \/ EscanCommand("call") \/ EscanCommand("event")
  <2>1. EscanCommand("call") => th["call"].req \in Reqs
    BY DEF EscanCommand, FirmwareOK, InCommand
  <2>2. events' = events /\ F
    BY <1>5, <2>1 DEF AbortCommand, EscanCommand, FirmwareOK
  <2>3. QED
    BY <1>1, <2>2 DEF FirmwareOK
<1>6. CASE EscanResult \/ SchedScanResults \/ BadPfn
  BY <1>3, <1>6 DEF EscanResult, SchedScanResults, BadPfn, EventIdle, NextEvent
<1>7. ASSUME NEW t \in Threads, ReadRequest(t) \/ ClearRequest(t) \/ Report(t) \/ NotBusy(t) \/ ClearBits(t)
      PROVE  FirmwareOK'
  BY <1>2, <1>7 DEF ReadRequest, ClearRequest, Report, NotBusy, ClearBits, device
<1>8. CASE (\E form \in Forms : TriggerScan(form)) \/ ScanDoneWork \/ ScanStarted \/ TriggerFails \/ SecondFails
           \/ SchedStopped \/ InternalStarted \/ InternalFails \/ SchedScanStopped \/ TimeoutWorker
  BY <1>2, <1>8 DEF TriggerScan, ScanDoneWork, ScanStarted, TriggerFails, SecondFails, SchedStopped,
     InternalStarted, InternalFails, SchedScanStopped, TimeoutWorker, device
<1>9. CASE EscanTimeout \/ CritProtoStop \/ SchedScanStart \/ NetdevUp \/ Leave \/ NetdevDown \/ NetdevStop
           \/ CritProtoStart \/ AbortIfBusy \/ UserStopsSched \/ GoingDown \/ UNCHANGED vars
  BY <1>2, <1>9 DEF EscanTimeout, CritProtoStop, SchedScanStart, NetdevUp, Leave, NetdevDown, NetdevStop,
     CritProtoStart, AbortIfBusy, UserStopsSched, GoingDown, device, vars
<1>10. QED
  BY <1>1, <1>4, <1>5, <1>6, <1>7, <1>8, <1>9
     DEF Next, CallStep, EventStep, TimeoutStep, DownStep, UserStep, DeviceStep, EndStep, Threads, FirmwareOK

(* What is waiting is what was waiting, or less.                           *)
Fewer ==
  /\ \A m, n \in DOMAIN events' : events'[m].of # Pfn /\ events'[n].of # Pfn => m = n
  /\ \A n \in DOMAIN events' : events'[n].of # Pfn => \E m \in DOMAIN events : events[m] = events'[n]

LEMMA EventsKept ==
  ASSUME FirmwareOK, Believed,
         \/ events' = events
         \/ events # << >> /\ events' = Tail(events)
         \/ \E e \in FirmwareEvents : e.of = Pfn /\ events' = Append(events, e)
  PROVE  Fewer
<1> DEFINE One == \A m, n \in DOMAIN events : events[m].of # Pfn /\ events[n].of # Pfn => m = n
<1>1. One /\ events \in Seq(FirmwareEvents)
  BY DEF Believed, FirmwareOK
<1> HIDE DEF One
<1>2. CASE events' = events
  BY <1>1, <1>2 DEF Fewer, One
<1>3. CASE events # << >> /\ events' = Tail(events)
  <2>1. \A n \in DOMAIN events' : n \in Nat /\ n + 1 \in DOMAIN events /\ events'[n] = events[n + 1]
    BY <1>1, <1>3
  <2>2. ASSUME NEW m \in DOMAIN events', NEW n \in DOMAIN events', events'[m].of # Pfn, events'[n].of # Pfn
        PROVE  m = n
    <3>1. m + 1 = n + 1
      BY <1>1, <2>1, <2>2 DEF One
    <3>2. QED
      BY <2>1, <2>2, <3>1
  <2>3. QED
    BY <2>1, <2>2 DEF Fewer
<1>4. ASSUME NEW e \in FirmwareEvents, e.of = Pfn, events' = Append(events, e) PROVE Fewer
  <2>1. \A n \in DOMAIN events' : (n \in DOMAIN events /\ events'[n] = events[n]) \/ events'[n] = e
    BY <1>1, <1>4
  <2>2. QED
    BY <1>1, <1>4, <2>1 DEF Fewer, One
<1>5. QED
  BY <1>2, <1>3, <1>4

(* No request stands for a scheduled scan.                                 *)
LEMMA SchedScans == Pno \notin Reqs /\ Pfn \notin Reqs /\ Pno # Pfn /\ NoReq \notin {Pno, Pfn} /\ NoReq \notin Reqs
  BY NoReqAssumption DEF Pno, Pfn, Reqs, Scans

(* A step that neither starts nor ends an escan.                           *)
LEMMA VerdictKept ==
  ASSUME Believed, Reporting, Fewer,
         fw' = fw, info' = info,
         rdev'.req = rdev.req, rdev'.int = rdev.int, rdev'.msg = rdev.msg, rdev'.six = rdev.six,
         rdev'.wk => rdev.wk,
         cfg'.request = cfg.request, cfg'.busy = cfg.busy, cfg'.int = cfg.int,
         scan'.finished = scan.finished, scan'.answers = scan.answers,
         \A t \in Threads : th'[t] = th[t] \/ Fit(t)',
         \/ th'["event"] = th["event"]
         \/ th["event"].pc \in {"idle", "stopped"} /\ th'["event"].pc \in {"idle", "stopped"},
         \/ th'["call"] = th["call"]
         \/ th["call"].pc \notin {"issue", "failed"} /\ th'["call"].pc \notin {"issue", "started", "failed"},
         th'["down"].pc = "downed" => ~cfg'.ready /\ ~Active
  PROVE  Believed' /\ Reporting'
<1>1. /\ Pending' => Pending
      /\ \A x : x # Pfn /\ Runs(x)' => Runs(x)
  BY DEF Pending, Runs, Fewer
<1>2. /\ Internal' <=> Internal
      /\ InEnd' <=> InEnd
      /\ Handed' <=> Handed
      /\ Ending' <=> Ending
      /\ InEnd \/ Ending => th'["event"] = th["event"]
      /\ Issuing' <=> Issuing
      /\ Issuing => th'["call"] = th["call"]
      /\ Beginning' => Beginning /\ th'["call"] = th["call"]
  BY DEF Internal, InEnd, Handed, Ending, Issuing, Beginning, InCommand
<1>3. Active' <=> Active
  BY <1>2 DEF Active
<1>4. Believed'
  <2>1. /\ \A m, n \in DOMAIN events' : events'[m].of # Pfn /\ events'[n].of # Pfn => m = n
        /\ fw' # NoReq => ~Pending'
    BY <1>1 DEF Believed, Fewer
  <2>5. \A t \in Threads : Fit(t)'
    BY DEF Believed, Fit
  <2>2. /\ ~cfg'.busy => fw' = NoReq /\ ~Pending' /\ cfg'.request = NoReq /\ ~Internal' /\ ~InEnd' /\ ~Issuing'
        /\ Internal' \/ Handed' => cfg'.request = NoReq
        /\ Internal' \/ InEnd' => ~Issuing'
        /\ Issuing' => cfg'.request = th'["call"].req
        /\ Ending' /\ th'["event"].req # NoReq => ~cfg'.int
    BY <1>1, <1>2 DEF Believed
  <2>3. /\ fw' # NoReq \/ Pending' => th'["event"].pc \notin {"issue", "failed"} /\ ~InEnd' /\ ~Issuing'
        /\ cfg'.int => th'["event"].pc \notin {"issue", "started", "failed", "busy"}
        /\ th'["event"].pc = "clear" => th'["event"].req = cfg'.request
    BY <1>1, <1>2 DEF Believed, InEnd
  <2>4. /\ Runs(Pno)' => Internal'
        /\ \A r \in Reqs : Runs(r)' => cfg'.request = r
    BY <1>1, <1>2, SchedScans DEF Believed
  <2>6. QED
    BY <2>1, <2>2, <2>3, <2>4, <2>5 DEF Believed
<1>5. Reporting'
  <2>1. Reported' = Reported /\ (Issuing => Second' = Second)
    BY <1>2 DEF Reported, Second
  <2>2. /\ cfg'.request # NoReq => rdev'.req # NoReq /\ cfg'.request = Reported'
        /\ Ending' /\ th'["event"].req # NoReq =>
             rdev'.req # NoReq /\ th'["event"].req = Reported' /\ (th'["event"].aborted <=> ~scan'.finished)
        /\ th'["event"].pc \in {"read", "clear"} /\ cfg'.request # NoReq => (th'["event"].aborted <=> ~scan'.finished)
        /\ rdev'.req # NoReq /\ ~Active' =>
             Reported' \in info'.notified /\ (Reported' \in info'.aborted <=> ~scan'.finished)
        /\ rdev'.wk => rdev'.msg # << >> \/ (rdev'.req # NoReq /\ ~Active')
    BY <1>2, <1>3, <2>1 DEF Reporting, InEnd
  <2>3. /\ fw' \in Reqs => ~scan'.finished
        /\ \A n \in DOMAIN events' : events'[n].of \in Reqs => (events'[n].status = "success" <=> scan'.finished)
    BY SchedScans DEF Reporting, Fewer
  <2>4. /\ Issuing' /\ th'["call"].then = "second" => scan'.finished /\ Second' \notin info'.aborted
        /\ rdev'.msg # << >> => (rdev'.msg[2] = "done" <=> scan'.finished)
        /\ \A n \in DOMAIN scan'.answers : scan'.answers[n][2] = "done" <=> scan'.finished
        /\ th'["down"].pc = "downed" => ~cfg'.ready /\ ~Active'
    BY <1>2, <1>3, <2>1 DEF Reporting
  <2>5. /\ "wext" \in Forms /\ (rdev'.req = NoReq \/ ~rdev'.six) => rdev'.int = NoReq
        /\ "wext" \in Forms /\ Beginning' => th'["call"].old = NoReq
    BY <1>2 DEF Reporting
  <2>6. QED
    BY <2>2, <2>3, <2>4, <2>5 DEF Reporting
<1>6. QED
  BY <1>4, <1>5

(* What the host does without ending a scan.                               *)
LEMMA NoAbort ==
  ASSUME NEW t, NEW c, NEW p, p # "done", AbortScanning(t, c, p), alarm' = {}
  PROVE  /\ ~cfg.busy /\ ~cfg.int /\ cfg.request = NoReq
         /\ cfg' = [c EXCEPT !.abort = TRUE] /\ th' = [th EXCEPT ![t] = At("bits", p)]
  BY DEF AbortScanning, Notify, FwAbort

LEMMA NoSchedAbort ==
  ASSUME NEW t, NEW p \in {"unsched", "leave"}, SchedScanStop(t, p), alarm' = {}
  PROVE  cfg' = PnoRemoved(cfg) /\ th' = [th EXCEPT ![t].pc = p]
  BY DEF SchedScanStop, Notify, FwAbort

(* Steps of the interface, of scheduled scans and of other operations.     *)
LEMMA QuietSteps ==
  ASSUME IInv, ScanOK, Mutex, FirmwareOK, Believed, Reporting, alarm' = {},
         \/ SchedStopped \/ SchedScanStopped \/ EscanTimeout \/ Leave \/ NetdevUp \/ CritProtoStop
         \/ SchedScanStart \/ ScanStarted \/ BadPfn \/ (\E s \in {"success", "failed"} : FwPfn(s)) \/ UNCHANGED vars
         \/ CritProtoStart \/ AbortIfBusy \/ NetdevStop \/ UserStopsSched \/ GoingDown
         \/ (\E t \in Threads : ClearBits(t))
  PROVE  Believed' /\ Reporting'
<1> /\ TypeOK /\ th \in [Threads -> ThreadStates] /\ cfg \in DriverStates
    /\ "call" \in Threads /\ "event" \in Threads /\ "down" \in Threads
  BY DEF IInv, TypeOK, Threads
<1>1. th["down"].pc = "downed" => ~cfg.ready /\ ~Active
  BY DEF Reporting
<1>3. CASE SchedStopped \/ SchedScanStopped \/ EscanTimeout \/ Leave \/ CritProtoStop \/ SchedScanStart
           \/ ScanStarted \/ UNCHANGED vars
  <2>1. Fewer
    BY <1>3, EventsKept DEF SchedStopped, SchedScanStopped, EscanTimeout, Leave, CritProtoStop, SchedScanStart,
       ScanStarted, vars, device
  <2>2. /\ fw' = fw /\ info' = info
        /\ rdev'.req = rdev.req /\ rdev'.int = rdev.int /\ rdev'.msg = rdev.msg /\ rdev'.six = rdev.six
        /\ rdev'.wk = rdev.wk
    BY <1>3 DEF SchedStopped, SchedScanStopped, EscanTimeout, Leave, CritProtoStop, SchedScanStart,
       ScanStarted, vars, device, kernel, TypeOK
  <2>3. /\ cfg'.request = cfg.request /\ cfg'.busy = cfg.busy /\ cfg'.int = cfg.int /\ cfg'.ready = cfg.ready
    BY <1>3 DEF SchedStopped, SchedScanStopped, EscanTimeout, Leave, CritProtoStop, SchedScanStart,
       ScanStarted, Armed, vars, DriverStates
  <2>4. scan'.finished = scan.finished /\ scan'.answers = scan.answers
    BY <1>3 DEF SchedStopped, SchedScanStopped, EscanTimeout, Leave, CritProtoStop, SchedScanStart,
       ScanStarted, vars, history, ScanOK
  <2>5. /\ \A t \in Threads : th'[t] = th[t] \/ th'[t].pc \notin EndPcs \cup {"downed"}
        /\ \/ th'["event"] = th["event"]
           \/ th["event"].pc \in {"idle", "stopped"} /\ th'["event"].pc \in {"idle", "stopped"}
        /\ \/ th'["call"] = th["call"]
           \/ th["call"].pc \notin {"issue", "failed"} /\ th'["call"].pc \notin {"issue", "started", "failed"}
    <3>1. CASE SchedStopped \/ SchedScanStopped \/ ScanStarted
      BY <3>1 DEF SchedStopped, SchedScanStopped, ScanStarted, Idle, EndPcs
    <3>2. CASE Leave
      BY <3>2 DEF Leave, ThreadStates, Threads, EndPcs
    <3>3. CASE UNCHANGED th
      BY <3>3
    <3>4. QED
      BY <1>3, <3>1, <3>2, <3>3 DEF EscanTimeout, CritProtoStop, SchedScanStart, vars
  <2>6. th'["down"].pc = "downed" => ~cfg'.ready /\ ~Active
    BY <1>1, <2>3, <2>5
  <2>7. \A t \in Threads : th'[t] = th[t] \/ Fit(t)'
    BY <2>5 DEF Fit
  <2>8. QED
    BY <2>1, <2>2, <2>3, <2>4, <2>5, <2>6, <2>7, VerdictKept
<1>4. CASE NetdevUp
  <2>1. Fewer
    BY <1>4, EventsKept DEF NetdevUp, device
  <2>2. /\ fw' = fw /\ info' = info /\ th' = th /\ scan' = scan /\ th["down"].pc = "idle"
        /\ rdev'.req = rdev.req /\ rdev'.int = rdev.int /\ rdev'.msg = rdev.msg /\ rdev'.six = rdev.six
        /\ rdev'.wk = rdev.wk
        /\ cfg'.request = cfg.request /\ cfg'.busy = cfg.busy /\ cfg'.int = cfg.int
    BY <1>4 DEF NetdevUp, device, TypeOK, history, DriverStates
  <2>3. QED
    BY <2>1, <2>2, VerdictKept
<1>5. CASE BadPfn \/ (\E s \in {"success", "failed"} : FwPfn(s))
  <2>1. Fewer
    <3>1. CASE BadPfn
      BY <3>1, EventsKept DEF BadPfn, EventIdle, NextEvent
    <3>2. ASSUME NEW s \in {"success", "failed"}, FwPfn(s) PROVE Fewer
      <4>1. [of |-> Pfn, status |-> s] \in FirmwareEvents /\ [of |-> Pfn, status |-> s].of = Pfn
        BY DEF FirmwareEvents
      <4>2. QED
        BY <3>2, <4>1, EventsKept DEF FwPfn, Push
    <3>3. QED
      BY <1>5, <3>1, <3>2
  <2>2. fw' = fw /\ rdev' = rdev /\ info' = info /\ cfg' = cfg /\ scan' = scan
    BY <1>5 DEF BadPfn, FwPfn, kernel, history
  <2>3. th'["down"] = th["down"] /\ th'["call"] = th["call"] /\ th'["timeout"] = th["timeout"]
    BY <1>5 DEF BadPfn, FwPfn, Threads
  <2>4. \/ th'["event"] = th["event"]
        \/ th["event"].pc = "idle" /\ th'["event"].pc = "stopped"
    BY <1>5 DEF BadPfn, FwPfn, ThreadStates, EventIdle
  <2>5. \A t \in Threads : th'[t] = th[t] \/ Fit(t)'
    BY <2>3, <2>4 DEF Threads, Fit, EndPcs
  <2>6. QED
    BY <1>1, <2>1, <2>2, <2>3, <2>4, <2>5, VerdictKept
<1>6. CASE CritProtoStart
  <2> DEFINE c == [cfg EXCEPT !.suppress = TRUE]
  <2>1. AbortScanning("call", c, "aborted") /\ th["call"].pc = "idle"
    BY <1>6 DEF CritProtoStart, Aborts, Mutex
  <2>2. cfg' = [c EXCEPT !.abort = TRUE] /\ th' = [th EXCEPT !["call"] = At("bits", "aborted")]
    BY <2>1, NoAbort
  <2>3. /\ cfg'.request = cfg.request /\ cfg'.busy = cfg.busy /\ cfg'.int = cfg.int /\ cfg'.ready = cfg.ready
    BY <2>2 DEF DriverStates
  <2>8. th'["call"] = At("bits", "aborted") /\ \A t \in Threads \ {"call"} : th'[t] = th[t]
    BY <2>2
  <2>4. th'["call"].pc = "bits" /\ Fit("call")'
    BY <2>8 DEF At, Idle, Fit
  <2>5. Fewer
    BY <1>6, EventsKept DEF CritProtoStart, device
  <2>6. fw' = fw /\ rdev' = rdev /\ info' = info /\ scan' = scan
    BY <1>6 DEF CritProtoStart, kernel, device
  <2>7. QED
    BY <1>1, <2>1, <2>3, <2>4, <2>5, <2>6, <2>8, VerdictKept
<1>7. CASE AbortIfBusy
  BY <1>7, NoAbort DEF AbortIfBusy
<1>8. CASE NetdevStop
  <2>1. cfg' = [cfg EXCEPT !.abort = TRUE] /\ th' = [th EXCEPT !["down"] = At("bits", "downed")]
    BY <1>8, NoAbort DEF NetdevStop
  <2>2. /\ cfg'.request = cfg.request /\ cfg'.busy = cfg.busy /\ cfg'.int = cfg.int
    BY <2>1 DEF DriverStates
  <2>6. th'["down"] = At("bits", "downed") /\ \A t \in Threads \ {"down"} : th'[t] = th[t]
    BY <2>1
  <2>3. th'["down"].pc = "bits" /\ Fit("down")'
    BY <2>6 DEF At, Idle, Fit
  <2>4. Fewer
    BY <1>8, EventsKept DEF NetdevStop, device
  <2>5. fw' = fw /\ rdev' = rdev /\ info' = info /\ scan' = scan
    BY <1>8 DEF NetdevStop, kernel, device
  <2>7. QED
    BY <2>2, <2>3, <2>4, <2>5, <2>6, VerdictKept
<1>9. CASE UserStopsSched \/ GoingDown
  <2>1. PICK t \in {"call", "down"} : /\ th[t].pc = "idle"
                                      /\ \E p \in {"unsched", "leave"} : th' = [th EXCEPT ![t].pc = p]
                                      /\ cfg' = cfg \/ cfg' = PnoRemoved(cfg)
    <3>1. CASE UserStopsSched
      BY <3>1, NoSchedAbort DEF UserStopsSched, Mutex
    <3>2. CASE GoingDown
      BY <3>2, NoSchedAbort DEF GoingDown
    <3>3. QED
      BY <1>9, <3>1, <3>2
  <2>2. cfg'.request = cfg.request /\ cfg'.busy = cfg.busy /\ cfg'.int = cfg.int /\ cfg'.ready = cfg.ready
    BY <2>1 DEF PnoRemoved, DriverStates
  <2>3. th'[t].pc \in {"unsched", "leave"} /\ \A u \in Threads \ {t} : th'[u] = th[u]
    BY <2>1 DEF ThreadStates
  <2>7. Fit(t)'
    BY <2>3 DEF Fit, EndPcs
  <2>4. Fewer
    BY <1>9, EventsKept DEF UserStopsSched, GoingDown, device
  <2>5. fw' = fw /\ rdev' = rdev /\ info' = info /\ scan' = scan
    BY <1>9 DEF UserStopsSched, GoingDown, kernel, device
  <2>6. QED
    BY <1>1, <2>1, <2>2, <2>3, <2>4, <2>5, <2>7, VerdictKept
<1>10. ASSUME NEW t \in Threads, ClearBits(t) PROVE Believed' /\ Reporting'
  <2> DEFINE p == th[t].then
  <2>1. t # "event" /\ th[t].pc = "bits" /\ p \in {"aborted", "downed"}
    BY <1>10 DEF ClearBits, Believed, Fit, EndPcs
  <2>2. p = "downed" => t # "call"
    BY <2>1 DEF Mutex, EndPcs
  <2>3. ~cfg.busy
    BY <1>10 DEF ClearBits
  <2>4. /\ cfg'.request = cfg.request /\ cfg'.busy = cfg.busy /\ cfg'.int = cfg.int
        /\ cfg'.ready = IF p = "downed" THEN FALSE ELSE cfg.ready
    BY <1>10, <2>1, <2>3 DEF ClearBits, After, DriverStates
  <2>5. th' = [th EXCEPT ![t] = [Idle EXCEPT !.pc = NextPc(p)]]
    BY <1>10 DEF ClearBits, GoesOn
  <2>6. th'[t].pc = (IF p = "downed" THEN "downed" ELSE "idle") /\ \A u \in Threads \ {t} : th'[u] = th[u]
    <3>1. NextPc(p) = IF p = "downed" THEN "downed" ELSE "idle"
      BY <2>1 DEF NextPc
    <3>2. QED
      BY <2>5, <3>1 DEF Idle
  <2>7. Fit(t)'
    BY <2>6 DEF Fit, EndPcs
  <2>8. Fewer
    BY <1>10, EventsKept DEF ClearBits, device
  <2>9. fw' = fw /\ rdev' = rdev /\ info' = info /\ scan' = scan
    BY <1>10 DEF ClearBits, kernel, device
  <2>10. ~Active
    BY <2>3 DEF Believed, Active, InEnd, Ending
  <2>11. t = "call" => th["call"].pc \notin {"issue", "failed"} /\ th'["call"].pc \notin {"issue", "started", "failed"}
    BY <2>1, <2>2, <2>6
  <2>12. th'["down"].pc = "downed" => ~cfg'.ready /\ ~Active
    BY <1>1, <2>4, <2>6, <2>10
  <2>13. \A u \in Threads : th'[u] = th[u] \/ Fit(u)'
    BY <2>6, <2>7
  <2>14. th'["event"] = th["event"]
    BY <2>1, <2>6
  <2>15. t # "call" => th'["call"] = th["call"]
    BY <2>6
  <2>16. QED
    BY <2>4, <2>8, <2>9, <2>11, <2>12, <2>13, <2>14, <2>15, VerdictKept
<1>11. QED
  BY <1>3, <1>4, <1>5, <1>6, <1>7, <1>8, <1>9, <1>10

(* While an escan is being issued the firmware scans nothing.              *)
LEMMA IssuingAlone ==
  ASSUME Mutex, Answering, FirmwareOK, ScanOK, Believed, Reporting, Issuing
  PROVE  /\ fw = NoReq /\ ~Pending /\ cfg.busy /\ ~Internal /\ ~InEnd /\ ~Handed /\ ~Ending /\ ~cfg.int
         /\ cfg.request = th["call"].req /\ cfg.request \in Reqs /\ Active
         /\ rdev.req # NoReq /\ rdev.msg = << >> /\ ~rdev.wk /\ scan.answers = << >>
         /\ th["down"].pc # "downed"
<1>1. /\ fw = NoReq /\ ~Pending /\ cfg.busy /\ ~Internal /\ ~InEnd
      /\ cfg.request = th["call"].req
  BY DEF Believed
<1>7. ~Handed /\ ~Ending
  BY <1>1 DEF InEnd, Handed, Ending
<1>2. InCommand /\ cfg.request \in Reqs
  BY <1>1 DEF Issuing, InCommand, FirmwareOK
<1>3. Active
  BY <1>2, SchedScans DEF Active
<1>4. rdev.req # NoReq /\ rdev.msg = << >> /\ Len(scan.answers) = 0
  BY <1>2 DEF Mutex, Answering, AnsweredOnce
<1>5. scan.answers = << >>
  BY <1>4 DEF ScanOK
<1>6. QED
  BY <1>1, <1>2, <1>3, <1>4, <1>5, <1>7 DEF Reporting, Internal

(* The first part fails, or the second.                                    *)
LEMMA FailsKeeps ==
  ASSUME IInv, ScanOK, Mutex, Answering, FirmwareOK, Believed, Reporting, TriggerFails \/ SecondFails
  PROVE  Believed' /\ Reporting'
<1> /\ TypeOK /\ th \in [Threads -> ThreadStates] /\ cfg \in DriverStates
    /\ "call" \in Threads /\ "event" \in Threads /\ "down" \in Threads
  BY DEF IInv, TypeOK, Threads
<1>1. Issuing
  BY DEF TriggerFails, SecondFails, Issuing
<1>2. /\ fw = NoReq /\ ~Pending /\ ~Internal /\ ~InEnd /\ ~Handed /\ ~Ending
      /\ rdev.msg = << >> /\ ~rdev.wk /\ scan.answers = << >> /\ th["down"].pc # "downed"
  BY <1>1, IssuingAlone
<1>3. /\ fw' = fw /\ events' = events /\ info' = info
      /\ cfg'.request = NoReq /\ ~cfg'.busy /\ cfg'.int = cfg.int
      /\ th'["call"] = Idle /\ \A t \in Threads \ {"call"} : th'[t] = th[t]
  BY DEF TriggerFails, SecondFails, Failed, DriverStates, device
<1>4. rdev'.req = NoReq /\ rdev'.msg = rdev.msg /\ rdev'.wk = rdev.wk
  BY DEF TriggerFails, SecondFails, Cleared, TypeOK
<1>5. /\ ~Pending' /\ ~Internal' /\ ~InEnd' /\ ~Handed' /\ ~Ending' /\ ~Issuing' /\ ~Beginning' /\ ~Active'
      /\ th'["event"].pc \notin {"read", "clear", "finish", "busy"}
  BY <1>2, <1>3 DEF Pending, Internal, InEnd, Handed, Ending, Issuing, Beginning, InCommand, Active, Idle
<1>6. Believed'
  <2>1. \A t \in Threads : Fit(t)'
    BY <1>3 DEF Believed, Idle, Fit, EndPcs
  <2>2. \A x : x # NoReq /\ x # Pfn => ~Runs(x)'
    BY <1>2, <1>3, <1>5 DEF Runs, Pending
  <2>3. QED
    BY <1>2, <1>3, <1>5, <2>1, <2>2, SchedScans DEF Believed, Pending, Internal
<1>7. \A n \in DOMAIN scan'.answers : scan'.answers[n][2] = "done" <=> scan'.finished
  <2>1. CASE TriggerFails
    BY <1>2, <2>1 DEF TriggerFails, history
  <2>2. CASE SecondFails
    <3>1. scan.finished /\ Second \notin info.aborted
      BY <1>1, <2>2 DEF Reporting, SecondFails
    <3>2. Sent(rdev.req[1], "done")
      BY <2>2, <3>1 DEF SecondFails, Second
    <3>3. scan'.finished = scan.finished /\ scan'.answers = << << rdev.req[1], "done" >> >>
      BY <1>2, <3>2 DEF Sent, ScanOK
    <3>4. QED
      BY <3>1, <3>3
  <2>3. QED
    BY <2>1, <2>2
<1>8. "wext" \in Forms => rdev'.int = NoReq
  <2>1. CASE SecondFails
    BY <2>1 DEF SecondFails, Cleared, TypeOK
  <2>2. CASE TriggerFails
    <3>1. Beginning
      BY <2>2 DEF TriggerFails, Beginning, InCommand
    <3>2. rdev'.int = IF rdev.six THEN th["call"].old ELSE rdev.int
      BY <2>2 DEF TriggerFails, TypeOK
    <3>3. QED
      BY <3>1, <3>2 DEF Reporting
  <2>3. QED
    BY <2>1, <2>2
<1>9. Reporting'
  BY <1>2, <1>3, <1>4, <1>5, <1>7, <1>8, SchedScans DEF Reporting, Pending
<1>10. QED
  BY <1>6, <1>9

(* The command of an escan of the user.                                    *)
LEMMA CommandKeeps ==
  ASSUME IInv, ScanOK, Mutex, Answering, FirmwareOK, Believed, Reporting, EscanCommand("call")
  PROVE  Believed' /\ Reporting'
<1> /\ TypeOK /\ th \in [Threads -> ThreadStates] /\ cfg \in DriverStates
    /\ "call" \in Threads /\ "event" \in Threads /\ "down" \in Threads
  BY DEF IInv, TypeOK, Threads
<1>1. Issuing
  BY DEF EscanCommand, Issuing
<1>2. /\ fw = NoReq /\ ~Pending /\ cfg.busy /\ ~Internal /\ ~InEnd /\ ~Handed /\ ~Ending /\ ~cfg.int
      /\ cfg.request = th["call"].req /\ cfg.request \in Reqs
      /\ rdev.msg = << >> /\ ~rdev.wk /\ scan.answers = << >> /\ th["down"].pc # "downed"
  BY <1>1, IssuingAlone
<1>3. /\ rdev' = rdev /\ events' = events /\ info' = info /\ cfg' = cfg
      /\ \A t \in Threads \ {"call"} : th'[t] = th[t]
      /\ th'["call"].req = th["call"].req /\ th'["call"].then = th["call"].then
      /\ th'["call"].old = th["call"].old /\ th'["call"].pc \in {"started", "failed"}
  BY DEF EscanCommand, ThreadStates, kernel
<1>4. \/ fw' = fw /\ scan' = scan /\ th'["call"].pc = "failed"
      \/ fw' = cfg.request /\ scan' = [scan EXCEPT !.finished = FALSE] /\ th'["call"].pc = "started"
  BY <1>2 DEF EscanCommand, ThreadStates
<1>5. /\ ~Pending' /\ ~Internal' /\ ~InEnd' /\ ~Handed' /\ ~Ending' /\ Reported' = Reported /\ Second' = Second
      /\ Active' /\ (Beginning' <=> Beginning) /\ (Issuing' <=> th'["call"].pc = "failed")
      /\ th'["event"].pc \notin {"read", "clear", "finish", "busy"}
  BY <1>1, <1>2, <1>3, SchedScans
     DEF Pending, Internal, InEnd, Handed, Ending, Active, Beginning, InCommand, Reported, Second, Issuing
<1>6. Believed'
  <2>1. \A t \in Threads : Fit(t)'
    BY <1>3 DEF Believed, Fit, EndPcs
  <2>2. /\ ~Runs(Pno)'
        /\ \A r \in Reqs : Runs(r)' => cfg'.request = r
    BY <1>2, <1>3, <1>4, <1>5, SchedScans DEF Runs, Pending
  <2>3. \A m, n \in DOMAIN events' : events'[m].of # Pfn /\ events'[n].of # Pfn => m = n
    BY <1>5 DEF Pending
  <2>4. QED
    BY <1>2, <1>3, <1>4, <1>5, <2>1, <2>2, <2>3 DEF Believed, Internal
<1>7. Reporting'
  <2>1. scan'.answers = << >>
    BY <1>2, <1>4 DEF ScanOK
  <2>2. fw' \in Reqs => ~scan'.finished
    BY <1>2, <1>4, SchedScans DEF ScanOK
  <2>3. \A n \in DOMAIN events' : events'[n].of \notin Reqs
    BY <1>5, SchedScans DEF Pending
  <2>4. Issuing' => scan' = scan /\ Issuing
    BY <1>1, <1>4, <1>5
  <2>5. QED
    BY <1>2, <1>3, <1>5, <2>1, <2>2, <2>3, <2>4 DEF Reporting
<1>8. QED
  BY <1>6, <1>7

(* And that of a scheduled scan, with what follows it.                     *)
LEMMA InternalKeeps ==
  ASSUME IInv, Believed, Reporting, EscanCommand("event") \/ InternalStarted \/ InternalFails
  PROVE  Believed' /\ Reporting'
<1> /\ TypeOK /\ th \in [Threads -> ThreadStates] /\ cfg \in DriverStates
    /\ "call" \in Threads /\ "event" \in Threads /\ "down" \in Threads
  BY DEF IInv, TypeOK, Threads
<1>1. /\ Internal /\ ~Ending /\ th["event"].pc \in {"issue", "started", "failed"}
  BY DEF EscanCommand, InternalStarted, InternalFails, Internal, Ending
<1>2. cfg.request = NoReq /\ ~Issuing /\ cfg.busy /\ ~cfg.int /\ ~Active
  BY <1>1 DEF Believed, Active
<1>3. /\ rdev' = rdev /\ events' = events /\ info' = info /\ scan' = scan
      /\ \A t \in Threads \ {"event"} : th'[t] = th[t]
      /\ cfg'.request = cfg.request /\ cfg'.ready = cfg.ready
  BY DEF EscanCommand, InternalStarted, InternalFails, DriverStates, kernel, device, history
<1>4. \/ /\ th'["event"].pc \in {"started", "failed"} /\ fw' \in {fw, Pno} /\ th["event"].pc = "issue"
         /\ th'["event"].pc = "failed" => fw' = fw
         /\ cfg' = cfg
      \/ /\ th'["event"].pc = "idle" /\ fw' = fw /\ cfg'.int = TRUE /\ cfg'.busy = cfg.busy
      \/ /\ th["event"].pc = "failed" /\ th'["event"].pc = "stopped" /\ fw' = fw
         /\ cfg'.int = cfg.int /\ cfg'.busy = FALSE
  BY DEF EscanCommand, InternalStarted, InternalFails, DriverStates, ThreadStates, device, Idle
<1>5. th["event"].pc \in {"issue", "failed"} => fw = NoReq /\ ~Pending
  BY DEF Believed
<1>6. /\ Pending' = Pending /\ ~InEnd' /\ ~Handed' /\ ~Ending' /\ Reported' = Reported /\ Second' = Second /\ ~Active'
      /\ Beginning' = Beginning /\ ~Issuing'
      /\ th'["event"].pc \notin {"read", "clear", "finish", "busy"}
  BY <1>2, <1>3, <1>4 DEF Pending, InEnd, Handed, Ending, Active, Beginning, InCommand, Reported, Second, Issuing
<1>7. Believed'
  <2>1. \A t \in Threads : Fit(t)'
    BY <1>3, <1>4 DEF Believed, Fit, EndPcs
  <2>2. \A m, n \in DOMAIN events' : events'[m].of # Pfn /\ events'[n].of # Pfn => m = n
    BY <1>3 DEF Believed
  <2>3. Internal' <=> cfg'.busy
    BY <1>2, <1>4 DEF Internal
  <2>4. \A r \in Reqs : ~Runs(r)'
    BY <1>2, <1>3, <1>4, SchedScans DEF Runs, Believed
  <2>5. ~cfg'.busy => fw' = NoReq /\ ~Pending'
    BY <1>2, <1>4, <1>5, <1>6
  <2>6. ~cfg'.busy => ~Runs(Pno)'
    BY <1>3, <2>5, SchedScans DEF Runs, Pending
  <2>7. fw' # NoReq => ~Pending'
    BY <1>4, <1>5, <1>6 DEF Believed
  <2>8. fw' # NoReq \/ Pending' => th'["event"].pc \notin {"issue", "failed"}
    BY <1>4, <1>5, <1>6
  <2>9. cfg'.int => th'["event"].pc \notin {"issue", "started", "failed", "busy"}
    BY <1>2, <1>4
  <2>10. QED
    BY <1>2, <1>3, <1>6, <2>1, <2>2, <2>3, <2>4, <2>5, <2>6, <2>7, <2>8, <2>9 DEF Believed
<1>8. Reporting'
  <2>1. fw' \in Reqs => fw' = fw
    BY <1>4, SchedScans
  <2>2. QED
    BY <1>2, <1>3, <1>6, <2>1 DEF Reporting
<1>9. QED
  BY <1>7, <1>8

(* An event ends the escan in progress.                                    *)
LEMMA ResultKeeps ==
  ASSUME IInv, FirmwareOK, ScanOK, Believed, Reporting, EscanResult
  PROVE  Believed' /\ Reporting'
<1> /\ TypeOK /\ th \in [Threads -> ThreadStates] /\ cfg \in DriverStates
    /\ "call" \in Threads /\ "event" \in Threads /\ "down" \in Threads
  BY DEF IInv, TypeOK, Threads
<1> DEFINE e == Head(events)
<1>1. events \in Seq(FirmwareEvents) /\ events # << >> /\ events' = Tail(events) /\ th["event"].pc = "idle"
  BY DEF EscanResult, EventIdle, NextEvent, FirmwareOK
<1>2. 1 \in DOMAIN events /\ e = events[1] /\ e \in FirmwareEvents /\ e.of # Pfn
  BY <1>1 DEF EscanResult
<1>3. Pending /\ fw = NoReq /\ cfg.busy /\ ~Issuing /\ ~InEnd /\ ~Ending
  BY <1>1, <1>2 DEF Pending, Believed, InEnd, Ending
<1>4. Fewer /\ ~Pending'
  <2>1. \A n \in DOMAIN events' : n \in Nat /\ n >= 1 /\ n + 1 \in DOMAIN events /\ events'[n] = events[n + 1]
    BY <1>1
  <2>2. \A n \in DOMAIN events' : events'[n].of = Pfn
    <3> SUFFICES ASSUME NEW n \in DOMAIN events', events'[n].of # Pfn PROVE FALSE
      OBVIOUS
    <3>1. 1 = n + 1
      BY <1>2, <2>1 DEF Believed
    <3>2. QED
      BY <2>1, <3>1
  <2>3. QED
    BY <2>2 DEF Fewer, Pending
<1>5. /\ rdev' = rdev /\ info' = info /\ fw' = fw /\ scan' = scan
      /\ \A t \in Threads \ {"event"} : th'[t] = th[t]
  BY DEF EscanResult, Notify, kernel
<1>6. CASE ~InProgress
  <2>1. cfg' = cfg /\ th' = th
    BY <1>6 DEF EscanResult
  <2>2. QED
    BY <1>1, <1>4, <1>5, <2>1, VerdictKept DEF Believed, Reporting
<1>7. CASE InProgress
  <2>1. /\ cfg' = cfg
        /\ th' = [th EXCEPT !["event"] = [At("read", "done") EXCEPT !.aborted = Unsuccessful(e.status)]]
    BY <1>7 DEF EscanResult, Notify
  <2>2. /\ th'["event"].pc = "read" /\ th'["event"].then = "done"
        /\ th'["event"].aborted = Unsuccessful(e.status)
        /\ th'["call"] = th["call"] /\ th'["down"] = th["down"]
    BY <2>1 DEF At, Idle, Threads
  <2>3. /\ InEnd' /\ ~Handed' /\ ~Ending' /\ ~Issuing' /\ Reported' = Reported /\ Second' = Second
        /\ (Beginning' <=> Beginning) /\ (Active' <=> Active) /\ (Internal' <=> cfg.int)
    BY <1>3, <1>5, <2>1, <2>2
       DEF InEnd, Handed, Ending, Issuing, Reported, Second, Beginning, InCommand, Active, Internal
  <2>4. \A x : x # NoReq /\ x # Pfn => ~Runs(x)'
    BY <1>3, <1>4, <1>5 DEF Runs, Pending
  <2>5. cfg.request # NoReq => ~cfg.int
    BY DEF Believed, Internal
  <2>6. cfg.request # NoReq => rdev.req # NoReq /\ cfg.request = Reported /\ (e.status = "success" <=> scan.finished)
    <3>1. ASSUME cfg.request # NoReq PROVE e.of \in Reqs
      <4>1. ~Internal
        BY <3>1 DEF Believed
      <4>2. e.of # Pno
        BY <1>2, <4>1 DEF Believed, Runs
      <4>3. QED
        BY <1>2, <4>2 DEF FirmwareEvents
    <3>2. QED
      BY <1>2, <3>1 DEF Reporting
  <2>7. Believed'
    <3>1. \A t \in Threads : Fit(t)'
      BY <1>5, <2>2 DEF Believed, Fit
    <3>2. cfg.int => cfg.request = NoReq
      BY <2>5
    <3>3. QED
      BY <1>3, <1>4, <1>5, <2>1, <2>2, <2>3, <2>4, <3>1, <3>2, SchedScans DEF Believed, Fewer
  <2>8. Reporting'
    <3>1. th'["event"].aborted <=> e.status # "success"
      <4>1. th'["event"].aborted = (e.status # "success")
        BY <2>2 DEF Unsuccessful
      <4>2. QED
        BY <4>1, Zenon
    <3>2. cfg'.request # NoReq => (th'["event"].aborted <=> ~scan'.finished)
      BY <1>5, <2>1, <2>6, <3>1
    <3>3. /\ fw' \notin Reqs
          /\ \A n \in DOMAIN events' : events'[n].of \notin Reqs
      BY <1>3, <1>4, <1>5, SchedScans DEF Pending
    <3>4. QED
      BY <1>5, <2>1, <2>2, <2>3, <3>2, <3>3 DEF Reporting
  <2>9. QED
    BY <2>7, <2>8
<1>8. QED
  BY <1>6, <1>7

(* A network of the scheduled scan starts an escan when none runs.         *)
LEMMA ResultsKeep ==
  ASSUME IInv, FirmwareOK, ScanOK, Believed, Reporting, SchedScanResults, alarm' = {}
  PROVE  Believed' /\ Reporting'
<1> /\ TypeOK /\ th \in [Threads -> ThreadStates] /\ cfg \in DriverStates
    /\ "call" \in Threads /\ "event" \in Threads /\ "down" \in Threads
  BY DEF IInv, TypeOK, Threads
<1>1. Fewer
  BY EventsKept DEF SchedScanResults, EventIdle, NextEvent
<1>2. rdev' = rdev /\ info' = info /\ fw' = fw /\ scan' = scan /\ th["event"].pc = "idle"
  BY DEF SchedScanResults, EventIdle, kernel
<1>3. CASE UNCHANGED << cfg, th >>
  BY <1>1, <1>2, <1>3, VerdictKept DEF Believed, Reporting
<1>4. CASE /\ ~cfg.busy /\ cfg' = [cfg EXCEPT !.busy = TRUE]
           /\ th' = [th EXCEPT !["event"].pc = "issue"]
  <2>1. /\ cfg'.request = cfg.request /\ cfg'.int = cfg.int /\ cfg'.busy /\ cfg'.ready = cfg.ready
        /\ th'["event"].pc = "issue" /\ \A t \in Threads \ {"event"} : th'[t] = th[t]
    BY <1>4 DEF DriverStates, ThreadStates
  <2>2. fw = NoReq /\ ~Pending /\ cfg.request = NoReq /\ ~Internal /\ ~InEnd /\ ~Ending /\ ~Issuing /\ ~cfg.int
    BY <1>4 DEF Believed, Internal, InEnd, Ending
  <2>3. ~Pending' /\ \A x : x # NoReq /\ x # Pfn => ~Runs(x)'
    BY <1>1, <1>2, <2>2 DEF Pending, Runs, Fewer
  <2>4. /\ ~InEnd' /\ ~Handed' /\ ~Ending' /\ ~Issuing' /\ Internal' /\ Reported' = Reported /\ ~Active /\ ~Active'
        /\ (Beginning' <=> Beginning) /\ th'["call"] = th["call"]
    BY <1>2, <2>1, <2>2 DEF InEnd, Handed, Ending, Issuing, Internal, Reported, Active, Beginning, InCommand, Threads
  <2>5. Believed'
    <3>1. \A t \in Threads : Fit(t)'
      BY <2>1 DEF Believed, Fit, EndPcs
    <3>2. QED
      BY <1>1, <1>2, <2>1, <2>2, <2>3, <2>4, <3>1, SchedScans DEF Believed, Fewer
  <2>6. Reporting'
    BY <1>2, <2>1, <2>2, <2>3, <2>4, SchedScans DEF Reporting, Pending
  <2>7. QED
    BY <2>5, <2>6
<1>5. QED
  BY <1>3, <1>4, NoAbort DEF SchedScanResults

(* The end of a scan by its event: the request is read and cleared.       *)
LEMMA TakeKeeps ==
  ASSUME IInv, ScanOK, Believed, Reporting, ReadRequest("event") \/ ClearRequest("event")
  PROVE  Believed' /\ Reporting'
<1> /\ TypeOK /\ th \in [Threads -> ThreadStates] /\ cfg \in DriverStates
    /\ "call" \in Threads /\ "event" \in Threads /\ "down" \in Threads
  BY DEF IInv, TypeOK, Threads
<1>1. th["event"].then = "done" /\ InEnd /\ ~Ending /\ ~Handed /\ th["event"].pc \in {"read", "clear"}
  BY DEF ReadRequest, ClearRequest, Believed, Fit, EndPcs, InEnd, Ending, Handed
<1>2. /\ fw = NoReq /\ ~Pending /\ ~Issuing /\ cfg.busy
      /\ cfg.request # NoReq => ~cfg.int
  BY <1>1 DEF Believed, Internal
<1>3. /\ rdev' = rdev /\ info' = info /\ fw' = fw /\ events' = events
      /\ scan'.finished = scan.finished /\ scan'.answers = scan.answers
      /\ cfg'.busy = cfg.busy /\ cfg'.int = cfg.int /\ cfg'.ready = cfg.ready
  BY DEF ReadRequest, ClearRequest, Taken, kernel, device, DriverStates, ScanOK
<1>4. /\ \A t \in Threads \ {"event"} : th'[t] = th[t]
      /\ th'["event"].then = "done" /\ th'["event"].aborted = th["event"].aborted
      /\ \/ /\ th["event"].pc = "read" /\ th'["event"].pc = "clear"
            /\ th'["event"].req = cfg.request /\ cfg'.request = cfg.request
         \/ /\ th["event"].pc = "clear" /\ th'["event"].pc = "finish"
            /\ th'["event"].req = th["event"].req /\ cfg'.request = NoReq
  <2>1. CASE ReadRequest("event")
    BY <1>1, <2>1 DEF ReadRequest, ThreadStates
  <2>2. CASE ClearRequest("event")
    <3>1. th' = [th EXCEPT !["event"].pc = "finish"] /\ cfg' = Taken(cfg) /\ th["event"].pc = "clear"
      BY <1>1, <2>2 DEF ClearRequest, FwAbort
    <3>2. cfg'.request = NoReq
      BY <3>1 DEF Taken, DriverStates
    <3>3. QED
      BY <1>1, <3>1, <3>2 DEF ThreadStates
  <2>3. QED
    BY <2>1, <2>2
<1>5. /\ InEnd' /\ (Handed' <=> Ending') /\ ~Issuing' /\ Reported' = Reported /\ Second' = Second
      /\ (Beginning' <=> Beginning) /\ (Internal' <=> cfg.int) /\ (Internal <=> cfg.int)
      /\ (Ending' <=> th'["event"].pc = "finish") /\ ~Pending'
  BY <1>1, <1>2, <1>3, <1>4
     DEF InEnd, Handed, Ending, Issuing, Reported, Second, Beginning, InCommand, Internal, Pending
<1>6. th["event"].pc = "clear" => th["event"].req = cfg.request
  BY DEF Believed
<1>7. Active' <=> Active
  BY <1>1, <1>4, <1>5, <1>6 DEF Active
<1>8. \A x : x # NoReq /\ x # Pfn => ~Runs(x)'
  BY <1>2, <1>3 DEF Runs, Pending
<1>9. Believed'
  <2>1. \A t \in Threads : Fit(t)'
    BY <1>4 DEF Believed, Fit, EndPcs
  <2>2. Internal' \/ Handed' => cfg'.request = NoReq
    BY <1>2, <1>4, <1>5
  <2>3. Ending' /\ th'["event"].req # NoReq => ~cfg'.int
    BY <1>2, <1>3, <1>4, <1>5, <1>6
  <2>4. \A m, n \in DOMAIN events' : events'[m].of # Pfn /\ events'[n].of # Pfn => m = n
    BY <1>3 DEF Believed
  <2>5. QED
    BY <1>2, <1>3, <1>4, <1>5, <1>8, <2>1, <2>2, <2>3, <2>4, SchedScans DEF Believed
<1>10. Reporting'
  <2>1. cfg.request # NoReq =>
          rdev.req # NoReq /\ cfg.request = Reported /\ (th["event"].aborted <=> ~scan.finished)
    BY <1>1 DEF Reporting
  <2>2. /\ cfg'.request # NoReq => rdev'.req # NoReq /\ cfg'.request = Reported'
        /\ Ending' /\ th'["event"].req # NoReq =>
             rdev'.req # NoReq /\ th'["event"].req = Reported' /\ (th'["event"].aborted <=> ~scan'.finished)
        /\ th'["event"].pc \in {"read", "clear"} /\ cfg'.request # NoReq => (th'["event"].aborted <=> ~scan'.finished)
    BY <1>3, <1>4, <1>5, <1>6, <2>1
  <2>3. th'["down"].pc = "downed" => ~cfg'.ready /\ ~Active'
    BY <1>3, <1>4, <1>7 DEF Reporting
  <2>4. fw' \notin Reqs /\ \A n \in DOMAIN events' : events'[n].of \notin Reqs
    BY <1>2, <1>3, <1>5, SchedScans DEF Pending
  <2>5. th'["call"] = th["call"]
    BY <1>4
  <2>6. QED
    BY <1>3, <1>5, <1>7, <2>2, <2>3, <2>4, <2>5 DEF Reporting
<1>11. QED
  BY <1>9, <1>10

(* It is reported, and BUSY cleared.                                       *)
LEMMA ReportKeeps ==
  ASSUME IInv, ScanOK, Believed, Reporting, Report("event")
  PROVE  Believed' /\ Reporting'
<1> /\ TypeOK /\ th \in [Threads -> ThreadStates] /\ cfg \in DriverStates
    /\ "call" \in Threads /\ "event" \in Threads /\ "down" \in Threads
  BY DEF IInv, TypeOK, Threads
<1> DEFINE r == th["event"].req
<1>1. Ending /\ InEnd /\ Handed /\ th["event"].pc = "finish" /\ th["event"].then = "done"
  BY DEF Report, Believed, Fit, EndPcs, Ending, InEnd, Handed
<1>2. /\ fw = NoReq /\ ~Pending /\ cfg.request = NoReq /\ ~Issuing /\ (r # NoReq => ~cfg.int) /\ cfg.busy
  BY <1>1 DEF Believed
<1>3. /\ cfg'.request = NoReq /\ cfg'.busy /\ ~cfg'.int /\ cfg'.ready = cfg.ready
      /\ fw' = fw /\ events' = events
  BY <1>1, <1>2 DEF Report, DriverStates, device
<1>10. th'["event"].pc = "busy" /\ th'["event"].then = "done" /\ \A u \in Threads \ {"event"} : th'[u] = th[u]
  BY <1>1 DEF Report, At, Idle
<1>4. /\ rdev'.req = rdev.req /\ rdev'.int = rdev.int /\ rdev'.msg = rdev.msg /\ rdev'.six = rdev.six
      /\ scan'.finished = scan.finished /\ scan'.answers = scan.answers
  BY DEF Report, ScanDone, kernel, TypeOK, ScanOK
<1>5. /\ ~Pending' /\ ~Internal' /\ InEnd' /\ ~Ending' /\ ~Issuing' /\ ~Active' /\ Reported' = Reported
      /\ (Beginning' <=> Beginning) /\ th'["call"] = th["call"] /\ (Active <=> r # NoReq)
  BY <1>1, <1>2, <1>3, <1>4, <1>10
     DEF Pending, Internal, InEnd, Ending, Issuing, Active, Reported, Beginning, InCommand, Threads
<1>6. Believed'
  <2>1. \A u \in Threads : Fit(u)'
    BY <1>10 DEF Believed, Fit, EndPcs
  <2>2. \A x : x # NoReq /\ x # Pfn => ~Runs(x)'
    BY <1>2, <1>3 DEF Runs, Pending
  <2>3. QED
    BY <1>2, <1>3, <1>5, <1>10, <2>1, <2>2, SchedScans DEF Believed, Pending
<1>7. /\ rdev'.req # NoReq => Reported' \in info'.notified /\ (Reported' \in info'.aborted <=> ~scan'.finished)
      /\ rdev'.wk => rdev'.msg # << >> \/ rdev'.req # NoReq
  <2>1. CASE r = NoReq
    <3>1. rdev' = rdev /\ info' = info
      BY <1>1, <2>1 DEF Report, kernel
    <3>2. QED
      BY <1>4, <1>5, <2>1, <3>1 DEF Reporting
  <2>2. CASE r # NoReq
    <3>1. rdev.req # NoReq /\ r = Reported /\ (th["event"].aborted <=> ~scan.finished)
      BY <1>1, <2>2 DEF Reporting
    <3>2. Reported \in Current
      BY DEF Reported, Current
    <3>3. info' = [notified |-> info.notified \cup {r},
                   aborted |-> IF th["event"].aborted THEN info.aborted \cup {r} ELSE info.aborted \ {r}]
      BY <1>1, <1>2, <2>2, <3>1, <3>2 DEF Report, ScanDone
    <3>4. QED
      BY <1>4, <1>5, <3>1, <3>3
  <2>3. QED
    BY <2>1, <2>2
<1>8. Reporting'
  BY <1>2, <1>3, <1>4, <1>5, <1>7, <1>10, SchedScans DEF Reporting, Pending
<1>9. QED
  BY <1>6, <1>8

LEMMA NotBusyKeeps ==
  ASSUME IInv, ScanOK, FirmwareOK, Believed, Reporting, NotBusy("event")
  PROVE  Believed' /\ Reporting'
<1> /\ TypeOK /\ th \in [Threads -> ThreadStates] /\ cfg \in DriverStates
    /\ "call" \in Threads /\ "event" \in Threads /\ "down" \in Threads
  BY DEF IInv, TypeOK, Threads
<1>1. th["event"].pc = "busy" /\ th["event"].then = "done" /\ InEnd /\ Handed /\ ~Ending
  BY DEF NotBusy, Believed, Fit, EndPcs, InEnd, Handed, Ending
<1>2. /\ fw = NoReq /\ ~Pending /\ cfg.request = NoReq /\ ~Issuing /\ ~cfg.int /\ ~Active
  BY <1>1 DEF Believed, Active
<1>3. /\ rdev' = rdev /\ info' = info /\ fw' = fw /\ events' = events /\ scan' = scan
      /\ cfg'.request = NoReq /\ ~cfg'.busy /\ ~cfg'.int /\ cfg'.ready = cfg.ready
  BY <1>2 DEF NotBusy, kernel, device, history, DriverStates
<1>4. th' = [th EXCEPT !["event"] = [Idle EXCEPT !.pc = NextPc("done")]]
  BY <1>1 DEF NotBusy, GoesOn, ClearsBits
<1>5. th'["event"].pc = "idle" /\ \A u \in Threads \ {"event"} : th'[u] = th[u]
  <2>1. NextPc("done") = "idle"
    BY DEF NextPc
  <2>2. QED
    BY <1>4, <2>1 DEF Idle
<1>6. /\ ~Pending' /\ ~Internal' /\ ~InEnd' /\ ~Handed' /\ ~Ending' /\ ~Issuing' /\ ~Active' /\ Reported' = Reported
      /\ (Beginning' <=> Beginning) /\ th'["call"] = th["call"]
  BY <1>2, <1>3, <1>5
     DEF Pending, Internal, InEnd, Handed, Ending, Issuing, Active, Reported, Beginning, InCommand
<1>7. Believed'
  <2>1. \A u \in Threads : Fit(u)'
    BY <1>5 DEF Believed, Fit, EndPcs
  <2>2. \A x : x # NoReq /\ x # Pfn => ~Runs(x)'
    BY <1>2, <1>3 DEF Runs, Pending
  <2>3. QED
    BY <1>2, <1>3, <1>5, <1>6, <2>1, <2>2, SchedScans DEF Believed, Pending
<1>8. Reporting'
  BY <1>2, <1>3, <1>5, <1>6, SchedScans DEF Reporting, Pending
<1>9. QED
  BY <1>7, <1>8

(* The firmware finishes a scan.                                           *)
LEMMA FwFinishKeeps ==
  ASSUME IInv, FirmwareOK, ScanOK, Answering, Believed, Reporting, NEW s \in {"success", "failed"}, FwFinish(s)
  PROVE  Believed' /\ Reporting'
<1> /\ TypeOK /\ th \in [Threads -> ThreadStates] /\ cfg \in DriverStates
  BY DEF IInv, TypeOK
<1>1. /\ fw \in Reqs \cup {Pno} /\ ~Pending /\ events \in Seq(FirmwareEvents)
      /\ events' = Append(events, [of |-> fw, status |-> s]) /\ fw' = NoReq
  BY DEF FwFinish, Push, FirmwareOK, Believed
<1>2. /\ rdev' = rdev /\ info' = info /\ cfg' = cfg /\ th' = th
      /\ scan' = IF s = "success" /\ fw \in Current THEN [scan EXCEPT !.finished = TRUE] ELSE scan
  BY DEF FwFinish, kernel
<1>3. th["event"].pc \notin {"read", "clear", "finish", "busy", "issue", "failed"} /\ ~InEnd /\ ~Issuing /\ cfg.busy
  BY <1>1, SchedScans DEF Believed, InEnd
<1>4. /\ Internal' = Internal /\ Issuing' = Issuing /\ InEnd' = InEnd /\ Handed' = Handed /\ Ending' = Ending
      /\ Reported' = Reported /\ Active' = Active /\ Second' = Second /\ Beginning' = Beginning
  BY <1>2 DEF Internal, Issuing, InEnd, Handed, Ending, Reported, Active, Second, Beginning, InCommand
<1>5. \A n \in DOMAIN events' : events'[n].of # Pfn =>
         n = Len(events) + 1 /\ events'[n].of = fw /\ events'[n].status = s
  <2>1. \A n \in DOMAIN events' : \/ n \in DOMAIN events /\ events'[n] = events[n]
                                  \/ n = Len(events) + 1 /\ events'[n] = [of |-> fw, status |-> s]
    BY <1>1
  <2>2. QED
    BY <1>1, <2>1 DEF Pending
<1>6. \A x : x # NoReq /\ x # Pfn /\ Runs(x)' => x = fw /\ Runs(x)
  BY <1>1, <1>5 DEF Runs
<1>7. Believed'
  <2>1. \A t \in Threads : Fit(t)'
    BY <1>2 DEF Believed, Fit
  <2>2. QED
    BY <1>1, <1>2, <1>3, <1>4, <1>5, <1>6, <2>1, SchedScans DEF Believed
<1>8. CASE fw = Pno
  <2>1. scan' = scan
    BY <1>2, <1>8, SchedScans DEF Current, TypeOK, MaybeReqs
  <2>2. QED
    BY <1>1, <1>2, <1>3, <1>4, <1>5, <1>7, <1>8, <2>1, SchedScans DEF Reporting, Ending
<1>9. CASE fw \in Reqs
  <2>1. cfg.request = fw /\ rdev.req # NoReq /\ cfg.request = Reported /\ ~scan.finished /\ Active
    BY <1>9, SchedScans DEF Believed, Runs, Reporting, Active
  <2>2. fw \in Current
    BY <2>1 DEF Reported, Current
  <2>3. scan'.finished <=> s = "success"
    BY <1>2, <2>1, <2>2 DEF ScanOK
  <2>4. rdev.msg = << >> /\ scan'.answers = << >>
    <3>1. rdev.msg = << >> /\ Len(scan.answers) = 0
      BY <2>1 DEF Answering, AnsweredOnce
    <3>2. scan'.answers = scan.answers /\ scan.answers = << >>
      BY <1>2, <3>1 DEF ScanOK
    <3>3. QED
      BY <3>1, <3>2
  <2>5. QED
    BY <1>1, <1>2, <1>3, <1>4, <1>5, <1>7, <2>1, <2>3, <2>4, SchedScans DEF Reporting, Ending
<1>10. QED
  BY <1>1, <1>8, <1>9

(* A scan is over when no one holds its request any more.                  *)
LEMMA OverKeeps ==
  ASSUME Believed, Reporting, ~Active, ~Issuing, UNCHANGED << fw, events, info, cfg >>,
         rdev'.req = NoReq, rdev'.wk => rdev'.msg # << >>,
         "wext" \in Forms => rdev'.int = NoReq,
         \A t \in Threads : th'[t] = th[t] \/ (th'[t].pc = "idle" /\ t = "down"),
         "event" \in Threads /\ "call" \in Threads /\ "down" \in Threads,
         scan'.finished = scan.finished,
         rdev'.msg # << >> => (rdev'.msg[2] = "done" <=> scan.finished),
         \A n \in DOMAIN scan'.answers : scan'.answers[n][2] = "done" <=> scan.finished,
         ~Beginning
  PROVE  Believed' /\ Reporting'
<1>1. th'["event"] = th["event"] /\ th'["call"] = th["call"] /\ th'["down"].pc \in {th["down"].pc, "idle"}
  OBVIOUS
<1>2. /\ Internal' = Internal /\ Issuing' = Issuing /\ InEnd' = InEnd /\ Handed' = Handed /\ Ending' = Ending
      /\ Active' = Active /\ Beginning' = Beginning /\ Pending' = Pending /\ \A x : Runs(x)' = Runs(x)
  BY <1>1 DEF Internal, Issuing, InEnd, Handed, Ending, Active, Beginning, InCommand, Pending, Runs
<1>3. Believed'
  <2>1. \A t \in Threads : Fit(t)'
    BY DEF Believed, Fit, EndPcs
  <2>2. QED
    BY <1>1, <1>2, <2>1 DEF Believed
<1>4. Reporting'
  BY <1>1, <1>2 DEF Reporting, Active
<1>5. QED
  BY <1>3, <1>4

(* scan_done_wk.                                                           *)
LEMMA WorkKeeps ==
  ASSUME IInv, ScanOK, Mutex, Answering, FirmwareOK, Believed, Reporting, ScanDoneWork
  PROVE  Believed' /\ Reporting'
<1> /\ TypeOK /\ th \in [Threads -> ThreadStates] /\ cfg \in DriverStates
    /\ "call" \in Threads /\ "event" \in Threads /\ "down" \in Threads
  BY DEF IInv, TypeOK, Threads
<1>1. /\ rdev.wk /\ info' = info /\ fw' = fw /\ events' = events /\ th["call"].pc = "idle" /\ lock = "free"
  BY DEF ScanDoneWork, Mutex, device
<1>2. ~Issuing /\ ~Beginning
  BY <1>1 DEF Issuing, Beginning, InCommand
<1>3. CASE /\ rdev.msg # << >> /\ Sent(rdev.msg[1], rdev.msg[2])
           /\ rdev' = [rdev EXCEPT !.wk = FALSE, !.msg = << >>] /\ UNCHANGED << cfg, th >>
  <2>1. /\ rdev.req = NoReq /\ Len(scan.answers) = 0
    BY <1>3 DEF Answering, AnsweredOnce
  <2>2. /\ scan'.finished = scan.finished
        /\ scan'.answers = << << rdev.msg[1], rdev.msg[2] >> >>
    <3>1. scan.answers = << >>
      BY <2>1 DEF ScanOK
    <3>2. QED
      BY <1>3, <3>1 DEF Sent, ScanOK
  <2>3. rdev.msg[2] = "done" <=> scan.finished
    BY <1>3 DEF Reporting
  <2>4. \A n \in DOMAIN scan'.answers : scan'.answers[n][2] = "done" <=> scan.finished
    BY <2>2, <2>3
  <2>5. rdev'.req = NoReq /\ rdev'.int = rdev.int /\ rdev'.msg = << >> /\ ~rdev'.wk
    BY <1>3, <2>1 DEF TypeOK
  <2>6. ~Active
    BY <2>1 DEF Reporting, Active
  <2>7. "wext" \in Forms => rdev'.int = NoReq
    BY <2>1, <2>5 DEF Reporting
  <2>8. QED
    BY <1>1, <1>2, <1>3, <2>2, <2>4, <2>5, <2>6, <2>7, OverKeeps
<1>4. CASE rdev' = [rdev EXCEPT !.wk = FALSE] /\ UNCHANGED << cfg, th, scan >>
  <2>1. /\ rdev'.req = rdev.req /\ rdev'.int = rdev.int /\ rdev'.msg = rdev.msg /\ rdev'.six = rdev.six
        /\ ~rdev'.wk
    BY <1>4 DEF TypeOK
  <2>2. Fewer
    BY <1>1, EventsKept
  <2>3. QED
    BY <1>1, <1>4, <2>1, <2>2, VerdictKept DEF Reporting
<1>5. CASE /\ rdev.msg = << >> /\ rdev.req # NoReq /\ UNCHANGED << cfg, th >>
           /\ Answer([rdev EXCEPT !.wk = FALSE])
  <2>1. ~Active /\ (Reported \in info.aborted <=> ~scan.finished)
    BY <1>1, <1>5 DEF Reporting
  <2>2. Len(scan.answers) = 0
    BY <1>5 DEF Answering, AnsweredOnce
  <2>3. /\ scan'.finished = scan.finished
        /\ scan'.answers = << << rdev.req[1], Verdict >> >>
    <3>1. scan.answers = << >>
      BY <2>2 DEF ScanOK
    <3>2. QED
      BY <1>5, <3>1 DEF Answer, Sent, ScanOK
  <2>4. \A n \in DOMAIN scan'.answers : scan'.answers[n][2] = "done" <=> scan.finished
    BY <2>1, <2>3 DEF Verdict
  <2>5. rdev'.req = NoReq /\ rdev'.int = NoReq /\ rdev'.msg = << >> /\ ~rdev'.wk
    BY <1>5 DEF Answer, Cleared, TypeOK
  <2>6. QED
    BY <1>1, <1>2, <1>5, <2>1, <2>3, <2>4, <2>5, OverKeeps
<1>6. CASE /\ rdev.msg = << >> /\ rdev.req # NoReq /\ Another /\ scan' = scan
           /\ rdev' = [rdev EXCEPT !.wk = FALSE, !.six = TRUE, !.int = << rdev.req[1], "high" >>]
           /\ DriverScan(rdev'.int, "second", rdev.int)
  <2> DEFINE r == << rdev.req[1], "high" >>
  <2>1. /\ r \in Reqs /\ rdev'.int = r /\ rdev'.req = rdev.req /\ rdev'.msg = << >> /\ ~rdev'.wk /\ rdev'.six
    BY <1>6, RequestTypes DEF TypeOK, Parts
  <2>2. ~Active /\ (Reported \in info.aborted <=> ~scan.finished) /\ Reported \notin info.aborted
    BY <1>1, <1>6 DEF Reporting, Another
  <2>3. /\ ~cfg.busy /\ cfg.ready
        /\ cfg'.request = r /\ cfg'.busy /\ cfg'.int = cfg.int /\ cfg'.ready = cfg.ready
    BY <1>6, <2>1 DEF DriverScan, Refuses, DriverStates
  <2>4. /\ th'["call"] = [pc |-> "issue", req |-> r, aborted |-> FALSE, then |-> "second", old |-> rdev.int]
        /\ \A t \in Threads \ {"call"} : th'[t] = th[t]
    BY <1>6, <2>1 DEF DriverScan
  <2>5. /\ th'["call"].pc = "issue" /\ th'["call"].req = r /\ th'["call"].then = "second"
        /\ th'["call"].old = rdev.int /\ th'["event"] = th["event"] /\ th'["down"] = th["down"]
    BY <2>4
  <2>6. fw = NoReq /\ ~Pending /\ ~Internal /\ ~InEnd /\ th["down"].pc # "downed"
    BY <2>3 DEF Believed, Reporting
  <2>7. /\ ~Pending' /\ ~Internal' /\ ~InEnd' /\ ~Handed' /\ ~Ending' /\ Issuing' /\ Active' /\ ~Beginning'
        /\ th'["event"].pc \notin {"read", "clear", "finish", "busy"}
        /\ \A x : x # NoReq /\ x # Pfn => ~Runs(x)'
    BY <1>1, <2>1, <2>3, <2>5, <2>6, SchedScans
       DEF Pending, Internal, InEnd, Handed, Ending, Issuing, Active, Beginning, InCommand, Runs
  <2>8. Reported' = r /\ Second' = Reported
    BY <2>1, <2>5, SchedScans DEF Reported, Second
  <2>9. Believed'
    <3>1. \A t \in Threads : Fit(t)'
      BY <2>4, <2>5 DEF Believed, Fit, EndPcs
    <3>2. QED
      BY <1>1, <2>3, <2>5, <2>6, <2>7, <3>1, SchedScans DEF Believed, Pending, Internal
  <2>10. Reporting'
    BY <1>1, <1>6, <2>1, <2>2, <2>3, <2>5, <2>6, <2>7, <2>8, SchedScans DEF Reporting, Pending
  <2>11. QED
    BY <2>9, <2>10
<1>7. QED
  BY <1>3, <1>4, <1>5, <1>6 DEF ScanDoneWork, CanScan

(* The interface is closed: the report was in before, so that its verdict  *)
(* is the one that is kept.                                                *)
LEMMA DownKeeps ==
  ASSUME IInv, ScanOK, Mutex, Answering, FirmwareOK, Believed, Reporting, NetdevDown
  PROVE  Believed' /\ Reporting'
<1> /\ TypeOK /\ th \in [Threads -> ThreadStates] /\ cfg \in DriverStates
    /\ "call" \in Threads /\ "event" \in Threads /\ "down" \in Threads
  BY DEF IInv, TypeOK, Threads
<1>1. /\ fw' = fw /\ events' = events /\ cfg' = cfg /\ scan' = scan
      /\ th["call"].pc = "idle" /\ th["down"].pc = "downed"
      /\ th'["down"].pc = "idle" /\ \A t \in Threads \ {"down"} : th'[t] = th[t]
  BY DEF NetdevDown, Mutex, device, history, Idle
<1>2. ~Active /\ ~Issuing /\ ~Beginning
  BY <1>1 DEF Reporting, Issuing, Beginning, InCommand
<1>3. rdev.req # NoReq => Reported \in info.notified /\ (Reported \in info.aborted <=> ~scan.finished)
  BY <1>2 DEF Reporting
<1>4. info' = info
  BY <1>3 DEF NetdevDown, Unreported, Reported
<1>5. CASE rdev' = rdev
  <2>1. Fewer
    BY <1>1, EventsKept
  <2>2. \A t \in Threads : th'[t] = th[t] \/ Fit(t)'
    BY <1>1 DEF Fit, EndPcs
  <2>3. QED
    BY <1>1, <1>4, <1>5, <2>1, <2>2, VerdictKept
<1>6. CASE rdev' # rdev
  <2> DEFINE c == Cleared(rdev)
             v == IF Reported \in info.aborted THEN "aborted" ELSE "done"
  <2>1. rdev.req # NoReq /\ rdev' = [c EXCEPT !.msg = << rdev.req[1], v >>]
    BY <1>4, <1>6 DEF NetdevDown
  <2>2. DOMAIN c = DOMAIN rdev /\ c.req = NoReq /\ c.int = NoReq
        /\ DOMAIN rdev = DOMAIN [req |-> 1, int |-> 1, six |-> 1, msg |-> 1, wk |-> 1, running |-> 1, sched |-> 1]
    BY DEF Cleared, TypeOK
  <2>3. rdev'.req = NoReq /\ rdev'.int = NoReq /\ rdev'.msg = << rdev.req[1], v >>
    <3> HIDE DEF c, v
    <3> QED
      BY <2>1, <2>2
  <2>4. rdev'.msg[2] = "done" <=> scan.finished
    BY <1>3, <2>1, <2>3
  <2>5. rdev'.msg # << >>
    <3> HIDE DEF v
    <3> QED
      BY <2>3
  <2>6. \A n \in DOMAIN scan'.answers : scan'.answers[n][2] = "done" <=> scan.finished
    BY <1>1 DEF Reporting
  <2>7. QED
    BY <1>1, <1>2, <1>4, <2>3, <2>4, <2>5, <2>6, OverKeeps
<1>7. QED
  BY <1>5, <1>6

(* A new scan, or one that is refused.  With the wireless extensions no    *)
(* part of a split scan may be left behind: they would answer with it.     *)
LEMMA TriggerBelieved ==
  ASSUME IInv, ScanOK, Mutex, Answering, FirmwareOK, Believed, Reporting, NEW form \in Forms, TriggerScan(form),
         "split" \notin Forms \/ "wext" \notin Forms
  PROVE  Believed' /\ Reporting'
<1> /\ TypeOK /\ th \in [Threads -> ThreadStates] /\ cfg \in DriverStates
    /\ "call" \in Threads /\ "event" \in Threads /\ "down" \in Threads
  BY DEF IInv, TypeOK, Threads
<1> DEFINE r == FirstPart(asked + 1, form)
<1>1. /\ rdev.req = NoReq /\ rdev.msg = << >> /\ ~rdev.wk /\ th["call"].pc = "idle" /\ ~Active /\ ~Issuing
      /\ cfg.request = NoReq
  BY DEF TriggerScan, CanScan, Mutex, Reporting, Active, Issuing
<1>2. /\ fw' = fw /\ events' = events /\ scan'.answers = << >> /\ scan'.finished = FALSE
  BY DEF TriggerScan, device, NewScan
<1>3. /\ rdev'.msg = << >> /\ ~rdev'.wk /\ form \in {"split", "six", "wext"}
  BY <1>1, ScanAssumption DEF TriggerScan, TypeOK
<1>4. r \in Reqs /\ << asked + 1, "whole" >> \in Reqs
  <2>1. asked + 1 \in Scans
    BY ScanAssumption DEF TriggerScan, TypeOK, Scans
  <2>2. QED
    BY <2>1 DEF FirstPart, Reqs, Parts
<1>5. "wext" \in Forms => rdev.int = NoReq /\ form # "split"
  BY <1>1 DEF Reporting
<1>6. CASE DriverScan(r, "trigger", rdev.int)
  <2>1. /\ ~cfg.busy /\ cfg.ready
        /\ cfg'.request = r /\ cfg'.busy /\ cfg'.int = cfg.int /\ cfg'.ready = cfg.ready
    BY <1>6 DEF DriverScan, Refuses, DriverStates
  <2>2. /\ th'["call"] = [pc |-> "issue", req |-> r, aborted |-> FALSE, then |-> "trigger", old |-> rdev.int]
        /\ \A t \in Threads \ {"call"} : th'[t] = th[t]
    BY <1>6 DEF DriverScan
  <2>3. /\ th'["call"].pc = "issue" /\ th'["call"].req = r /\ th'["call"].then = "trigger"
        /\ th'["call"].old = rdev.int /\ th'["event"] = th["event"] /\ th'["down"] = th["down"]
    BY <2>2
  <2>4. fw = NoReq /\ ~Pending /\ ~Internal /\ ~InEnd /\ th["down"].pc # "downed"
    BY <2>1 DEF Believed, Reporting
  <2>5. /\ rdev'.req = << asked + 1, "whole" >> /\ rdev'.six = (form = "six")
        /\ rdev'.int = IF form = "wext" THEN rdev.int ELSE r
    <3>1. th' # th
      BY <1>1, <2>3
    <3>2. QED
      BY <3>1 DEF TriggerScan, TypeOK
  <2>6. Reported' = r
    <3>1. CASE form = "wext"
      BY <1>5, <2>5, <3>1 DEF Reported, FirstPart
    <3>2. CASE form # "wext"
      BY <1>4, <2>5, <3>2, SchedScans DEF Reported
    <3>3. QED
      BY <3>1, <3>2
  <2>7. /\ ~Pending' /\ ~Internal' /\ ~InEnd' /\ ~Handed' /\ ~Ending' /\ Issuing' /\ Active' /\ Beginning'
        /\ th'["event"].pc \notin {"read", "clear", "finish", "busy"}
        /\ \A x : x # NoReq /\ x # Pfn => ~Runs(x)'
    BY <1>2, <1>4, <2>1, <2>3, <2>4, SchedScans
       DEF Pending, Internal, InEnd, Handed, Ending, Issuing, Active, Beginning, InCommand, Runs
  <2>8. Believed'
    <3>1. \A t \in Threads : Fit(t)'
      BY <2>2, <2>3 DEF Believed, Fit, EndPcs
    <3>2. QED
      BY <1>2, <1>4, <2>1, <2>3, <2>4, <2>7, <3>1, SchedScans DEF Believed, Pending, Internal
  <2>9. "wext" \in Forms /\ ~rdev'.six => rdev'.int = NoReq
    <3>1. ~rdev'.six => form # "six"
      BY <2>5
    <3>2. QED
      BY <1>3, <1>5, <2>5, <3>1
  <2>10. rdev'.req # NoReq
    BY <1>4, <2>5, SchedScans
  <2>11. Reporting'
    BY <1>2, <1>3, <1>5, <2>1, <2>3, <2>4, <2>6, <2>7, <2>9, <2>10, SchedScans DEF Reporting, Pending
  <2>12. QED
    BY <2>8, <2>11
<1>7. CASE ~DriverScan(r, "trigger", rdev.int)
  <2>1. cfg' = cfg /\ th' = th
    BY <1>7 DEF TriggerScan
  <2>2. rdev'.req = NoReq /\ rdev'.int = IF form \in {"six", "wext"} THEN rdev.int ELSE r
    BY <1>3, <1>7 DEF TriggerScan, TypeOK
  <2>3. /\ Internal' = Internal /\ Issuing' = Issuing /\ InEnd' = InEnd /\ Handed' = Handed /\ Ending' = Ending
        /\ Active' = Active /\ Beginning' = Beginning /\ Pending' = Pending /\ \A x : Runs(x)' = Runs(x)
    BY <1>2, <2>1 DEF Internal, Issuing, InEnd, Handed, Ending, Active, Beginning, InCommand, Pending, Runs
  <2>4. Believed'
    <3>1. \A t \in Threads : Fit(t)'
      BY <2>1 DEF Believed, Fit
    <3>2. QED
      BY <1>2, <2>1, <2>3, <3>1 DEF Believed
  <2>5. /\ fw' \notin Reqs
        /\ \A n \in DOMAIN events' : events'[n].of \notin Reqs
    BY <1>1, <1>2, SchedScans DEF Believed, Runs
  <2>6. ~Beginning
    BY <1>1 DEF Beginning, InCommand
  <2>7. "wext" \in Forms => rdev'.int = NoReq
    BY <1>3, <1>5, <2>2
  <2>8. Reporting'
    BY <1>1, <1>2, <1>3, <2>1, <2>2, <2>3, <2>5, <2>6, <2>7 DEF Reporting, Active
  <2>9. QED
    BY <2>4, <2>8
<1>8. QED
  BY <1>6, <1>7

(* An alarm stays.                                                         *)
LEMMA AlarmStays ==
  ASSUME [Next]_vars, alarm' = {}
  PROVE  alarm = {}
<1>1. CASE \E t \in Threads : EndStep(t)
  BY <1>1 DEF EndStep, ReadRequest, ClearRequest, AbortCommand, Report, ScanDone, NotBusy, ClearBits, history
<1>2. CASE EscanResult \/ SchedScanResults \/ TimeoutWorker \/ CritProtoStart \/ AbortIfBusy
           \/ UserStopsSched \/ GoingDown \/ NetdevStop
  BY <1>2 DEF EscanResult, SchedScanResults, TimeoutWorker, CritProtoStart, AbortIfBusy,
     UserStopsSched, GoingDown, NetdevStop, AbortScanning, SchedScanStop, Notify
<1>3. CASE (\E t \in Threads : EscanCommand(t)) \/ (\E form \in Forms : TriggerScan(form))
           \/ ScanDoneWork \/ ScanStarted \/ TriggerFails \/ SecondFails \/ SchedStopped \/ DeviceStep
  BY <1>3 DEF EscanCommand, TriggerScan, ScanDoneWork, ScanStarted, TriggerFails, SecondFails,
     SchedStopped, DeviceStep, FwFinish, FwPfn, history
<1>4. CASE InternalStarted \/ InternalFails \/ BadPfn \/ SchedScanStopped \/ EscanTimeout \/ CritProtoStop
           \/ SchedScanStart \/ NetdevUp \/ NetdevDown \/ Leave \/ UNCHANGED vars
  BY <1>4 DEF InternalStarted, InternalFails, BadPfn, SchedScanStopped, EscanTimeout, CritProtoStop,
     SchedScanStart, NetdevUp, NetdevDown, Leave, history, vars
<1>5. QED
  BY <1>1, <1>2, <1>3, <1>4 DEF Next, CallStep, EventStep, TimeoutStep, DownStep, UserStep, Threads

Agreed == alarm = {} => Believed /\ Reporting

LEMMA AgreedNext ==
  ASSUME "split" \notin Forms \/ "wext" \notin Forms,
         IInv, ScanOK, Mutex, Answering, FirmwareOK, Agreed, [Next]_vars
  PROVE  Agreed'
<1> SUFFICES ASSUME alarm' = {} PROVE Believed' /\ Reporting'
  BY DEF Agreed
<1>1. Believed /\ Reporting
  BY AlarmStays DEF Agreed
<1>2. ASSUME NEW t \in Threads, EndStep(t) PROVE Believed' /\ Reporting'
  <2>1. ~AbortCommand(t)
    BY <1>1 DEF AbortCommand, Believed, Fit, EndPcs
  <2>2. CASE ClearBits(t)
    BY <1>1, <2>2, QuietSteps
  <2>3. CASE ReadRequest(t) \/ ClearRequest(t) \/ Report(t) \/ NotBusy(t)
    <3>1. t = "event"
      BY <1>1, <2>3 DEF ReadRequest, ClearRequest, Report, NotBusy, Believed, Fit, EndPcs
    <3>2. QED
      BY <1>1, <2>3, <3>1, TakeKeeps, ReportKeeps, NotBusyKeeps
  <2>4. QED
    BY <1>2, <2>1, <2>2, <2>3 DEF EndStep
<1>3. ~TimeoutWorker
  BY DEF TimeoutWorker, Notify, FwAbort
<1>4. CASE (\E form \in Forms : TriggerScan(form)) \/ ScanDoneWork \/ TriggerFails \/ SecondFails \/ NetdevDown
  BY <1>1, <1>4, TriggerBelieved, WorkKeeps, FailsKeeps, DownKeeps
<1>5. CASE EscanCommand("call") \/ EscanCommand("event") \/ InternalStarted \/ InternalFails
  BY <1>1, <1>5, CommandKeeps, InternalKeeps
<1>6. CASE EscanResult \/ SchedScanResults \/ (\E s \in {"success", "failed"} : FwFinish(s))
  BY <1>1, <1>6, ResultKeeps, ResultsKeep, FwFinishKeeps
<1>7. CASE \/ SchedStopped \/ SchedScanStopped \/ EscanTimeout \/ Leave \/ NetdevUp \/ CritProtoStop
           \/ SchedScanStart \/ ScanStarted \/ BadPfn \/ (\E s \in {"success", "failed"} : FwPfn(s)) \/ UNCHANGED vars
           \/ CritProtoStart \/ AbortIfBusy \/ NetdevStop \/ UserStopsSched \/ GoingDown
  BY <1>1, <1>7, QuietSteps
<1>8. QED
  BY <1>2, <1>3, <1>4, <1>5, <1>6, <1>7
     DEF Next, CallStep, EventStep, TimeoutStep, DownStep, UserStep, DeviceStep, Threads

LEMMA AgreedInit ==
  ASSUME Init
  PROVE  FirmwareOK /\ Agreed
<1>1. /\ fw = NoReq /\ events = << >> /\ rdev.req = NoReq /\ rdev.int = NoReq /\ rdev.msg = << >> /\ ~rdev.wk
      /\ cfg.request = NoReq /\ ~cfg.int /\ scan.answers = << >>
      /\ \A t \in Threads : th[t].pc = "idle"
  BY DEF Init, Idle, NewScan
<1>2. FirmwareOK
  BY <1>1 DEF FirmwareOK, InCommand, Threads
<1>3. ~Pending /\ \A x : x # NoReq => ~Runs(x)
  BY <1>1 DEF Pending, Runs
<1>4. Believed
  BY <1>1, <1>3, SchedScans DEF Believed, Internal, InEnd, Handed, Ending, Issuing, Threads, Fit, EndPcs
<1>5. Reporting
  BY <1>1, SchedScans DEF Reporting, Active, Ending, Issuing, Beginning, InCommand, Threads
<1>6. QED
  BY <1>2, <1>4, <1>5 DEF Agreed

(* Until the host ends a scan itself, the message says "done" if and only  *)
(* if the firmware finished the last part it was given, although no event  *)
(* tells which scan it is of, and a scheduled scan starts escans of its    *)
(* own.  A part of a split scan that is left behind is excepted (scan.c:   *)
(* 973), which only a scan of the wireless extensions can meet.            *)
THEOREM Verdicts == "split" \notin Forms \/ "wext" \notin Forms => (Spec => []VerdictTrue)
<1> SUFFICES ASSUME "split" \notin Forms \/ "wext" \notin Forms PROVE Spec => []VerdictTrue
  OBVIOUS
<1> DEFINE AInv == IInv /\ ScanOK /\ Mutex /\ Answering
<1>1. AInv /\ FirmwareOK /\ Agreed /\ [Next]_vars => (FirmwareOK /\ Agreed)'
  BY FirmwareTypes, AgreedNext
<1>2. ScanOK /\ Agreed => VerdictTrue
  BY DEF Agreed, Reporting, VerdictTrue, ScanOK
<1>3. Init => FirmwareOK /\ Agreed
  BY AgreedInit
<1>4. Spec => []AInv
  BY OpenScans
<1>5. AInv => ScanOK
  OBVIOUS
<1> HIDE DEF AInv
<1>6. QED
  BY <1>1, <1>2, <1>3, <1>4, <1>5, PTL DEF Spec
=============================================================================
