--------------------------- MODULE ConnectProofs ---------------------------
(* Two results about connections, for every number of requests, losses and *)
(* access points.  cfg80211_connect_done is called at most once for each   *)
(* request: a request that is made can still bring one result, as its bit  *)
(* is to be set, is set, or was just taken by the worker of events         *)
(* (ToCome), and no step raises results + ToCome without a new request.    *)
(* And when all has arrived, cfg80211, the driver and the firmware agree   *)
(* and every request has its answer, as long as no request crossed with    *)
(* something of an earlier one and every DISASSOC ended what it was to end *)
(* (crossed, astray): Course says, while something is on its way, what the *)
(* queues will bring.                                                      *)
EXTENDS Connect, TLAPS

LEMMA AddrTypes == NoBss \in Addrs /\ \A b \in Bsses : b \in Addrs
  BY DEF Addrs

LEMMA IdleType == Idle \in ThreadStates
  BY DEF Idle, ThreadStates, Pcs, Keys

THEOREM InitInv == Init => IInv
<1> SUFFICES ASSUME Init PROVE IInv
  OBVIOUS
<1>1. TypeOK
  <2>1. vif \in Vifs /\ wdev \in [connected : BOOLEAN, ssid : BOOLEAN, addr : Addrs]
    BY AddrTypes DEF Init, Vifs
  <2>2. posted \in Seq(Messages) /\ events \in Seq(Events)
    BY DEF Init
  <2>3. fw \in [link : Addrs, joining : BOOLEAN, key : Keys]
    BY AddrTypes DEF Init, Keys
  <2>4. th \in [Threads -> ThreadStates]
    BY IdleType DEF Init
  <2>5. QED
    BY <2>1, <2>2, <2>3, <2>4 DEF Init, TypeOK
<1>2. Owed /\ OneCall /\ InItsCode
  BY DEF Init, Owed, ToCome, Count, OneCall, InItsCode, Idle, Threads
<1>3. QED
  BY <1>1, <1>2 DEF IInv

-----------------------------------------------------------------------------
(* Types.  What the helpers return. *)

LEMMA VifTypes ==
  ASSUME NEW v \in Vifs
  PROVE  /\ NoFlags(v) \in Vifs /\ InitProf(v) \in Vifs /\ Answering(v) \in Vifs
         /\ Withdrawn(v) \in Vifs /\ \A key \in Keys : WithKey(v, key) \in Vifs
         /\ \A e \in Events : Seen(v, e) \in Vifs /\ Noted(v, e) \in Vifs
<1>1. NoFlags(v) \in Vifs /\ InitProf(v) \in Vifs /\ Answering(v) \in Vifs /\ Withdrawn(v) \in Vifs
  <2>1. NoFlags(v) \in Vifs
    BY DEF NoFlags, Vifs
  <2>2. InitProf(v) \in Vifs
    BY AddrTypes DEF InitProf, Vifs
  <2>3. Answering(v) \in Vifs /\ Withdrawn(v) \in Vifs
    BY DEF Answering, Withdrawn, Vifs
  <2>4. QED
    BY <2>1, <2>2, <2>3
<1>2. ASSUME NEW e \in Events PROVE Seen(v, e) \in Vifs /\ Noted(v, e) \in Vifs
  <2>1. Seen(v, e) \in Vifs
    <3>1. e.bss \in Addrs /\ v \in Vifs
      BY AddrTypes DEF Events
    <3>2. QED
      BY <3>1 DEF Seen, Vifs
  <2>2. NoFlags(Seen(v, e)) \in Vifs
    BY <2>1, AddrTypes DEF NoFlags, Vifs
  <2>3. QED
    BY <2>1, <2>2 DEF Noted
<1>3. ASSUME NEW key \in Keys PROVE WithKey(v, key) \in Vifs
  <2> DEFINE sup == key \in FwSup
             ft == key \in Ft
  <2>1. sup \in BOOLEAN /\ ft \in BOOLEAN
    OBVIOUS
  <2>2. WithKey(v, key) = [v EXCEPT !.sup = sup, !.ft = ft]
    BY DEF WithKey
  <2> HIDE DEF sup, ft
  <2>3. QED
    BY <2>1, <2>2 DEF Vifs
<1>4. QED
  BY <1>1, <1>2, <1>3

LEMMA GoesTypes ==
  ASSUME TypeOK, NEW t \in Threads, NEW pc \in Pcs, Goes(t, pc)
  PROVE  th' \in [Threads -> ThreadStates]
  BY DEF Goes, TypeOK, ThreadStates

LEMMA MsgTypes ==
  ASSUME TypeOK, NEW type \in {"connected", "failed", "roamed", "disconnected"}, NEW bss \in Addrs
  PROVE  Append(posted, Msg(type, bss)) \in Seq(Messages)
  BY DEF TypeOK, Msg, Messages

LEMMA EventTypes ==
  ASSUME TypeOK, NEW code \in {"up", "down", "sup", "badkey", "fail", "roam"}, NEW bss \in Addrs
  PROVE  Event(code, bss) \in Events /\ Append(events, Event(code, bss)) \in Seq(Events)
  BY DEF TypeOK, Event, Events

LEMMA DisassocTypes ==
  ASSUME TypeOK, Disassoc \/ DisassocFails
  PROVE  /\ fw' \in [link : Addrs, joining : BOOLEAN, key : Keys] /\ events' \in Seq(Events)
         /\ upsets' \in Nat /\ astray' \in BOOLEAN
<1>1. fw.link \in Addrs
  BY DEF TypeOK
<1>2. CASE Disassoc
  <2>1. fw' \in [link : Addrs, joining : BOOLEAN, key : Keys]
    BY <1>2, AddrTypes DEF TypeOK, Disassoc
  <2>2. events' \in Seq(Events)
    BY <1>1, <1>2, EventTypes DEF TypeOK, Disassoc
  <2>3. QED
    BY <1>2, <2>1, <2>2 DEF TypeOK, Disassoc
<1>3. CASE DisassocFails
  BY <1>3 DEF TypeOK, DisassocFails, Upset
<1>4. QED
  BY <1>2, <1>3

LEMMA LinkedTypes ==
  ASSUME TypeOK, NEW b \in Bsses, NEW tr \in BOOLEAN, Linked(b, tr)
  PROVE  fw' \in [link : Addrs, joining : BOOLEAN, key : Keys] /\ events' \in Seq(Events)
<1>1. b \in Addrs
  BY AddrTypes
<1>2. fw' \in [link : Addrs, joining : BOOLEAN, key : Keys]
  BY <1>1 DEF TypeOK, Linked
<1>3. Event("up", b) \in Events /\ Event("sup", b) \in Events /\ events \in Seq(Events)
  BY <1>1, EventTypes DEF TypeOK
<1>4. /\ events \o << Event("up", b), Event("sup", b) >> \in Seq(Events)
      /\ events \o << Event("sup", b), Event("up", b) >> \in Seq(Events)
  BY <1>3
<1>5. events' \in Seq(Events)
  BY <1>1, <1>4, EventTypes DEF Linked
<1>6. QED
  BY <1>2, <1>5

LEMMA CallTypes == TypeOK /\ CallStep => TypeOK'
<1> SUFFICES ASSUME TypeOK, CallStep PROVE TypeOK'
  OBVIOUS
<1> USE AddrTypes, IdleType DEF TypeOK
<1>1. th["call"].key \in Keys
  BY DEF ThreadStates, Threads
<1>2. ASSUME NEW pc \in Pcs, NEW k \in Keys
      PROVE [th EXCEPT !["call"] = [pc |-> pc, key |-> k]] \in [Threads -> ThreadStates]
  BY <1>2 DEF ThreadStates
<1>3. CallReturns => th' \in [Threads -> ThreadStates] /\ lock' = "free"
  BY DEF CallReturns
<1>4. ASSUME NEW key \in Keys, NEW prev \in BOOLEAN, CfgConnect(key, prev) PROVE TypeOK'
  <2>1. th' \in [Threads -> ThreadStates]
    <3>1. /\ [th EXCEPT !["call"] = [pc |-> "join", key |-> key]] \in [Threads -> ThreadStates]
          /\ [th EXCEPT !["call"] = [pc |-> "elements", key |-> key]] \in [Threads -> ThreadStates]
      BY <1>2, <1>4 DEF Pcs
    <3>2. QED
      BY <1>4, <3>1 DEF CfgConnect
  <2>2. vif' \in Vifs
    BY <1>4 DEF CfgConnect, Vifs
  <2>3. crossed' \in BOOLEAN
    BY <1>4 DEF CfgConnect, Settled
  <2>4. wdev' \in [connected : BOOLEAN, ssid : BOOLEAN, addr : Addrs]
    BY <1>4 DEF CfgConnect
  <2>5. /\ connects' \in Nat /\ lock' = "call"
        /\ UNCHANGED << posted, fw, events, upsets, open, results, astray >>
    BY <1>4 DEF CfgConnect
  <2>6. QED
    BY <2>1, <2>2, <2>3, <2>4, <2>5
<1>5. CASE Elements
  <2>1. th' \in [Threads -> ThreadStates]
    BY <1>5, GoesTypes DEF Elements, Threads, Pcs
  <2>2. vif' \in Vifs
    BY <1>5 DEF Elements, Vifs
  <2>3. QED
    BY <1>5, <2>1, <2>2 DEF Elements, history
<1>6. CASE KeyMgmt
  <2>1. th' \in [Threads -> ThreadStates]
    BY <1>6, GoesTypes DEF KeyMgmt, Threads, Pcs
  <2>2. vif' \in Vifs
    BY <1>1, <1>6, VifTypes DEF KeyMgmt
  <2>3. QED
    BY <1>6, <2>1, <2>2 DEF KeyMgmt, history
<1>7. CASE Join
  <2>1. fw' \in [link : Addrs, joining : BOOLEAN, key : Keys]
    BY <1>1, <1>7 DEF Join
  <2>2. crossed' \in BOOLEAN
    BY <1>7 DEF Join, Settled
  <2>3. QED
    BY <1>3, <1>7, <2>1, <2>2 DEF Join
<1>8. CASE ConnectFails
  <2>1. vif' \in Vifs
    <3>1. "open" \in Keys
      BY DEF Keys
    <3>2. \A v \in Vifs : Withdrawn(v) \in Vifs /\ \A key \in Keys : WithKey(v, key) \in Vifs
      BY VifTypes
    <3>3. QED
      BY <1>1, <1>8, <3>1, <3>2 DEF ConnectFails
  <2>2. /\ wdev' \in [connected : BOOLEAN, ssid : BOOLEAN, addr : Addrs] /\ upsets' \in Nat
        /\ CallReturns /\ UNCHANGED << posted, fw, events, connects, history >>
    BY <1>8 DEF ConnectFails, Upset
  <2>3. QED
    BY <1>3, <2>1, <2>2 DEF history
<1>9. CASE CfgDisconnect
  <2>1. th' \in [Threads -> ThreadStates]
    BY <1>9, GoesTypes DEF CfgDisconnect, Threads, Pcs
  <2>2. posted' \in Seq(Messages)
    BY <1>9, MsgTypes DEF CfgDisconnect
  <2>3. NoFlags(vif) \in Vifs
    BY VifTypes
  <2>4. vif' \in Vifs
    BY <1>9, <2>3 DEF CfgDisconnect, Vifs
  <2>5. /\ upsets' \in Nat /\ lock' = "call" /\ open' = FALSE
        /\ UNCHANGED << wdev, fw, events, connects, results, crossed, astray >>
    BY <1>9 DEF CfgDisconnect, Upset
  <2>6. QED
    BY <2>1, <2>2, <2>4, <2>5
<1>10. CASE Left
  <2>1. /\ fw' \in [link : Addrs, joining : BOOLEAN, key : Keys] /\ events' \in Seq(Events)
        /\ upsets' \in Nat /\ astray' \in BOOLEAN
    BY <1>10, DisassocTypes DEF Left
  <2>2. /\ wdev' \in [connected : BOOLEAN, ssid : BOOLEAN, addr : Addrs]
        /\ CallReturns /\ UNCHANGED << posted, vif, connects, open, results, crossed >>
    BY <1>10 DEF Left
  <2>3. QED
    BY <1>3, <2>1, <2>2
<1>11. CASE Refused
  <2>1. /\ wdev' \in [connected : BOOLEAN, ssid : BOOLEAN, addr : Addrs] /\ upsets' \in Nat
        /\ crossed' \in BOOLEAN
        /\ UNCHANGED << posted, vif, fw, events, lock, th, connects, open, results, astray >>
    BY <1>11 DEF Refused, Upset, Settled
  <2>2. QED
    BY <2>1
<1>12. QED
  BY <1>4, <1>5, <1>6, <1>7, <1>8, <1>9, <1>10, <1>11 DEF CallStep

LEMMA EventTypesKept == TypeOK /\ EventStep => TypeOK'
<1> SUFFICES ASSUME TypeOK, EventStep PROVE TypeOK'
  OBVIOUS
<1>1. vif \in Vifs /\ vif.bssid \in Addrs
  BY DEF TypeOK, Vifs
<1>2. ASSUME NextEvent, events # << >>, vif' \in Vifs, th' \in [Threads -> ThreadStates],
             posted' \in Seq(Messages), results' \in Nat
      PROVE  TypeOK'
  BY <1>2 DEF TypeOK, NextEvent
<1>3. ASSUME NEW v \in Vifs, ConnectSucceeds(v)
      PROVE  /\ vif' \in Vifs /\ th' \in [Threads -> ThreadStates]
             /\ posted' \in Seq(Messages) /\ results' \in Nat
  BY <1>3, VifTypes, GoesTypes DEF ConnectSucceeds, TypeOK, Threads, Pcs
<1>4. ConnectDoneFailed(vif) => posted' \in Seq(Messages) /\ results' \in Nat
  <2>1. Append(posted, Msg("failed", vif.bssid)) \in Seq(Messages)
    BY <1>1, MsgTypes
  <2>2. posted \in Seq(Messages) /\ results \in Nat /\ results + 1 \in Nat
    BY DEF TypeOK
  <2>3. QED
    BY <2>1, <2>2 DEF ConnectDoneFailed
<1>5. LinkDownEnds(vif) => vif' \in Vifs /\ th' \in [Threads -> ThreadStates]
  <2>1. NoFlags(Answering(vif)) \in Vifs /\ InitProf(NoFlags(Answering(vif))) \in Vifs
    BY <1>1, VifTypes
  <2>2. QED
    BY <2>1, GoesTypes DEF LinkDownEnds, Threads, Pcs
<1>6. CASE events # << >> /\ HandlesEvent(Head(events))
  <2> DEFINE e == Head(events)
  <2>1. e \in Events /\ e.bss \in Addrs
    <3>1. events \in Seq(Events) /\ events # << >>
      BY <1>6 DEF TypeOK
    <3>2. e \in Events
      BY <3>1
    <3>3. QED
      BY <3>2 DEF Events
  <2>2. Noted(vif, e) \in Vifs
    BY <1>1, <2>1, VifTypes
  <2> HIDE DEF e
  <2>3. CASE LinkUp(e)
    <3>1. CASE Roaming(Noted(vif, e), e)
      <4>1. vif' \in Vifs /\ th' \in [Threads -> ThreadStates]
        BY <2>2, <2>3, <3>1, GoesTypes DEF LinkUp, Threads, Pcs
      <4>2. posted' \in Seq(Messages) /\ results' \in Nat
        BY <2>3, <3>1 DEF LinkUp, TypeOK
      <4>3. QED
        BY <1>2, <1>6, <2>3, <4>1, <4>2 DEF LinkUp
    <3>2. CASE ~Roaming(Noted(vif, e), e)
      <4>1. ConnectSucceeds(Noted(vif, e)) /\ NextEvent
        BY <2>3, <3>2 DEF LinkUp
      <4>2. QED
        BY <1>2, <1>3, <1>6, <2>2, <4>1
    <3>3. QED
      BY <3>1, <3>2
  <2>4. CASE LinkDown(e)
    <3>1. NextEvent
      BY <2>4 DEF LinkDown
    <3>2. CASE NotMine(e)
      BY <1>1, <1>2, <1>6, <2>4, <3>1, <3>2, VifTypes DEF LinkDown, TypeOK
    <3>3. CASE ~NotMine(e) /\ vif.connected
      <4>1. NoFlags(Answering(vif)) \in Vifs
        BY <1>1, VifTypes
      <4>2. vif' \in Vifs /\ Goes("event", "disassoc") /\ ConnectDoneFailed(vif)
        BY <2>4, <3>3, <4>1 DEF LinkDown, Vifs
      <4>3. th' \in [Threads -> ThreadStates]
        BY <4>2, GoesTypes DEF Threads, Pcs
      <4>4. QED
        BY <1>2, <1>4, <1>6, <3>1, <4>2, <4>3
    <3>4. CASE ~NotMine(e) /\ ~vif.connected
      BY <1>2, <1>4, <1>5, <1>6, <2>4, <3>1, <3>4 DEF LinkDown
    <3>5. QED
      BY <3>2, <3>3, <3>4
  <2>5. CASE NoNetwork(e)
    <3>1. vif' \in Vifs
      BY <1>1, <2>5, VifTypes DEF NoNetwork
    <3>2. QED
      BY <1>2, <1>4, <1>6, <2>5, <3>1 DEF NoNetwork, TypeOK
  <2>6. CASE Other(e)
    BY <1>2, <1>6, <2>2, <2>6 DEF Other, TypeOK
  <2>7. CASE RoamingStatus(e)
    <3>1. CASE ~vif.connected
      BY <1>1, <1>2, <1>3, <1>6, <2>7, <3>1 DEF RoamingStatus
    <3>2. CASE vif.connected /\ vif.ft
      <4>1. vif' \in Vifs
        BY <1>1, <2>1, <2>7, <3>2 DEF RoamingStatus, Vifs
      <4>2. th' \in [Threads -> ThreadStates]
        BY <2>7, <3>2, GoesTypes DEF RoamingStatus, Threads, Pcs
      <4>3. QED
        BY <1>2, <1>6, <2>7, <3>2, <4>1, <4>2 DEF RoamingStatus, TypeOK
    <3>3. CASE vif.connected /\ ~vif.ft
      BY <1>2, <1>6, <2>7, <3>3 DEF RoamingStatus, TypeOK
    <3>4. QED
      BY <3>1, <3>2, <3>3
  <2>8. QED
    BY <1>6, <2>3, <2>4, <2>5, <2>6, <2>7 DEF HandlesEvent, e
<1>7. CASE Completed
  <2>1. th' \in [Threads -> ThreadStates]
    BY <1>7, GoesTypes DEF Completed, Threads, Pcs, TypeOK
  <2>2. vif' \in Vifs
    BY <1>1, <1>7 DEF Completed, Vifs
  <2>3. posted' \in Seq(Messages)
    BY <1>1, <1>7, MsgTypes DEF Completed
  <2>4. QED
    BY <1>7, <2>1, <2>2, <2>3 DEF Completed, TypeOK
<1>8. CASE Roamed
  <2>1. th' \in [Threads -> ThreadStates]
    BY <1>8, GoesTypes DEF Roamed, Threads, Pcs, TypeOK
  <2>2. Answering(vif) \in Vifs
    BY <1>1, VifTypes
  <2>3. vif' \in Vifs
    BY <1>8, <2>2 DEF Roamed, Vifs
  <2>4. posted' \in Seq(Messages)
    BY <1>1, <1>8, MsgTypes DEF Roamed, TypeOK
  <2>5. QED
    BY <1>8, <2>1, <2>3, <2>4 DEF Roamed, TypeOK, history
<1>9. CASE Disassociated
  <2>1. posted' \in Seq(Messages)
    BY <1>9, AddrTypes, MsgTypes DEF Disassociated
  <2>2. /\ fw' \in [link : Addrs, joining : BOOLEAN, key : Keys] /\ events' \in Seq(Events)
        /\ upsets' \in Nat /\ astray' \in BOOLEAN
    BY <1>9, DisassocTypes DEF Disassociated
  <2>3. LinkDownEnds(vif) /\ UNCHANGED << wdev, lock, connects, open, results, crossed >>
    BY <1>9 DEF Disassociated
  <2>4. QED
    BY <1>5, <2>1, <2>2, <2>3 DEF TypeOK
<1>10. CASE Unkeyed
  <2>1. th' \in [Threads -> ThreadStates]
    BY <1>10, GoesTypes DEF Unkeyed, Threads, Pcs, TypeOK
  <2>2. QED
    BY <1>1, <1>10, <2>1, VifTypes DEF Unkeyed, TypeOK, history
<1>11. QED
  BY <1>6, <1>7, <1>8, <1>9, <1>10 DEF EventStep

LEMMA WorkTypes == TypeOK /\ EventWork => TypeOK'
<1> SUFFICES ASSUME TypeOK, EventWork PROVE TypeOK'
  OBVIOUS
<1> DEFINE m == Head(posted)
<1>1. posted \in Seq(Messages) /\ posted # << >>
  BY DEF TypeOK, EventWork
<1>2. m \in Messages /\ Tail(posted) \in Seq(Messages)
  BY <1>1
<1>3. m.bss \in Addrs
  BY <1>2 DEF Messages
<1> HIDE DEF m
<1>4. ConnectResult(m) \/ RoamResult(m) \/ DisconnectResult(m)
  BY DEF EventWork, m
<1>5. wdev' \in [connected : BOOLEAN, ssid : BOOLEAN, addr : Addrs]
  BY <1>3, <1>4 DEF ConnectResult, RoamResult, DisconnectResult, TypeOK
<1>6. posted' \in Seq(Messages) /\ lock' \in {"free", "work"} /\ open' = FALSE
  BY <1>2 DEF EventWork
<1>7. UNCHANGED << vif, fw, events, th, connects, upsets, results, crossed, astray >>
  BY DEF EventWork
<1>8. QED
  BY <1>5, <1>6, <1>7 DEF TypeOK

LEMMA FwTypes == TypeOK /\ FwStep => TypeOK'
<1> SUFFICES ASSUME TypeOK, FwStep PROVE TypeOK'
  OBVIOUS
<1>1. ASSUME Firmware, fw' \in [link : Addrs, joining : BOOLEAN, key : Keys],
             events' \in Seq(Events), upsets' \in Nat
      PROVE  TypeOK'
  BY <1>1 DEF Firmware, history, TypeOK
<1>2. upsets \in Nat /\ upsets + 1 \in Nat /\ fw.link \in Addrs
  BY DEF TypeOK
<1>3. ASSUME NEW b \in Bsses, FwJoins(b) \/ FwRoams(b) PROVE TypeOK'
  <2>1. PICK tr \in BOOLEAN : Linked(b, tr)
    BY <1>3 DEF FwJoins, FwRoams
  <2>2. fw' \in [link : Addrs, joining : BOOLEAN, key : Keys] /\ events' \in Seq(Events)
    BY <2>1, LinkedTypes
  <2>3. QED
    BY <1>1, <1>2, <1>3, <2>2 DEF FwJoins, FwRoams, Upset
<1>4. ASSUME NEW b \in Bsses, FwBadKey(b) PROVE TypeOK'
  <2>1. fw' \in [link : Addrs, joining : BOOLEAN, key : Keys]
    BY <1>4, AddrTypes DEF FwBadKey, TypeOK
  <2>2. Event("up", b) \in Events /\ Event("badkey", b) \in Events /\ Event("down", b) \in Events
    BY AddrTypes, EventTypes
  <2>3. << Event("up", b), Event("badkey", b), Event("down", b) >> \in Seq(Events)
    BY <2>2
  <2>4. events' \in Seq(Events)
    BY <1>4, <2>3 DEF FwBadKey, TypeOK
  <2>5. QED
    BY <1>1, <1>2, <1>4, <2>1, <2>4 DEF FwBadKey
<1>5. CASE FwFails
  <2>1. fw' \in [link : Addrs, joining : BOOLEAN, key : Keys]
    BY <1>5, AddrTypes DEF FwFails, TypeOK
  <2>2. events' \in Seq(Events)
    BY <1>2, <1>5, AddrTypes, EventTypes DEF FwFails
  <2>3. QED
    BY <1>1, <1>2, <1>5, <2>1, <2>2 DEF FwFails
<1>6. CASE FwLost
  <2>1. fw' \in [link : Addrs, joining : BOOLEAN, key : Keys]
    BY <1>6, AddrTypes DEF FwLost, TypeOK
  <2>2. events' \in Seq(Events)
    BY <1>2, <1>6, EventTypes DEF FwLost
  <2>3. QED
    BY <1>1, <1>2, <1>6, <2>1, <2>2 DEF FwLost, Upset
<1>7. QED
  BY <1>3, <1>4, <1>5, <1>6 DEF FwStep

LEMMA TypeInv == TypeOK /\ [Next]_vars => TypeOK'
<1> SUFFICES ASSUME TypeOK, [Next]_vars PROVE TypeOK'
  OBVIOUS
<1>1. CASE UNCHANGED vars
  BY <1>1 DEF vars, history, TypeOK
<1>2. QED
  BY <1>1, CallTypes, EventTypesKept, WorkTypes, FwTypes DEF Next

-----------------------------------------------------------------------------
(* What is still to come.  Steps of the firmware and of the work item do   *)
(* not touch it.                                                           *)

LEMMA CountTypes ==
  /\ \A b \in BOOLEAN : Count(b) \in Nat /\ Count(b) \in {0, 1}
  /\ Count(TRUE) = 1 /\ Count(FALSE) = 0
  BY DEF Count

(* A step of the worker of events: it holds no call, and what it answers   *)
(* it has taken.                                                           *)
LEMMA WorkerKeeps ==
  ASSUME IInv, TypeOK', NEW pc \in {"idle", "complete", "roamed", "disassoc", "unkey"},
         th' = [th EXCEPT !["event"].pc = pc], lock' = lock, connects' = connects,
         results' + Count(vif'.connecting) + Count(pc = "complete")
           <= results + Count(vif.connecting) + Count(th["event"].pc = "complete")
  PROVE  IInv'
<1>1. th'["call"] = th["call"] /\ th'["event"].pc = pc
  BY DEF IInv, TypeOK, Threads, ThreadStates
<1>2. OneCall' /\ InItsCode'
  BY <1>1 DEF IInv, OneCall, InItsCode
<1>3. Owed'
  <2>1. /\ results \in Nat /\ results' \in Nat /\ connects \in Nat
        /\ vif.connecting \in BOOLEAN /\ vif'.connecting \in BOOLEAN
    BY DEF IInv, TypeOK, Vifs
  <2>2. /\ Count(vif.connecting) \in Nat /\ Count(vif'.connecting) \in Nat
        /\ Count(th["call"].pc = "elements") \in Nat
        /\ Count(th["event"].pc = "complete") \in Nat /\ Count(pc = "complete") \in Nat
    BY <2>1, CountTypes
  <2>3. /\ Owed <=> results + (Count(vif.connecting) + Count(th["call"].pc = "elements")
                       + Count(th["event"].pc = "complete")) <= connects
        /\ Owed' <=> results' + (Count(vif'.connecting) + Count(th["call"].pc = "elements")
                       + Count(pc = "complete")) <= connects
    BY <1>1 DEF Owed, ToCome
  <2>4. QED
    BY <2>1, <2>2, <2>3 DEF IInv
<1>4. QED
  BY <1>2, <1>3 DEF IInv

LEMMA VifBits ==
  ASSUME NEW v \in Vifs
  PROVE  /\ NoFlags(v).connecting = v.connecting /\ InitProf(v).connecting = v.connecting
         /\ Answering(v).connecting = FALSE
         /\ \A e \in Events : Noted(v, e).connecting = v.connecting
<1>1. /\ NoFlags(v).connecting = v.connecting /\ InitProf(v).connecting = v.connecting
      /\ Answering(v).connecting = FALSE
  BY DEF NoFlags, InitProf, Answering, Vifs
<1>2. ASSUME NEW e \in Events PROVE Noted(v, e).connecting = v.connecting
  <2>1. Seen(v, e) \in Vifs /\ Seen(v, e).connecting = v.connecting
    <3>1. Seen(v, e).connecting = v.connecting
      BY DEF Seen, Vifs
    <3>2. QED
      BY <3>1, VifTypes
  <2>2. NoFlags(Seen(v, e)).connecting = v.connecting
    BY <2>1 DEF NoFlags, Vifs
  <2>3. QED
    BY <2>1, <2>2 DEF Noted
<1>3. QED
  BY <1>1, <1>2

LEMMA EventKeeps == IInv /\ TypeOK' /\ EventStep => IInv'
<1> SUFFICES ASSUME IInv, TypeOK', EventStep PROVE IInv'
  OBVIOUS
<1>1. /\ TypeOK /\ vif \in Vifs /\ results \in Nat /\ results' \in Nat
      /\ vif.connecting \in BOOLEAN /\ vif'.connecting \in BOOLEAN
      /\ th \in [Threads -> ThreadStates]
  BY DEF IInv, TypeOK, Vifs
<1>2. th = [th EXCEPT !["event"].pc = th["event"].pc]
  BY <1>1 DEF ThreadStates, Threads
<1>3. /\ Count(vif.connecting) \in Nat /\ Count(vif'.connecting) \in Nat
      /\ Count("idle" = "complete") = 0 /\ Count("roamed" = "complete") = 0
      /\ Count("disassoc" = "complete") = 0 /\ Count("unkey" = "complete") = 0
      /\ Count("complete" = "complete") = 1
  BY <1>1, CountTypes DEF Count
<1>4. ASSUME th["event"].pc = "idle", lock' = lock, connects' = connects,
             NEW v \in Vifs, v.connecting = vif.connecting, ConnectSucceeds(v)
      PROVE  IInv'
  <2>1. vif'.connecting = FALSE /\ results' = results
    BY <1>4, VifBits DEF ConnectSucceeds
  <2>2. CASE v.connecting
    <3>1. th' = [th EXCEPT !["event"].pc = "complete"]
      BY <1>4, <2>2 DEF ConnectSucceeds, Goes
    <3>2. Count(vif.connecting) = 1 /\ Count(vif'.connecting) = 0
      BY <1>4, <2>1, <2>2 DEF Count
    <3>3. QED
      BY <1>1, <1>3, <1>4, <2>1, <3>1, <3>2, WorkerKeeps
  <2>3. CASE ~v.connecting
    <3>1. th' = [th EXCEPT !["event"].pc = "idle"]
      BY <1>2, <1>4, <2>3 DEF ConnectSucceeds
    <3>2. Count(vif'.connecting) = 0
      BY <2>1 DEF Count
    <3>3. QED
      BY <1>1, <1>3, <1>4, <2>1, <3>1, <3>2, WorkerKeeps
  <2>4. QED
    BY <2>2, <2>3
<1>5. ASSUME th["event"].pc = "idle", lock' = lock, connects' = connects,
             NEW pc \in {"idle", "disassoc", "unkey", "roamed"}, th' = [th EXCEPT !["event"].pc = pc],
             results' + Count(vif'.connecting) <= results + Count(vif.connecting)
      PROVE  IInv'
  <2>1. Count(pc = "complete") = 0 /\ Count(th["event"].pc = "complete") = 0
    BY <1>5 DEF Count
  <2>2. results' + Count(vif'.connecting) + Count(pc = "complete")
          <= results + Count(vif.connecting) + Count(th["event"].pc = "complete")
    BY <1>1, <1>3, <1>5, <2>1
  <2>3. QED
    BY <1>5, <2>2, WorkerKeeps
<1>6. ASSUME ConnectDoneFailed(vif), vif'.connecting = FALSE
      PROVE  results' + Count(vif'.connecting) <= results + Count(vif.connecting)
  <2>1. Count(vif'.connecting) = 0
    BY <1>6 DEF Count
  <2>2. CASE vif.connecting
    <3>1. Count(vif.connecting) = 1 /\ results' = results + 1
      BY <1>6, <2>2 DEF ConnectDoneFailed, Count
    <3>2. QED
      BY <1>1, <2>1, <3>1
  <2>3. CASE ~vif.connecting
    <3>1. results' = results
      BY <1>6, <2>3 DEF ConnectDoneFailed
    <3>2. QED
      BY <1>1, <1>3, <2>1, <3>1
  <2>4. QED
    BY <2>2, <2>3
<1>7. ASSUME LinkDownEnds(vif)
      PROVE  /\ vif'.connecting = FALSE
             /\ \E pc \in {"idle", "unkey"} : th' = [th EXCEPT !["event"].pc = pc]
  <2>1. Answering(vif) \in Vifs /\ NoFlags(Answering(vif)) \in Vifs
    BY <1>1, VifTypes
  <2>2. /\ NoFlags(Answering(vif)).connecting = FALSE
        /\ InitProf(NoFlags(Answering(vif))).connecting = FALSE
    BY <1>1, <2>1, VifBits
  <2>3. QED
    BY <1>7, <2>2 DEF LinkDownEnds, Goes
<1>8. CASE events # << >> /\ HandlesEvent(Head(events))
  <2> DEFINE e == Head(events)
  <2>1. e \in Events
    <3>1. events \in Seq(Events) /\ events # << >>
      BY <1>1, <1>8 DEF TypeOK
    <3>2. QED
      BY <3>1
  <2> HIDE DEF e
  <2>2. NextEvent
    BY <1>8 DEF HandlesEvent, LinkUp, LinkDown, NoNetwork, Other, RoamingStatus
  <2>3. th["event"].pc = "idle" /\ lock' = lock /\ connects' = connects
    BY <1>8, <2>2 DEF NextEvent, HandlesEvent, LinkUp, LinkDown, NoNetwork, Other, RoamingStatus
  <2>4. CASE LinkUp(e)
    <3>1. Noted(vif, e) \in Vifs /\ Noted(vif, e).connecting = vif.connecting
      BY <1>1, <2>1, VifTypes, VifBits
    <3>2. CASE Roaming(Noted(vif, e), e)
      <4>1. /\ vif'.connecting = vif.connecting /\ results' = results
            /\ th' = [th EXCEPT !["event"].pc = "roamed"]
        BY <2>4, <3>1, <3>2 DEF LinkUp, Goes
      <4>2. QED
        BY <1>1, <1>3, <1>5, <2>3, <4>1
    <3>3. CASE ~Roaming(Noted(vif, e), e)
      BY <1>4, <2>3, <2>4, <3>1, <3>3 DEF LinkUp
    <3>4. QED
      BY <3>2, <3>3
  <2>5. CASE LinkDown(e)
    <3>1. CASE NotMine(e)
      <4>1. vif'.connecting = vif.connecting /\ results' = results /\ th' = th
        BY <1>1, <2>5, <3>1, VifBits DEF LinkDown
      <4>2. QED
        BY <1>1, <1>2, <1>3, <1>5, <2>3, <4>1
    <3>2. CASE ~NotMine(e) /\ vif.connected
      <4>1. ConnectDoneFailed(vif) /\ th' = [th EXCEPT !["event"].pc = "disassoc"]
        BY <2>5, <3>2 DEF LinkDown, Goes
      <4>2. NoFlags(Answering(vif)) \in Vifs /\ NoFlags(Answering(vif)).connecting = FALSE
        BY <1>1, VifTypes, VifBits
      <4>3. vif'.connecting = FALSE
        BY <2>5, <3>2, <4>2 DEF LinkDown, Vifs
      <4>4. QED
        BY <1>5, <1>6, <2>3, <4>1, <4>3
    <3>3. CASE ~NotMine(e) /\ ~vif.connected
      <4>1. ConnectDoneFailed(vif) /\ LinkDownEnds(vif)
        BY <2>5, <3>3 DEF LinkDown
      <4>2. QED
        BY <1>5, <1>6, <1>7, <2>3, <4>1
    <3>4. QED
      BY <3>1, <3>2, <3>3
  <2>6. CASE NoNetwork(e)
    <3>1. ConnectDoneFailed(vif) /\ th' = th
      BY <2>6 DEF NoNetwork
    <3>2. Answering(vif) \in Vifs /\ NoFlags(Answering(vif)).connecting = FALSE
      BY <1>1, VifTypes, VifBits
    <3>3. vif'.connecting = FALSE
      BY <1>1, <2>6, <3>2 DEF NoNetwork
    <3>4. QED
      BY <1>2, <1>5, <1>6, <2>3, <3>1, <3>3
  <2>7. CASE Other(e)
    <3>1. vif'.connecting = vif.connecting /\ results' = results /\ th' = th
      BY <1>1, <2>1, <2>7, VifBits DEF Other
    <3>2. QED
      BY <1>1, <1>2, <1>3, <1>5, <2>3, <3>1
  <2>8. CASE RoamingStatus(e)
    <3>1. CASE ~vif.connected
      BY <1>1, <1>4, <2>3, <2>8, <3>1 DEF RoamingStatus
    <3>2. CASE vif.connected
      <4>1. vif'.connecting = vif.connecting /\ results' = results
        BY <1>1, <2>8, <3>2 DEF RoamingStatus, Vifs
      <4>2. PICK pc \in {"idle", "roamed"} : th' = [th EXCEPT !["event"].pc = pc]
        BY <1>2, <2>3, <2>8, <3>2 DEF RoamingStatus, Goes
      <4>3. results' + Count(vif'.connecting) <= results + Count(vif.connecting)
        BY <1>1, <1>3, <4>1
      <4>4. QED
        BY <1>5, <2>3, <4>2, <4>3
    <3>3. QED
      BY <3>1, <3>2
  <2>9. QED
    BY <1>8, <2>4, <2>5, <2>6, <2>7, <2>8 DEF HandlesEvent, e
<1>9. CASE Completed
  <2>1. th["event"].pc = "complete" /\ th' = [th EXCEPT !["event"].pc = "idle"]
    BY <1>9 DEF Completed, Goes
  <2>2. vif'.connecting = vif.connecting /\ results' = results + 1 /\ lock' = lock /\ connects' = connects
    BY <1>1, <1>9 DEF Completed, Vifs
  <2>3. QED
    BY <1>1, <1>3, <2>1, <2>2, WorkerKeeps
<1>10. CASE Roamed \/ Disassociated \/ Unkeyed
  <2>1. th["event"].pc # "complete" /\ lock' = lock /\ connects' = connects /\ results' = results
    BY <1>10 DEF Roamed, Disassociated, Unkeyed, history
  <2>2. PICK pc \in {"idle", "unkey"} : th' = [th EXCEPT !["event"].pc = pc]
    BY <1>7, <1>10 DEF Roamed, Disassociated, Unkeyed, Goes
  <2>3. vif'.connecting = FALSE \/ vif'.connecting = vif.connecting
    <3>1. Answering(vif) \in Vifs /\ Answering(vif).connecting = FALSE
      BY <1>1, VifTypes, VifBits
    <3>2. InitProf(vif).connecting = vif.connecting
      BY <1>1, VifBits
    <3>3. QED
      BY <1>7, <1>10, <3>1, <3>2 DEF Roamed, Disassociated, Unkeyed, Vifs
  <2>4. Count(vif'.connecting) <= Count(vif.connecting)
    BY <1>1, <2>3 DEF Count
  <2>5. Count(pc = "complete") = 0 /\ Count(th["event"].pc = "complete") = 0
    BY <2>1, <2>2 DEF Count
  <2>6. results' + Count(vif'.connecting) + Count(pc = "complete")
          <= results + Count(vif.connecting) + Count(th["event"].pc = "complete")
    BY <1>1, <1>3, <2>1, <2>4, <2>5
  <2>7. QED
    BY <1>1, <2>1, <2>2, <2>6, WorkerKeeps
<1>11. QED
  BY <1>8, <1>9, <1>10 DEF EventStep

(* A step of a call: the worker of events is where it was.                 *)
LEMMA CallKeeps == IInv /\ TypeOK' /\ CallStep => IInv'
<1> SUFFICES ASSUME IInv, TypeOK', CallStep PROVE IInv'
  OBVIOUS
<1>1. /\ TypeOK /\ vif \in Vifs /\ results \in Nat /\ connects \in Nat /\ connects' \in Nat
      /\ vif.connecting \in BOOLEAN /\ vif'.connecting \in BOOLEAN
      /\ th \in [Threads -> ThreadStates] /\ "call" \in Threads /\ "event" \in Threads
  BY DEF IInv, TypeOK, Vifs, Threads
<1>2. /\ Count(vif.connecting) \in {0, 1} /\ Count(vif'.connecting) \in {0, 1}
      /\ Count(th["call"].pc = "elements") \in {0, 1}
      /\ Count(th["event"].pc = "complete") \in {0, 1}
  BY <1>1, CountTypes
<1>3. ASSUME NEW pc \in {"idle", "elements", "keys", "join", "leave"},
             th'["call"].pc = pc, th'["event"] = th["event"], results' = results,
             lock' = IF pc = "idle" THEN "free" ELSE "call",
             Count(vif'.connecting) + Count(pc = "elements") + connects
               <= Count(vif.connecting) + Count(th["call"].pc = "elements") + connects'
      PROVE  IInv'
  <2>1. OneCall' /\ InItsCode'
    BY <1>3 DEF IInv, OneCall, InItsCode
  <2>2. Count(pc = "elements") \in {0, 1}
    BY CountTypes
  <2>3. /\ Owed <=> results + (Count(vif.connecting) + Count(th["call"].pc = "elements")
                       + Count(th["event"].pc = "complete")) <= connects
        /\ Owed' <=> results + (Count(vif'.connecting) + Count(pc = "elements")
                       + Count(th["event"].pc = "complete")) <= connects'
    BY <1>3 DEF Owed, ToCome
  <2>4. Owed'
    BY <1>1, <1>2, <1>3, <2>2, <2>3 DEF IInv
  <2>5. QED
    BY <2>1, <2>4 DEF IInv
<1>4. /\ Count("idle" = "elements") = 0 /\ Count("elements" = "elements") = 1
      /\ Count("keys" = "elements") = 0 /\ Count("join" = "elements") = 0
      /\ Count("leave" = "elements") = 0
  BY DEF Count
<1>5. lock = "free" => th["call"].pc = "idle"
  BY DEF IInv, OneCall
<1>6. th["call"].pc # "idle" => lock = "call"
  BY DEF IInv, OneCall
<1>7. ASSUME NEW key \in Keys, NEW prev \in BOOLEAN, CfgConnect(key, prev) PROVE IInv'
  <2>1. results' = results /\ lock' = "call" /\ connects' = connects + 1
    BY <1>7 DEF CfgConnect
  <2>2. Count(th["call"].pc = "elements") = 0
    BY <1>5, <1>7 DEF CfgConnect, Count
  <2>3. CASE key \in Ft /\ prev
    <3>1. th'["call"].pc = "join" /\ th'["event"] = th["event"]
      BY <1>1, <1>7, <2>3 DEF CfgConnect
    <3>2. QED
      BY <1>1, <1>2, <1>3, <1>4, <2>1, <2>2, <3>1
  <2>4. CASE ~(key \in Ft /\ prev)
    <3>1. th'["call"].pc = "elements" /\ th'["event"] = th["event"] /\ vif' = vif
      BY <1>1, <1>7, <2>4 DEF CfgConnect
    <3>2. QED
      BY <1>1, <1>2, <1>3, <1>4, <2>1, <2>2, <3>1
  <2>5. QED
    BY <2>3, <2>4
<1>8. CASE Elements
  <2>1. /\ results' = results /\ connects' = connects /\ lock' = "call"
        /\ Count(th["call"].pc = "elements") = 1
    BY <1>6, <1>8 DEF Elements, history, Count
  <2>2. th'["call"].pc = "keys" /\ th'["event"] = th["event"]
    BY <1>1, <1>8 DEF Elements, Goes, ThreadStates
  <2>3. QED
    BY <1>1, <1>2, <1>3, <1>4, <2>1, <2>2
<1>9. CASE KeyMgmt
  <2>1. results' = results /\ connects' = connects /\ lock' = "call" /\ vif'.connecting = vif.connecting
    BY <1>1, <1>6, <1>9 DEF KeyMgmt, WithKey, history, Vifs
  <2>2. th'["call"].pc = "join" /\ th'["event"] = th["event"]
    BY <1>1, <1>9 DEF KeyMgmt, Goes, ThreadStates
  <2>3. QED
    BY <1>1, <1>2, <1>3, <1>4, <2>1, <2>2
<1>10. CASE Join \/ ConnectFails \/ Left
  <2>1. results' = results /\ connects' = connects /\ lock' = "free"
    BY <1>10 DEF Join, ConnectFails, Left, CallReturns, history
  <2>2. th'["call"].pc = "idle" /\ th'["event"] = th["event"]
    BY <1>1, <1>10 DEF Join, ConnectFails, Left, CallReturns, Idle
  <2>3. vif'.connecting = vif.connecting \/ vif'.connecting = FALSE
    <3>1. "open" \in Keys /\ th["call"].key \in Keys
      BY <1>1 DEF Keys, ThreadStates
    <3>2. \A v \in Vifs : Withdrawn(v).connecting = FALSE
      BY DEF Withdrawn, Vifs
    <3>3. \A key \in Keys : WithKey(vif, key) \in Vifs
      BY <1>1, VifTypes
    <3>4. QED
      BY <1>1, <1>10, <3>1, <3>2, <3>3 DEF Join, ConnectFails, Left
  <2>4. Count(vif'.connecting) <= Count(vif.connecting)
    BY <1>1, <2>3 DEF Count
  <2>5. QED
    BY <1>1, <1>2, <1>3, <1>4, <2>1, <2>2, <2>4
<1>11. CASE CfgDisconnect
  <2>1. results' = results /\ connects' = connects /\ lock' = "call"
    BY <1>11 DEF CfgDisconnect
  <2>2. th'["call"].pc = "leave" /\ th'["event"] = th["event"]
    BY <1>1, <1>11 DEF CfgDisconnect, Goes, ThreadStates
  <2>3. NoFlags(vif) \in Vifs
    BY <1>1, VifTypes
  <2>4. vif'.connecting = FALSE
    BY <1>11, <2>3 DEF CfgDisconnect, Vifs
  <2>5. Count(vif'.connecting) = 0
    BY <2>4 DEF Count
  <2>6. QED
    BY <1>1, <1>2, <1>3, <1>4, <2>1, <2>2, <2>5
<1>12. CASE Refused
  <2>1. UNCHANGED << vif, th, lock, connects, results >>
    BY <1>12 DEF Refused
  <2>2. QED
    BY <2>1 DEF IInv, Owed, ToCome, OneCall, InItsCode
<1>13. QED
  BY <1>7, <1>8, <1>9, <1>10, <1>11, <1>12 DEF CallStep

THEOREM NextInv == IInv /\ [Next]_vars => IInv'
<1> SUFFICES ASSUME IInv, [Next]_vars PROVE IInv'
  OBVIOUS
<1>1. TypeOK'
  BY TypeInv DEF IInv
<1>2. CASE EventWork
  <2>1. UNCHANGED << vif, th, connects, results >>
    BY <1>2 DEF EventWork
  <2>2. lock # "call" /\ lock' # "call"
    BY <1>2 DEF EventWork
  <2>3. QED
    BY <1>1, <2>1, <2>2 DEF IInv, Owed, ToCome, OneCall, InItsCode
<1>3. CASE FwStep \/ UNCHANGED vars
  <2>1. UNCHANGED << vif, th, lock, connects, results >>
    BY <1>3 DEF FwStep, FwJoins, FwBadKey, FwRoams, FwFails, FwLost, Firmware, history, vars
  <2>2. QED
    BY <1>1, <2>1 DEF IInv, Owed, ToCome, OneCall, InItsCode
<1>4. QED
  BY <1>1, <1>2, <1>3, EventKeeps, CallKeeps DEF Next

-----------------------------------------------------------------------------
(* IInv is an invariant of the specification. *)
THEOREM Inductive == Spec => []IInv
<1>1. QED
  BY InitInv, NextInv, PTL DEF Spec

(* Records keep their types. *)
THEOREM Types == Spec => []TypeOK
<1>1. IInv => TypeOK
  BY DEF IInv
<1>2. QED
  BY <1>1, Inductive, PTL

(* brcmf_bss_connect_done takes the bit with test_and_clear_bit, and only  *)
(* a new request sets it: a request has at most one result.                *)
THEOREM Once == Spec => []ResultsOnce
<1>1. IInv => ResultsOnce
  <2> SUFFICES ASSUME IInv PROVE ResultsOnce
    OBVIOUS
  <2>1. /\ results \in Nat /\ connects \in Nat
        /\ Count(vif.connecting) \in Nat /\ Count(th["call"].pc = "elements") \in Nat
        /\ Count(th["event"].pc = "complete") \in Nat
    BY CountTypes DEF IInv, TypeOK, Vifs
  <2>2. QED
    BY <2>1 DEF IInv, Owed, ToCome, ResultsOnce
<1>2. QED
  BY <1>1, Inductive, PTL

(* A system call that sleeps in the driver keeps the wiphy mutex, so that  *)
(* the work item of cfg80211 finds it either before or after its changes.  *)
THEOREM Mutex == Spec => []OneCall
<1>1. IInv => OneCall
  BY DEF IInv
<1>2. QED
  BY <1>1, Inductive, PTL

-----------------------------------------------------------------------------
(* Where a connection is on its way, while no request has crossed with     *)
(* something of an earlier one and no DISASSOC failed with something to    *)
(* end.  The driver holds a connection that it told or is about to tell    *)
(* (Attached), or awaits the end of a join (Awaited); a call that sleeps   *)
(* may have set the bit before its join (Calling).  A connection is Doomed *)
(* when its end is already certain.                                        *)
Ev == th["event"].pc
Calling == th["call"].pc \in {"elements", "keys", "join"}
Leave == th["call"].pc = "leave"
Attached == vif.connected \/ Ev \in {"complete", "roamed"}
Awaited == vif.connecting /\ ~Calling
Lively == Attached \/ Awaited

(* Queues: a code or a type in them; a link after n events only when the   *)
(* one before was lost; the last of the losses.                            *)
Has(s, codes) == \E j \in DOMAIN s : s[j].code \in codes
Told(p, types) == \E j \in DOMAIN p : p[j].type \in types
Relinked(s, n) ==
  \A j \in DOMAIN s : s[j].code = "up" /\ j > n =>
     \E i \in DOMAIN s : i < j /\ s[i].code = "down"
LossLast(s) == \A j \in DOMAIN s : s[j].code = "down" => j = Len(s)
EndsIn(s, codes) == s[Len(s)].code \in codes
Second(s, codes) == Len(s) > 1 /\ s[2].code \in codes
Doomed == Leave \/ Has(events, {"down"})

(* A driver at access point a that handles s ends at b: it takes over what *)
(* is announced, and each loss is that of the access point it is at.       *)
Carries(e) == e.code \in {"up", "roam"}
After(e, a) == IF Carries(e) THEN e.bss ELSE a
Leads(s, a, b) ==
  \E p \in [0 .. Len(s) -> Addrs] :
    /\ p[0] = a /\ p[Len(s)] = b
    /\ \A j \in DOMAIN s : p[j] = After(s[j], p[j - 1]) /\ (s[j].code = "down" => s[j].bss = p[j - 1])

(* What cfg80211 comes to believe: no connection, after the last           *)
(* disconnection; the access point of the last message.                    *)
OverAtLast(p) ==
  \E j \in DOMAIN p : /\ p[j].type = "disconnected"
                      /\ \A i \in DOMAIN p : i > j => p[i].type # "connected"
Latest(p, a) == IF p = << >> THEN a ELSE p[Len(p)].bss

(* The driver and the firmware: flags and keys, the way to the access      *)
(* point, and what is in the queue of events.                              *)
Profile(key) == vif.sup = (key \in FwSup) /\ vif.ft = (key \in Ft)
Reset == fw.key = "psk" /\ ~vif.sup /\ ~vif.ft    \* by a request to re-associate that failed
Flags == ~(vif.eap /\ vif.assoc)
Keyed == Lively => Profile(fw.key) \/ (Reset /\ ~Awaited)
Ebb ==
  fw.link = NoBss =>
    IF events = << >> THEN Attached \/ (~vif.eap /\ ~vif.assoc)
    ELSE EndsIn(events, {"down", "fail"})
Route == Lively => \E b \in Addrs : Leads(events, vif.bssid, b) /\ (fw.link # NoBss => b = fw.link)
Ends ==
  Lively /\ fw.link = NoBss =>
    \/ Has(events, {"down"})
    \/ ~Attached /\ fw.joining /\ events = << >>
    \/ ~Attached /\ events # << >> /\ Head(events).code = "fail"
Codes ==
  /\ Has(events, {"roam"}) => fw.key \in Ft
  /\ Has(events, {"badkey", "fail"}) => fw.link = NoBss /\ ~fw.joining
  /\ fw.key \in Ft /\ Attached => Relinked(events, 0)
  /\ fw.key \in Ft /\ Awaited =>
       Relinked(events, 1) \/ (Relinked(events, 2) /\ vif.sup /\ ~vif.eap /\ ~vif.assoc)
Joining ==
  fw.joining =>
    /\ ~Has(events, {"up", "sup", "badkey", "fail", "roam"})
    /\ Ev \in {"idle", "disassoc"} /\ ~Calling
    /\ vif.connecting \/ Ev = "disassoc" \/ Leave
Held ==
  fw.link # NoBss =>
    Attached \/ (vif.connecting /\ ~fw.joining /\ events # << >>) \/ Ev = "disassoc" \/ Leave

(* The worker, and the end of a join that the driver waits for.            *)
Worker ==
  /\ Ev \in {"complete", "disassoc", "unkey"} /\ vif.connecting => Calling
  /\ Ev \in {"disassoc", "unkey"} => ~vif.connected
  /\ Leave => ~vif.connecting
Answer ==
  LET c == Head(events).code
  IN  /\ c = "up" => fw.key \notin FwSup \/ vif.eap \/ Second(events, {"sup", "badkey"})
      /\ c = "sup" => fw.key \in FwSup /\ (vif.assoc \/ Second(events, {"up"}))
      /\ c \in {"down", "roam"} => Attached
      /\ c = "fail" => ~Attached
WillAnswer ==
  Awaited /\ Ev = "idle" => IF events = << >> THEN fw.joining ELSE Answer

(* The calls, which keep the work item of cfg80211 out.                    *)
Call ==
  Calling =>
    /\ wdev.ssid
    /\ ~Attached => fw.link = NoBss /\ events = << >>
    /\ Attached => /\ wdev.connected /\ th["call"].key = fw.key
                   /\ th["call"].pc # "join" => fw.key \notin Ft
    /\ ~Has(events, {"fail"}) /\ LossLast(events)
    /\ Has(events, {"down"}) => fw.link = NoBss
    /\ Ev = "unkey" => posted # << >>
    /\ th["call"].pc # "elements" => vif.connecting \/ posted # << >> \/ Ev = "complete"
    /\ th["call"].pc = "join" => Profile(th["call"].key) \/ posted # << >> \/ Ev # "idle"

(* What cfg80211 is told.                                                  *)
ToldLink ==
  Attached /\ ~Doomed =>
    /\ wdev.ssid /\ ~Told(posted, {"failed", "disconnected"})
    /\ \/ wdev.connected
       \/ posted # << >> /\ Head(posted).type = "connected"
       \/ posted = << >> /\ Ev = "complete"
    /\ Ev = "idle" /\ fw.key # "psk" => vif.bssid = Latest(posted, wdev.addr)
ToldEnd ==
  ~Attached /\ Ev # "disassoc" =>
    \/ OverAtLast(posted)
    \/ /\ ~wdev.connected /\ ~Told(posted, {"connected"})
       /\ wdev.ssid => vif.connecting \/ Calling \/ Told(posted, {"failed"})
Fresh == Awaited /\ ~Attached => posted = << >> /\ wdev.ssid
Opened ==
  open => wdev.ssid /\ ~Calling /\ ~Leave /\ (vif.connecting \/ Ev = "complete" \/ posted # << >>)

Driver == Flags /\ Keyed /\ Ebb /\ Route /\ Ends /\ Codes /\ Joining /\ Held /\ Worker /\ WillAnswer
Cfg == Call /\ ToldLink /\ ToldEnd /\ Fresh /\ Opened
Course == crossed \/ astray \/ (Driver /\ Cfg)

-----------------------------------------------------------------------------
(* The queues when something is appended and when the head is taken.       *)

LEMMA Queue ==
  ASSUME NEW S, NEW s \in Seq(S)
  PROVE  /\ Len(s) \in Nat /\ DOMAIN s = 1 .. Len(s) /\ \A j \in DOMAIN s : s[j] \in S
         /\ \A e \in S : /\ Append(s, e) \in Seq(S) /\ Append(s, e) # << >>
                         /\ Len(Append(s, e)) = Len(s) + 1 /\ Append(s, e)[Len(s) + 1] = e
                         /\ \A j \in DOMAIN s : Append(s, e)[j] = s[j]
                         /\ Head(Append(s, e)) = IF s = << >> THEN e ELSE Head(s)
         /\ s # << >> => /\ Len(s) > 0 /\ Head(s) = s[1] /\ Head(s) \in S
                         /\ Tail(s) \in Seq(S) /\ Len(Tail(s)) = Len(s) - 1
                         /\ \A j \in 1 .. Len(s) - 1 : Tail(s)[j] = s[j + 1]
<1>1. Len(s) \in Nat /\ DOMAIN s = 1 .. Len(s) /\ \A j \in DOMAIN s : s[j] \in S
  OBVIOUS
<1>2. s # << >> => /\ Len(s) > 0 /\ Head(s) = s[1] /\ Head(s) \in S
                   /\ Tail(s) \in Seq(S) /\ Len(Tail(s)) = Len(s) - 1
                   /\ \A j \in 1 .. Len(s) - 1 : Tail(s)[j] = s[j + 1]
  OBVIOUS
<1>3. ASSUME NEW e \in S
      PROVE  /\ Append(s, e) \in Seq(S) /\ Append(s, e) # << >>
             /\ Len(Append(s, e)) = Len(s) + 1 /\ Append(s, e)[Len(s) + 1] = e
             /\ \A j \in DOMAIN s : Append(s, e)[j] = s[j]
             /\ Head(Append(s, e)) = IF s = << >> THEN e ELSE Head(s)
  OBVIOUS
<1>4. QED
  BY <1>1, <1>2, <1>3

LEMMA HasEmpty == \A C : ~Has(<< >>, C) /\ ~Told(<< >>, C)
  BY DEF Has, Told

LEMMA HasAppend ==
  ASSUME NEW s \in Seq(Events), NEW e \in Events, NEW C
  PROVE  Has(Append(s, e), C) <=> Has(s, C) \/ e.code \in C
  BY Queue DEF Has

LEMMA HasTail ==
  ASSUME NEW s \in Seq(Events), s # << >>, NEW C
  PROVE  Has(s, C) <=> Head(s).code \in C \/ Has(Tail(s), C)
<1>1. ASSUME Has(s, C), Head(s).code \notin C PROVE Has(Tail(s), C)
  <2>1. PICK j \in DOMAIN s : s[j].code \in C
    BY <1>1 DEF Has
  <2>2. j - 1 \in DOMAIN Tail(s) /\ Tail(s)[j - 1] = s[j]
    BY <1>1, <2>1, Queue
  <2>3. QED
    BY <2>1, <2>2 DEF Has
<1>2. ASSUME Has(Tail(s), C) PROVE Has(s, C)
  <2>1. PICK j \in DOMAIN Tail(s) : Tail(s)[j].code \in C
    BY <1>2 DEF Has
  <2>2. j + 1 \in DOMAIN s /\ Tail(s)[j] = s[j + 1]
    BY <2>1, Queue
  <2>3. QED
    BY <2>1, <2>2 DEF Has
<1>3. Head(s).code \in C => Has(s, C)
  BY Queue DEF Has
<1>4. QED
  BY <1>1, <1>2, <1>3

LEMMA SecondSteps ==
  ASSUME NEW s \in Seq(Events), NEW C
  PROVE  /\ \A e \in Events : Second(s, C) => Second(Append(s, e), C)
         /\ \A e \in Events : Len(s) = 1 /\ e.code \in C => Second(Append(s, e), C)
         /\ s # << >> /\ Second(s, C) => Tail(s) # << >> /\ Head(Tail(s)).code \in C
<1>1. ASSUME s # << >>, Second(s, C) PROVE Tail(s) # << >> /\ Head(Tail(s)).code \in C
  <2>1. Tail(s) \in Seq(Events) /\ Len(Tail(s)) > 0 /\ Tail(s)[1] = s[2]
    BY <1>1, Queue DEF Second
  <2>2. Head(Tail(s)) = s[2]
    BY <2>1
  <2>3. QED
    BY <1>1, <2>1, <2>2 DEF Second
<1>2. QED
  BY <1>1, Queue DEF Second

LEMMA LossSteps ==
  ASSUME NEW s \in Seq(Events)
  PROVE  /\ LossLast(<< >>)
         /\ \A e \in Events : ~Has(s, {"down"}) => LossLast(Append(s, e))
         /\ s # << >> /\ LossLast(s) => LossLast(Tail(s)) /\ (Head(s).code = "down" => Tail(s) = << >>)
<1>1. ASSUME NEW e \in Events, ~Has(s, {"down"}) PROVE LossLast(Append(s, e))
  BY <1>1, Queue DEF LossLast, Has
<1>2. ASSUME s # << >>, LossLast(s), NEW j \in DOMAIN Tail(s), Tail(s)[j].code = "down"
      PROVE  j = Len(Tail(s))
  <2>1. j + 1 \in DOMAIN s /\ Tail(s)[j] = s[j + 1] /\ Len(Tail(s)) = Len(s) - 1 /\ Len(s) \in Nat
    BY <1>2, Queue
  <2>2. j + 1 = Len(s)
    BY <1>2, <2>1 DEF LossLast
  <2>3. j \in Nat
    BY <1>2, Queue
  <2>4. QED
    BY <2>1, <2>2, <2>3
<1>3. ASSUME s # << >>, LossLast(s), Head(s).code = "down" PROVE Tail(s) = << >>
  <2>1. 1 \in DOMAIN s /\ s[1].code = "down"
    BY <1>3, Queue
  <2>2. Len(s) = 1
    BY <1>3, <2>1 DEF LossLast
  <2>3. QED
    BY <2>2, Queue
<1>4. QED
  BY <1>1, <1>2, <1>3 DEF LossLast

LEMMA ToldAppend ==
  ASSUME NEW p \in Seq(Messages), NEW m \in Messages, NEW T
  PROVE  Told(Append(p, m), T) <=> Told(p, T) \/ m.type \in T
  BY Queue DEF Told

LEMMA ToldTail ==
  ASSUME NEW p \in Seq(Messages), p # << >>, NEW T
  PROVE  Told(p, T) <=> Head(p).type \in T \/ Told(Tail(p), T)
<1>1. ASSUME Told(p, T), Head(p).type \notin T PROVE Told(Tail(p), T)
  <2>1. PICK j \in DOMAIN p : p[j].type \in T
    BY <1>1 DEF Told
  <2>2. j - 1 \in DOMAIN Tail(p) /\ Tail(p)[j - 1] = p[j]
    BY <1>1, <2>1, Queue
  <2>3. QED
    BY <2>1, <2>2 DEF Told
<1>2. ASSUME Told(Tail(p), T) PROVE Told(p, T)
  <2>1. PICK j \in DOMAIN Tail(p) : Tail(p)[j].type \in T
    BY <1>2 DEF Told
  <2>2. j + 1 \in DOMAIN p /\ Tail(p)[j] = p[j + 1]
    BY <2>1, Queue
  <2>3. QED
    BY <2>1, <2>2 DEF Told
<1>3. Head(p).type \in T => Told(p, T)
  BY Queue DEF Told
<1>4. QED
  BY <1>1, <1>2, <1>3

LEMMA LatestSteps ==
  ASSUME NEW p \in Seq(Messages), NEW a
  PROVE  /\ \A m \in Messages : Latest(Append(p, m), a) = m.bss
         /\ p # << >> => Latest(p, a) = Latest(Tail(p), Head(p).bss)
<1>1. \A m \in Messages : Latest(Append(p, m), a) = m.bss
  BY Queue DEF Latest
<1>2. ASSUME p # << >> PROVE Latest(p, a) = Latest(Tail(p), Head(p).bss)
  <2>1. /\ Len(p) \in Nat /\ Len(p) > 0 /\ Head(p) = p[1] /\ Tail(p) \in Seq(Messages)
        /\ Len(Tail(p)) = Len(p) - 1 /\ \A j \in 1 .. Len(p) - 1 : Tail(p)[j] = p[j + 1]
    BY <1>2, Queue
  <2>2. CASE Len(p) = 1
    <3>1. Tail(p) = << >>
      BY <2>2, Queue
    <3>2. QED
      BY <1>2, <2>1, <2>2, <3>1 DEF Latest
  <2>3. CASE Len(p) # 1
    <3>1. Len(Tail(p)) \in 1 .. Len(p) - 1 /\ Len(Tail(p)) + 1 = Len(p)
      BY <2>1, <2>3
    <3>2. Tail(p)[Len(Tail(p))] = p[Len(p)]
      BY <2>1, <3>1
    <3>3. ASSUME NEW q \in Seq(Messages), Len(q) \in 1 .. Len(p) - 1 PROVE q # << >>
      BY <3>3
    <3>4. Tail(p) # << >>
      BY <2>1, <3>1, <3>3
    <3>5. QED
      BY <1>2, <3>2, <3>4 DEF Latest
  <2>4. QED
    BY <2>2, <2>3
<1>3. QED
  BY <1>1, <1>2

LEMMA OverSteps ==
  ASSUME NEW p \in Seq(Messages)
  PROVE  /\ \A m \in Messages : m.type = "disconnected" => OverAtLast(Append(p, m))
         /\ \A m \in Messages : OverAtLast(p) /\ m.type # "connected" => OverAtLast(Append(p, m))
         /\ OverAtLast(p) => p # << >>
         /\ OverAtLast(p) =>
              OverAtLast(Tail(p)) \/ (Head(p).type = "disconnected" /\ ~Told(Tail(p), {"connected"}))
<1>1. ASSUME NEW m \in Messages, m.type = "disconnected" PROVE OverAtLast(Append(p, m))
  <2>1. Len(p) + 1 \in DOMAIN Append(p, m) /\ \A i \in DOMAIN Append(p, m) : ~(i > Len(p) + 1)
    BY Queue
  <2>2. QED
    BY <1>1, <2>1, Queue DEF OverAtLast
<1>2. ASSUME NEW m \in Messages, OverAtLast(p), m.type # "connected" PROVE OverAtLast(Append(p, m))
  <2>1. PICK j \in DOMAIN p : /\ p[j].type = "disconnected"
                              /\ \A i \in DOMAIN p : i > j => p[i].type # "connected"
    BY <1>2 DEF OverAtLast
  <2>2. j \in DOMAIN Append(p, m) /\ Append(p, m)[j] = p[j]
    BY Queue
  <2>3. ASSUME NEW i \in DOMAIN Append(p, m), i > j PROVE Append(p, m)[i].type # "connected"
    BY <1>2, <2>1, <2>3, Queue
  <2>4. QED
    BY <2>1, <2>2, <2>3 DEF OverAtLast
<1>3. OverAtLast(p) => p # << >>
  BY DEF OverAtLast
<1>4. ASSUME OverAtLast(p)
      PROVE  OverAtLast(Tail(p)) \/ (Head(p).type = "disconnected" /\ ~Told(Tail(p), {"connected"}))
  <2>1. PICK j \in DOMAIN p : /\ p[j].type = "disconnected"
                              /\ \A i \in DOMAIN p : i > j => p[i].type # "connected"
    BY <1>4 DEF OverAtLast
  <2>2. \A i \in DOMAIN Tail(p) : i + 1 \in DOMAIN p /\ Tail(p)[i] = p[i + 1]
    BY <1>3, <1>4, Queue
  <2>3. CASE j = 1
    <3>1. \A i \in DOMAIN Tail(p) : Tail(p)[i].type # "connected"
      BY <1>3, <1>4, <2>1, <2>2, <2>3, Queue
    <3>2. QED
      BY <1>3, <1>4, <2>1, <2>3, <3>1, Queue DEF Told
  <2>4. CASE j # 1
    <3>1. j - 1 \in DOMAIN Tail(p) /\ Tail(p)[j - 1] = p[j]
      BY <1>3, <1>4, <2>4, Queue
    <3>2. \A i \in DOMAIN Tail(p) : i > j - 1 => Tail(p)[i].type # "connected"
      BY <1>3, <1>4, <2>1, <2>2, Queue
    <3>3. QED
      BY <2>1, <3>1, <3>2 DEF OverAtLast
  <2>5. QED
    BY <2>3, <2>4
<1>5. QED
  BY <1>1, <1>2, <1>3, <1>4

LEMMA EndsInSteps ==
  ASSUME NEW s \in Seq(Events), NEW C
  PROVE  /\ \A e \in Events : EndsIn(Append(s, e), C) <=> e.code \in C
         /\ s # << >> /\ EndsIn(s, C) => IF Tail(s) = << >> THEN Head(s).code \in C ELSE EndsIn(Tail(s), C)
<1>1. \A e \in Events : EndsIn(Append(s, e), C) <=> e.code \in C
  BY Queue DEF EndsIn
<1>2. ASSUME s # << >>, EndsIn(s, C), Tail(s) = << >> PROVE Head(s).code \in C
  <2>1. Len(s) \in Nat /\ Len(Tail(s)) = Len(s) - 1 /\ Head(s) = s[1]
    BY <1>2, Queue
  <2>1a. ASSUME NEW q \in Seq(Events), Len(q) > 0 PROVE q # << >>
    BY <2>1a
  <2>1b. Len(s) = 1
    BY <1>2, <2>1, <2>1a, Queue
  <2>2. QED
    BY <1>2, <2>1, <2>1b DEF EndsIn
<1>3. ASSUME s # << >>, EndsIn(s, C), Tail(s) # << >> PROVE EndsIn(Tail(s), C)
  <2>1. /\ Tail(s) \in Seq(Events) /\ Len(Tail(s)) = Len(s) - 1 /\ Len(s) \in Nat
        /\ \A j \in 1 .. Len(s) - 1 : Tail(s)[j] = s[j + 1]
    BY <1>3, Queue
  <2>2. Len(Tail(s)) > 0
    BY <1>3, <2>1, Queue
  <2>3. Len(s) - 1 \in 1 .. Len(s) - 1 /\ (Len(s) - 1) + 1 = Len(s)
    BY <2>1, <2>2
  <2>4. Tail(s)[Len(Tail(s))] = s[Len(s)]
    BY <2>1, <2>3
  <2>5. QED
    BY <1>3, <2>4 DEF EndsIn
<1>4. QED
  BY <1>1, <1>2, <1>3

LEMMA RelinkedSteps ==
  ASSUME NEW s \in Seq(Events), NEW n \in {0, 1, 2}
  PROVE  /\ Relinked(<< >>, n)
         /\ \A e \in Events : /\ Relinked(s, n) /\ (e.code = "up" => Has(s, {"down"})) => Relinked(Append(s, e), n)
                              /\ s = << >> => Relinked(Append(s, e), 1)
         /\ Relinked(s, 0) => Relinked(s, 1) /\ (s # << >> => Head(s).code # "up")
         /\ Relinked(s, 1) => Relinked(s, 2)
         /\ s # << >> /\ Relinked(s, n) /\ Head(s).code # "down" =>
              Relinked(Tail(s), IF n = 0 THEN 0 ELSE n - 1)
<1>1. Relinked(<< >>, n)
  BY DEF Relinked
<1>2. ASSUME NEW e \in Events, Relinked(s, n), e.code = "up" => Has(s, {"down"})
      PROVE  Relinked(Append(s, e), n)
  <2> DEFINE t == Append(s, e)
  <2>1. ASSUME NEW j \in DOMAIN t, t[j].code = "up", j > n
        PROVE  \E i \in DOMAIN t : i < j /\ t[i].code = "down"
    <3>1. CASE j \in DOMAIN s
      <4>1. PICK i \in DOMAIN s : i < j /\ s[i].code = "down"
        BY <1>2, <2>1, <3>1, Queue DEF Relinked
      <4>2. i \in DOMAIN t /\ t[i] = s[i]
        BY Queue
      <4>3. QED
        BY <4>1, <4>2
    <3>2. CASE j \notin DOMAIN s
      <4>1. j = Len(s) + 1 /\ t[j] = e
        BY <3>2, Queue
      <4>2. PICK i \in DOMAIN s : s[i].code = "down"
        BY <1>2, <2>1, <4>1 DEF Has
      <4>3. i \in DOMAIN t /\ t[i] = s[i] /\ i < j
        BY <4>1, Queue
      <4>4. QED
        BY <4>2, <4>3
    <3>3. QED
      BY <3>1, <3>2
  <2>2. QED
    BY <2>1 DEF Relinked
<1>3. ASSUME NEW e \in Events, s = << >> PROVE Relinked(Append(s, e), 1)
  BY <1>3, Queue DEF Relinked
<1>4. Relinked(s, 0) => Relinked(s, 1) /\ (s # << >> => Head(s).code # "up")
  BY Queue DEF Relinked
<1>5. ASSUME s # << >>, Relinked(s, n), Head(s).code # "down"
      PROVE  Relinked(Tail(s), IF n = 0 THEN 0 ELSE n - 1)
  <2> DEFINE t == Tail(s)
             m == IF n = 0 THEN 0 ELSE n - 1
  <2>0. m \in Nat /\ m + 1 >= n
    OBVIOUS
  <2> HIDE DEF m
  <2>1. ASSUME NEW j \in DOMAIN t, t[j].code = "up", j > m
        PROVE  \E i \in DOMAIN t : i < j /\ t[i].code = "down"
    <3>0. j + 1 \in DOMAIN s /\ t[j] = s[j + 1] /\ j \in Nat
      BY <1>5, Queue
    <3>1. j + 1 \in DOMAIN s /\ t[j] = s[j + 1] /\ j + 1 > n
      BY <2>0, <2>1, <3>0
    <3>2. PICK i \in DOMAIN s : i < j + 1 /\ s[i].code = "down"
      BY <1>5, <2>1, <3>1 DEF Relinked
    <3>3. i # 1
      BY <1>5, <3>2, Queue
    <3>4. i - 1 \in DOMAIN t /\ t[i - 1] = s[i] /\ i - 1 < j
      BY <1>5, <3>2, <3>3, Queue
    <3>5. QED
      BY <3>2, <3>4
  <2>2. QED
    BY <2>1 DEF Relinked, m
<1>6. Relinked(s, 1) => Relinked(s, 2)
  BY Queue DEF Relinked
<1>7. QED
  BY <1>1, <1>2, <1>3, <1>4, <1>5, <1>6

(* The way to the access point.                                            *)
LEMMA LeadsEmpty == ASSUME NEW a \in Addrs PROVE Leads(<< >>, a, a)
<1> DEFINE p == [j \in 0 .. 0 |-> a]
<1>1. p \in [0 .. Len(<< >>) -> Addrs] /\ p[0] = a /\ p[Len(<< >>)] = a
  OBVIOUS
<1>2. DOMAIN << >> = {}
  OBVIOUS
<1> HIDE DEF p
<1>3. QED
  BY <1>1, <1>2 DEF Leads

LEMMA LeadsAppend ==
  ASSUME NEW s \in Seq(Events), NEW a \in Addrs, NEW b \in Addrs, NEW e \in Events,
         Leads(s, a, b), e.code = "down" => e.bss = b
  PROVE  Leads(Append(s, e), a, After(e, b))
<1> DEFINE n == Len(s)
           t == Append(s, e)
<1>1. n \in Nat /\ Len(t) = n + 1 /\ t[n + 1] = e /\ DOMAIN t = 1 .. n + 1 /\ DOMAIN s = 1 .. n
      /\ \A j \in DOMAIN s : t[j] = s[j]
  BY Queue
<1>2. PICK p \in [0 .. n -> Addrs] :
        /\ p[0] = a /\ p[n] = b
        /\ \A j \in DOMAIN s : p[j] = After(s[j], p[j - 1]) /\ (s[j].code = "down" => s[j].bss = p[j - 1])
  BY DEF Leads
<1> DEFINE q == [j \in 0 .. n + 1 |-> IF j = n + 1 THEN After(e, b) ELSE p[j]]
<1>3. After(e, b) \in Addrs
  BY DEF After, Events
<1>4. q \in [0 .. n + 1 -> Addrs] /\ q[0] = a /\ q[n + 1] = After(e, b)
      /\ \A j \in 0 .. n : q[j] = p[j]
  BY <1>1, <1>2, <1>3
<1> HIDE DEF q
<1>5. ASSUME NEW j \in DOMAIN t
      PROVE  q[j] = After(t[j], q[j - 1]) /\ (t[j].code = "down" => t[j].bss = q[j - 1])
  <2>1. CASE j = n + 1
    BY <1>1, <1>2, <1>4, <2>1
  <2>2. CASE j # n + 1
    <3>1. j \in DOMAIN s /\ j \in 0 .. n /\ j - 1 \in 0 .. n
      BY <1>1, <1>5, <2>2
    <3>2. QED
      BY <1>1, <1>2, <1>4, <3>1
  <2>3. QED
    BY <2>1, <2>2
<1>6. QED
  BY <1>1, <1>4, <1>5 DEF Leads

LEMMA LeadsTail ==
  ASSUME NEW s \in Seq(Events), NEW a \in Addrs, NEW b \in Addrs, s # << >>, Leads(s, a, b)
  PROVE  /\ Head(s).code = "down" => Head(s).bss = a
         /\ Leads(Tail(s), After(Head(s), a), b)
<1> DEFINE n == Len(s)
           t == Tail(s)
<1>1. n \in Nat /\ n > 0 /\ Len(t) = n - 1 /\ Head(s) = s[1] /\ DOMAIN t = 1 .. n - 1 /\ DOMAIN s = 1 .. n
      /\ \A j \in DOMAIN t : t[j] = s[j + 1]
  BY Queue
<1>2. PICK p \in [0 .. n -> Addrs] :
        /\ p[0] = a /\ p[n] = b
        /\ \A j \in DOMAIN s : p[j] = After(s[j], p[j - 1]) /\ (s[j].code = "down" => s[j].bss = p[j - 1])
  BY DEF Leads
<1> DEFINE q == [j \in 0 .. n - 1 |-> p[j + 1]]
<1>3. q \in [0 .. n - 1 -> Addrs] /\ q[0] = p[1] /\ q[n - 1] = b /\ \A j \in 0 .. n - 1 : q[j] = p[j + 1]
  BY <1>1, <1>2
<1> HIDE DEF q
<1>4. p[1] = After(s[1], a) /\ (s[1].code = "down" => s[1].bss = a)
  BY <1>1, <1>2
<1>5. ASSUME NEW j \in DOMAIN t
      PROVE  q[j] = After(t[j], q[j - 1]) /\ (t[j].code = "down" => t[j].bss = q[j - 1])
  <2>1. j + 1 \in DOMAIN s /\ j \in 0 .. n - 1 /\ j - 1 \in 0 .. n - 1 /\ (j + 1) - 1 = j /\ (j - 1) + 1 = j
    BY <1>1, <1>5
  <2>2. q[j] = p[j + 1] /\ q[j - 1] = p[j] /\ t[j] = s[j + 1]
    BY <1>1, <1>3, <1>5, <2>1
  <2>3. p[j + 1] = After(s[j + 1], p[j]) /\ (s[j + 1].code = "down" => s[j + 1].bss = p[j])
    BY <1>2, <2>1
  <2>4. QED
    BY <2>2, <2>3
<1>6. QED
  BY <1>1, <1>3, <1>4, <1>5 DEF Leads

-----------------------------------------------------------------------------
(* Course at the start, and what a step does to the parts of it.           *)

LEMMA KeyFields ==
  ASSUME NEW v \in Vifs, NEW key \in Keys
  PROVE  LET w == WithKey(v, key)
         IN  /\ w \in Vifs /\ w.sup = (key \in FwSup) /\ w.ft = (key \in Ft)
             /\ w.connecting = v.connecting /\ w.connected = v.connected /\ w.bssid = v.bssid
             /\ w.eap = v.eap /\ w.assoc = v.assoc
<1> DEFINE s == key \in FwSup
           t == key \in Ft
           w == [v EXCEPT !.sup = s, !.ft = t]
<1>1. WithKey(v, key) = w /\ s \in BOOLEAN /\ t \in BOOLEAN
  BY DEF WithKey
<1> HIDE DEF s, t
<1>2. /\ w \in Vifs /\ w.sup = s /\ w.ft = t
      /\ w.connecting = v.connecting /\ w.connected = v.connected /\ w.bssid = v.bssid
      /\ w.eap = v.eap /\ w.assoc = v.assoc
  BY <1>1 DEF Vifs
<1> HIDE DEF w
<1>3. QED
  BY <1>1, <1>2 DEF s, t

LEMMA VifFields ==
  ASSUME NEW v \in Vifs
  PROVE  /\ LET w == NoFlags(v)
            IN  /\ w.connecting = v.connecting /\ w.connected = v.connected /\ w.bssid = v.bssid
                /\ w.sup = v.sup /\ w.ft = v.ft /\ ~w.eap /\ ~w.assoc
         /\ LET w == Answering(v)
            IN  /\ ~w.connecting /\ w.connected = v.connected /\ w.bssid = v.bssid
                /\ w.sup = v.sup /\ w.ft = v.ft /\ w.eap = v.eap /\ w.assoc = v.assoc
                /\ ~v.connecting => w = v
         /\ LET w == InitProf(v)
            IN  /\ w.connecting = v.connecting /\ w.connected = v.connected
                /\ w.eap = v.eap /\ w.assoc = v.assoc
<1>1. LET w == NoFlags(v)
      IN  /\ w.connecting = v.connecting /\ w.connected = v.connected /\ w.bssid = v.bssid
          /\ w.sup = v.sup /\ w.ft = v.ft /\ ~w.eap /\ ~w.assoc
  BY DEF NoFlags, Vifs
<1>2. LET w == Answering(v)
      IN  /\ ~w.connecting /\ w.connected = v.connected /\ w.bssid = v.bssid
          /\ w.sup = v.sup /\ w.ft = v.ft /\ w.eap = v.eap /\ w.assoc = v.assoc
          /\ ~v.connecting => w = v
  BY DEF Answering, Vifs
<1>3. LET w == InitProf(v)
      IN  /\ w.connecting = v.connecting /\ w.connected = v.connected
          /\ w.eap = v.eap /\ w.assoc = v.assoc
  BY DEF InitProf, Vifs
<1>4. QED
  BY <1>1, <1>2, <1>3

LEMMA NotedFields ==
  ASSUME NEW v \in Vifs, NEW e \in Events, ~(v.eap /\ v.assoc)
  PROVE  LET w == Noted(v, e)
         IN  /\ w.connecting = v.connecting /\ w.connected = v.connected
             /\ w.sup = v.sup /\ w.ft = v.ft /\ ~(w.eap /\ w.assoc)
             /\ w.bssid = IF e.code = "up" THEN e.bss ELSE v.bssid
             /\ IsLinkup(v, e) <=> \/ e.code = "up" /\ (~v.sup \/ v.eap)
                                   \/ e.code = "sup" /\ v.sup /\ v.assoc
             /\ ~IsLinkup(v, e) => /\ w.eap = (v.eap \/ (v.sup /\ e.code = "sup"))
                                   /\ w.assoc = (v.assoc \/ (v.sup /\ e.code = "up"))
<1> DEFINE x == Seen(v, e)
<1>1. x \in Vifs
  BY VifTypes
<1>2. /\ x.connecting = v.connecting /\ x.connected = v.connected /\ x.sup = v.sup /\ x.ft = v.ft
      /\ x.bssid = IF e.code = "up" THEN e.bss ELSE v.bssid
      /\ x.eap = (v.eap \/ (v.sup /\ e.code = "sup"))
      /\ x.assoc = (v.assoc \/ (v.sup /\ e.code = "up"))
  BY DEF Seen, Vifs
<1> HIDE DEF x
<1>3. IsLinkup(v, e) <=> (e.code = "up" /\ ~v.sup) \/ (x.eap /\ x.assoc)
  BY DEF IsLinkup, x
<1>4. Noted(v, e) = IF (e.code = "up" /\ ~v.sup) \/ ~IsLinkup(v, e) THEN x ELSE NoFlags(x)
  BY DEF Noted, x
<1>5. IsLinkup(v, e) <=> \/ e.code = "up" /\ (~v.sup \/ v.eap)
                         \/ e.code = "sup" /\ v.sup /\ v.assoc
  BY <1>2, <1>3
<1>6. CASE (e.code = "up" /\ ~v.sup) \/ ~IsLinkup(v, e)
  <2>1. Noted(v, e) = x
    BY <1>4, <1>6
  <2>2. ~(x.eap /\ x.assoc)
    BY <1>2, <1>3, <1>6
  <2>3. QED
    BY <1>2, <1>5, <2>1, <2>2
<1>7. CASE ~((e.code = "up" /\ ~v.sup) \/ ~IsLinkup(v, e))
  <2>1. Noted(v, e) = NoFlags(x)
    BY <1>4, <1>7
  <2>2. QED
    BY <1>1, <1>2, <1>5, <1>7, <2>1, VifFields
<1>8. QED
  BY <1>6, <1>7

LEMMA Taken ==
  ASSUME TypeOK, events # << >>
  PROVE  LET e == Head(events)
             s == Tail(events)
         IN  /\ e \in Events /\ e.bss \in Addrs /\ s \in Seq(Events)
             /\ Has(events, {"down"}) <=> e.code = "down" \/ Has(s, {"down"})
             /\ Has(events, {"roam"}) <=> e.code = "roam" \/ Has(s, {"roam"})
             /\ Has(events, {"fail"}) <=> e.code = "fail" \/ Has(s, {"fail"})
             /\ Has(events, {"badkey", "fail"}) <=> e.code \in {"badkey", "fail"} \/ Has(s, {"badkey", "fail"})
             /\ Has(events, {"up", "sup", "badkey", "fail", "roam"})
                  <=> e.code # "down" \/ Has(s, {"up", "sup", "badkey", "fail", "roam"})
             /\ Relinked(events, 0) => e.code # "up"
             /\ (Relinked(events, 0) \/ Relinked(events, 1)) /\ e.code # "down" =>
                  Relinked(s, 0) /\ Relinked(s, 1)
             /\ Relinked(events, 2) /\ e.code # "down" => Relinked(s, 1)
             /\ EndsIn(events, {"down", "fail"}) =>
                  IF s = << >> THEN e.code \in {"down", "fail"} ELSE EndsIn(s, {"down", "fail"})
             /\ LossLast(events) => LossLast(s) /\ (e.code = "down" => s = << >>)
             /\ Second(events, {"up"}) => s # << >> /\ Head(s).code = "up"
             /\ Second(events, {"sup", "badkey"}) => s # << >> /\ Head(s).code \in {"sup", "badkey"}
             /\ \A a, b \in Addrs : Leads(events, a, b) =>
                  (e.code = "down" => e.bss = a) /\ Leads(s, After(e, a), b)
<1> DEFINE e == Head(events)
           s == Tail(events)
<1>1. events \in Seq(Events) /\ e \in Events /\ s \in Seq(Events)
  BY Queue DEF TypeOK
<1>2. e.bss \in Addrs /\ e.code \in {"up", "down", "sup", "badkey", "fail", "roam"}
  BY <1>1 DEF Events
<1>3. \A C : Has(events, C) <=> e.code \in C \/ Has(s, C)
  BY <1>1, HasTail
<1>4. /\ Relinked(events, 0) => e.code # "up"
      /\ (Relinked(events, 0) \/ Relinked(events, 1)) /\ e.code # "down" => Relinked(s, 0) /\ Relinked(s, 1)
      /\ Relinked(events, 2) /\ e.code # "down" => Relinked(s, 1)
  <2>1. Relinked(events, 0) => e.code # "up"
    BY <1>1, RelinkedSteps
  <2>2. \A n \in {0, 1, 2} : Relinked(events, n) /\ e.code # "down" => Relinked(s, IF n = 0 THEN 0 ELSE n - 1)
    BY <1>1, RelinkedSteps
  <2>3. Relinked(s, 0) => Relinked(s, 1)
    BY <1>1, RelinkedSteps
  <2> HIDE DEF e, s
  <2>4. /\ Relinked(events, 0) /\ e.code # "down" => Relinked(s, 0)
        /\ Relinked(events, 1) /\ e.code # "down" => Relinked(s, 0)
        /\ Relinked(events, 2) /\ e.code # "down" => Relinked(s, 1)
    <3>1. /\ (IF 0 = 0 THEN 0 ELSE 0 - 1) = 0
          /\ (IF 1 = 0 THEN 0 ELSE 1 - 1) = 0
          /\ (IF 2 = 0 THEN 0 ELSE 2 - 1) = 1
      OBVIOUS
    <3>2. QED
      BY <2>2, <3>1
  <2>5. QED
    BY <2>1, <2>3, <2>4
<1>5. LossLast(events) => LossLast(s) /\ (e.code = "down" => s = << >>)
  BY <1>1, LossSteps
<1>6. \A C : Second(events, C) => s # << >> /\ Head(s).code \in C
  BY <1>1, SecondSteps
<1>7. \A a, b \in Addrs : Leads(events, a, b) => (e.code = "down" => e.bss = a) /\ Leads(s, After(e, a), b)
  BY <1>1, LeadsTail
<1>7a. EndsIn(events, {"down", "fail"}) =>
         IF s = << >> THEN e.code \in {"down", "fail"} ELSE EndsIn(s, {"down", "fail"})
  BY <1>1, EndsInSteps
<1> HIDE DEF e, s
<1>8. /\ Has(events, {"down"}) <=> e.code = "down" \/ Has(s, {"down"})
      /\ Has(events, {"roam"}) <=> e.code = "roam" \/ Has(s, {"roam"})
      /\ Has(events, {"fail"}) <=> e.code = "fail" \/ Has(s, {"fail"})
      /\ Has(events, {"badkey", "fail"}) <=> e.code \in {"badkey", "fail"} \/ Has(s, {"badkey", "fail"})
  BY <1>3
<1>9. Has(events, {"up", "sup", "badkey", "fail", "roam"})
        <=> e.code # "down" \/ Has(s, {"up", "sup", "badkey", "fail", "roam"})
  BY <1>2, <1>3
<1>10. /\ Second(events, {"up"}) => s # << >> /\ Head(s).code = "up"
       /\ Second(events, {"sup", "badkey"}) => s # << >> /\ Head(s).code \in {"sup", "badkey"}
  BY <1>6
<1>11. QED
  BY <1>1, <1>2, <1>4, <1>5, <1>7, <1>7a, <1>8, <1>9, <1>10 DEF e, s

LEMMA Put ==
  ASSUME NEW s \in Seq(Events), NEW e \in Events
  PROVE  LET t == Append(s, e)
         IN  /\ t \in Seq(Events) /\ t # << >> /\ Head(t) = IF s = << >> THEN e ELSE Head(s)
             /\ Has(t, {"down"}) <=> e.code = "down" \/ Has(s, {"down"})
             /\ Has(t, {"roam"}) <=> e.code = "roam" \/ Has(s, {"roam"})
             /\ Has(t, {"fail"}) <=> e.code = "fail" \/ Has(s, {"fail"})
             /\ Has(t, {"badkey", "fail"}) <=> e.code \in {"badkey", "fail"} \/ Has(s, {"badkey", "fail"})
             /\ Has(t, {"up", "sup", "badkey", "fail", "roam"})
                  <=> e.code # "down" \/ Has(s, {"up", "sup", "badkey", "fail", "roam"})
             /\ Relinked(s, 0) /\ (e.code = "up" => Has(s, {"down"})) => Relinked(t, 0)
             /\ Relinked(s, 1) /\ (e.code = "up" => Has(s, {"down"})) => Relinked(t, 1)
             /\ Relinked(s, 2) /\ (e.code = "up" => Has(s, {"down"})) => Relinked(t, 2)
             /\ s = << >> => Relinked(t, 1)
             /\ EndsIn(t, {"down", "fail"}) <=> e.code \in {"down", "fail"}
             /\ ~Has(s, {"down"}) => LossLast(t)
             /\ Second(s, {"up"}) => Second(t, {"up"})
             /\ Second(s, {"sup", "badkey"}) => Second(t, {"sup", "badkey"})
             /\ \A a, b \in Addrs : Leads(s, a, b) /\ (e.code = "down" => e.bss = b) => Leads(t, a, After(e, b))
<1> DEFINE t == Append(s, e)
<1>1. t \in Seq(Events) /\ t # << >> /\ Head(t) = IF s = << >> THEN e ELSE Head(s)
  BY Queue
<1>2. e.code \in {"up", "down", "sup", "badkey", "fail", "roam"}
  BY DEF Events
<1>3. \A C : Has(t, C) <=> Has(s, C) \/ e.code \in C
  BY HasAppend
<1>4. /\ Relinked(s, 0) /\ (e.code = "up" => Has(s, {"down"})) => Relinked(t, 0)
      /\ Relinked(s, 1) /\ (e.code = "up" => Has(s, {"down"})) => Relinked(t, 1)
      /\ Relinked(s, 2) /\ (e.code = "up" => Has(s, {"down"})) => Relinked(t, 2)
      /\ s = << >> => Relinked(t, 1)
  BY RelinkedSteps
<1>5. ~Has(s, {"down"}) => LossLast(t)
  BY LossSteps
<1>6. \A C : Second(s, C) => Second(t, C)
  BY SecondSteps
<1>7. \A a, b \in Addrs : Leads(s, a, b) /\ (e.code = "down" => e.bss = b) => Leads(t, a, After(e, b))
  BY LeadsAppend
<1>7a. EndsIn(t, {"down", "fail"}) <=> e.code \in {"down", "fail"}
  BY EndsInSteps
<1> HIDE DEF t
<1>8. /\ Has(t, {"down"}) <=> e.code = "down" \/ Has(s, {"down"})
      /\ Has(t, {"roam"}) <=> e.code = "roam" \/ Has(s, {"roam"})
      /\ Has(t, {"fail"}) <=> e.code = "fail" \/ Has(s, {"fail"})
      /\ Has(t, {"badkey", "fail"}) <=> e.code \in {"badkey", "fail"} \/ Has(s, {"badkey", "fail"})
  BY <1>3
<1>9. Has(t, {"up", "sup", "badkey", "fail", "roam"})
        <=> e.code # "down" \/ Has(s, {"up", "sup", "badkey", "fail", "roam"})
  BY <1>2, <1>3
<1>10. QED
  BY <1>1, <1>4, <1>5, <1>6, <1>7, <1>7a, <1>8, <1>9 DEF t

-----------------------------------------------------------------------------
(* The worker takes an event.                                              *)

LEMMA Taking ==
  ASSUME TypeOK, NextEvent
  PROVE  /\ Ev = "idle" /\ events' = Tail(events) /\ wdev' = wdev /\ fw' = fw /\ open' = open
         /\ th' = th \/ (\E pc \in Pcs : Goes("event", pc)) => th'["call"] = th["call"]
         /\ \A pc \in Pcs : Goes("event", pc) => Ev' = pc
         /\ th' = th => Ev' = "idle"
<1>1. th \in [Threads -> ThreadStates] /\ "event" \in Threads /\ "call" \in Threads
  BY DEF TypeOK, Threads
<1>2. \A pc : Goes("event", pc) => th'["call"] = th["call"] /\ Ev' = pc
  BY <1>1 DEF Goes, Ev, ThreadStates
<1>3. QED
  BY <1>2 DEF NextEvent, Ev

(* The link is up, or announced by a roam: of a connection that is told.   *)
LEMMA RoamTaken ==
  ASSUME TypeOK, Driver, Cfg, NextEvent, events # << >>, Goes("event", "roamed"),
         UNCHANGED << posted, results >>,
         NEW e, e = Head(events), e.code \in {"up", "roam"}, vif.connected,
         vif'.connected, vif'.connecting = vif.connecting, vif'.bssid = e.bss,
         vif'.sup = vif.sup, vif'.ft = vif.ft, ~(vif'.eap /\ vif'.assoc)
  PROVE  Driver' /\ Cfg'
<1> USE DEF Calling, Leave, Attached, Awaited, Lively, Doomed
<1> DEFINE s == Tail(events)
<1> Flags /\ Keyed /\ Ebb /\ Route /\ Ends /\ Codes /\ Joining /\ Held /\ Worker /\ WillAnswer
  BY DEF Driver
<1> Call /\ ToldLink /\ ToldEnd /\ Fresh /\ Opened
  BY DEF Cfg
<1>1. /\ Ev = "idle" /\ events' = s /\ wdev' = wdev /\ fw' = fw /\ open' = open
      /\ th'["call"] = th["call"] /\ Ev' = "roamed" /\ posted' = posted
  BY Taking DEF Pcs
<1>2. /\ Has(events, {"down"}) <=> Has(s, {"down"})
      /\ Has(events, {"roam"}) <=> e.code = "roam" \/ Has(s, {"roam"})
      /\ Has(events, {"fail"}) <=> Has(s, {"fail"})
      /\ Has(events, {"badkey", "fail"}) <=> Has(s, {"badkey", "fail"})
      /\ Has(events, {"up", "sup", "badkey", "fail", "roam"})
      /\ Relinked(events, 0) \/ Relinked(events, 1) => Relinked(s, 0) /\ Relinked(s, 1)
      /\ EndsIn(events, {"down", "fail"}) =>
           IF s = << >> THEN e.code \in {"down", "fail"} ELSE EndsIn(s, {"down", "fail"})
      /\ LossLast(events) => LossLast(s)
      /\ \A a, b \in Addrs : Leads(events, a, b) => Leads(s, e.bss, b)
  BY Taken DEF After, Carries
<1>3. vif.bssid \in Addrs
  BY DEF TypeOK, Vifs
<1> HIDE DEF s
<1>4. Flags' /\ Keyed' /\ Worker'
  BY <1>1 DEF Flags, Keyed, Worker, Profile, Reset
<1>4a. Ebb'
  BY <1>1, <1>2 DEF Ebb
<1>5. Route'
  BY <1>1, <1>2, <1>3 DEF Route
<1>6. Ends' /\ Codes'
  BY <1>1, <1>2 DEF Ends, Codes
<1>7. Joining' /\ Held' /\ WillAnswer'
  BY <1>1, <1>2 DEF Joining, Held, WillAnswer
<1>8. Call'
  BY <1>1, <1>2 DEF Call, Profile
<1>9. ToldLink' /\ ToldEnd' /\ Fresh' /\ Opened'
  BY <1>1, <1>2 DEF ToldLink, ToldEnd, Fresh, Opened
<1>10. QED
  BY <1>4, <1>4a, <1>5, <1>6, <1>7, <1>8, <1>9 DEF Driver, Cfg

(* The join has succeeded: the bit is taken, and the worker sleeps before it tells. *)
LEMMA JoinTaken ==
  ASSUME TypeOK, Driver, Cfg, NextEvent, events # << >>, Goes("event", "complete"),
         UNCHANGED << posted, results >>,
         NEW e, e = Head(events), e.code \in {"up", "sup"}, vif.connecting,
         e.code = "up" => ~vif.sup \/ vif.eap, e.code = "sup" => vif.assoc,
         ~vif'.connecting, vif'.connected = vif.connected,
         vif'.bssid = IF e.code = "up" THEN e.bss ELSE vif.bssid,
         vif'.sup = vif.sup, vif'.ft = vif.ft, ~(vif'.eap /\ vif'.assoc)
  PROVE  Driver' /\ Cfg'
<1> USE DEF Calling, Leave, Attached, Awaited, Lively, Doomed
<1> Flags /\ Keyed /\ Ebb /\ Route /\ Ends /\ Codes /\ Joining /\ Held /\ Worker /\ WillAnswer
  BY DEF Driver
<1> Call /\ ToldLink /\ ToldEnd /\ Fresh /\ Opened
  BY DEF Cfg
<1> DEFINE s == Tail(events)
<1>1. /\ Ev = "idle" /\ events' = s /\ wdev' = wdev /\ fw' = fw /\ open' = open
      /\ th'["call"] = th["call"] /\ Ev' = "complete" /\ posted' = posted
  BY Taking DEF Pcs
<1>2. /\ Has(events, {"down"}) <=> e.code = "down" \/ Has(s, {"down"})
      /\ Has(events, {"roam"}) <=> e.code = "roam" \/ Has(s, {"roam"})
      /\ Has(events, {"fail"}) <=> e.code = "fail" \/ Has(s, {"fail"})
      /\ Has(events, {"badkey", "fail"}) <=> e.code \in {"badkey", "fail"} \/ Has(s, {"badkey", "fail"})
      /\ Has(events, {"up", "sup", "badkey", "fail", "roam"})
           <=> e.code # "down" \/ Has(s, {"up", "sup", "badkey", "fail", "roam"})
      /\ Relinked(events, 0) => e.code # "up"
      /\ (Relinked(events, 0) \/ Relinked(events, 1)) /\ e.code # "down" => Relinked(s, 0) /\ Relinked(s, 1)
      /\ Relinked(events, 2) /\ e.code # "down" => Relinked(s, 1)
      /\ EndsIn(events, {"down", "fail"}) =>
           IF s = << >> THEN e.code \in {"down", "fail"} ELSE EndsIn(s, {"down", "fail"})
      /\ LossLast(events) => LossLast(s) /\ (e.code = "down" => s = << >>)
      /\ Second(events, {"up"}) => s # << >> /\ Head(s).code = "up"
      /\ Second(events, {"sup", "badkey"}) => s # << >> /\ Head(s).code \in {"sup", "badkey"}
  BY Taken
<1>3. vif.bssid \in Addrs /\ e.bss \in Addrs /\ e \in Events
  BY Taken DEF TypeOK, Vifs
<1>4. \A b \in Addrs : Leads(events, vif.bssid, b) =>
        (e.code = "down" => e.bss = vif.bssid) /\ Leads(s, IF e.code \in {"up", "roam"} THEN e.bss ELSE vif.bssid, b)
  BY <1>3, Taken DEF After, Carries
<1> HIDE DEF s
<1>5. Calling => Attached
  BY DEF Call
<1>6. Flags' /\ Keyed' /\ Worker'
  BY <1>1, <1>2, <1>3, <1>4, <1>5 DEF Flags, Keyed, Worker, Profile, Reset
<1>6b. Ebb'
  BY <1>1, <1>2 DEF Ebb
<1>7. Route'
  BY <1>1, <1>2, <1>3, <1>4, <1>5 DEF Route
<1>8. Ends'
  BY <1>1, <1>2, <1>3, <1>4, <1>5 DEF Ends
<1>9. Codes'
  BY <1>1, <1>2, <1>3, <1>4, <1>5 DEF Codes
<1>10. Joining' /\ Held'
  BY <1>1, <1>2, <1>3, <1>4, <1>5 DEF Joining, Held
<1>11. WillAnswer'
  BY <1>1, <1>2, <1>3, <1>4, <1>5 DEF WillAnswer, Answer
<1>12. Call'
  BY <1>1, <1>2, <1>3, <1>4, <1>5 DEF Call, Profile
<1>13. ToldLink'
  BY <1>1, <1>2, <1>3, <1>4, <1>5, HasEmpty DEF ToldLink, Fresh
<1>14. ToldEnd' /\ Fresh'
  BY <1>1, <1>2, <1>3, <1>4, <1>5 DEF ToldEnd, Fresh
<1>15. Opened'
  BY <1>1, <1>2, <1>3, <1>4, <1>5 DEF Opened
<1>16. QED
  BY <1>6, <1>6b, <1>7, <1>8, <1>9, <1>10, <1>11, <1>12, <1>13, <1>14, <1>15 DEF Driver, Cfg

(* An event that only sets the flags and the access point.                 *)
LEMMA NotedTaken ==
  ASSUME TypeOK, Driver, Cfg, NextEvent, events # << >>, th' = th,
         UNCHANGED << posted, results >>,
         NEW e, e = Head(events), e.code \in {"up", "sup"},
         vif'.connecting = vif.connecting, vif'.connected = vif.connected,
         vif'.bssid = IF e.code = "up" THEN e.bss ELSE vif.bssid,
         vif'.sup = vif.sup, vif'.ft = vif.ft, ~(vif'.eap /\ vif'.assoc),
         \/ ~vif.connecting /\ ~(e.code = "up" /\ vif.connected /\ ~vif.ft)
         \/ /\ e.code = "up" => vif.sup /\ ~vif.eap
            /\ e.code = "sup" => ~(vif.sup /\ vif.assoc)
            /\ vif'.eap = (vif.eap \/ (vif.sup /\ e.code = "sup"))
            /\ vif'.assoc = (vif.assoc \/ (vif.sup /\ e.code = "up"))
  PROVE  Driver' /\ Cfg'
<1> USE DEF Calling, Leave, Attached, Awaited, Lively, Doomed
<1> Flags /\ Keyed /\ Ebb /\ Route /\ Ends /\ Codes /\ Joining /\ Held /\ Worker /\ WillAnswer
  BY DEF Driver
<1> Call /\ ToldLink /\ ToldEnd /\ Fresh /\ Opened
  BY DEF Cfg
<1> DEFINE s == Tail(events)
<1>1. /\ Ev = "idle" /\ events' = s /\ wdev' = wdev /\ fw' = fw /\ open' = open
      /\ th'["call"] = th["call"] /\ Ev' = "idle" /\ posted' = posted
  BY Taking DEF Pcs
<1>2. /\ Has(events, {"down"}) <=> e.code = "down" \/ Has(s, {"down"})
      /\ Has(events, {"roam"}) <=> e.code = "roam" \/ Has(s, {"roam"})
      /\ Has(events, {"fail"}) <=> e.code = "fail" \/ Has(s, {"fail"})
      /\ Has(events, {"badkey", "fail"}) <=> e.code \in {"badkey", "fail"} \/ Has(s, {"badkey", "fail"})
      /\ Has(events, {"up", "sup", "badkey", "fail", "roam"})
           <=> e.code # "down" \/ Has(s, {"up", "sup", "badkey", "fail", "roam"})
      /\ Relinked(events, 0) => e.code # "up"
      /\ (Relinked(events, 0) \/ Relinked(events, 1)) /\ e.code # "down" => Relinked(s, 0) /\ Relinked(s, 1)
      /\ Relinked(events, 2) /\ e.code # "down" => Relinked(s, 1)
      /\ EndsIn(events, {"down", "fail"}) =>
           IF s = << >> THEN e.code \in {"down", "fail"} ELSE EndsIn(s, {"down", "fail"})
      /\ LossLast(events) => LossLast(s) /\ (e.code = "down" => s = << >>)
      /\ Second(events, {"up"}) => s # << >> /\ Head(s).code = "up"
      /\ Second(events, {"sup", "badkey"}) => s # << >> /\ Head(s).code \in {"sup", "badkey"}
  BY Taken
<1>3. vif.bssid \in Addrs /\ e.bss \in Addrs /\ e \in Events
  BY Taken DEF TypeOK, Vifs
<1>4. \A b \in Addrs : Leads(events, vif.bssid, b) =>
        (e.code = "down" => e.bss = vif.bssid) /\ Leads(s, IF e.code \in {"up", "roam"} THEN e.bss ELSE vif.bssid, b)
  BY <1>3, Taken DEF After, Carries
<1> HIDE DEF s
<1>5. Calling => Attached
  BY DEF Call
<1>6a. Awaited =>
         /\ e.code = "up" => s # << >> /\ Head(s).code \in {"sup", "badkey"} /\ fw.key \in FwSup
         /\ e.code = "sup" => s # << >> /\ Head(s).code = "up" /\ fw.key \in FwSup
         /\ Profile(fw.key)
  BY <1>1, <1>2, <1>5 DEF WillAnswer, Answer, Keyed, Profile
<1>6. Flags' /\ Keyed' /\ Worker'
  BY <1>1, <1>2, <1>3, <1>4, <1>5 DEF Flags, Keyed, Worker, Profile, Reset
<1>6b. Ebb'
  BY <1>1, <1>2 DEF Ebb
<1>7. Route'
  BY <1>1, <1>2, <1>3, <1>4, <1>5 DEF Route
<1>8. Ends'
  BY <1>1, <1>2, <1>3, <1>4, <1>5 DEF Ends
<1>9. Codes'
  BY <1>1, <1>2, <1>3, <1>4, <1>5 DEF Codes
<1>10. Joining' /\ Held'
  BY <1>1, <1>2, <1>3, <1>4, <1>5, <1>6a DEF Joining, Held
<1>11. WillAnswer'
  BY <1>1, <1>2, <1>5, <1>6a DEF WillAnswer, Answer, Profile
<1>12. Call'
  BY <1>1, <1>2, <1>5 DEF Call, Profile
<1>12a. Attached /\ e.code = "up" => fw.key = "psk"
  BY <1>1, <1>2 DEF Codes, Keyed, Profile, Reset, FwSup, Ft
<1>13. ToldLink'
  BY <1>1, <1>2, <1>3, <1>12a DEF ToldLink
<1>14. ToldEnd' /\ Fresh'
  BY <1>1, <1>2, <1>3, <1>4, <1>5 DEF ToldEnd, Fresh
<1>15. Opened'
  BY <1>1, <1>2, <1>3, <1>4, <1>5 DEF Opened
<1>16. QED
  BY <1>6, <1>6b, <1>7, <1>8, <1>9, <1>10, <1>11, <1>12, <1>13, <1>14, <1>15 DEF Driver, Cfg

(* A loss that is not of the connection of the driver.                     *)
LEMMA LossIgnored ==
  ASSUME TypeOK, Driver, Cfg, NextEvent, events # << >>, th' = th,
         UNCHANGED << posted, results >>,
         NEW e, e = Head(events), e.code \in {"down", "fail"}, NotMine(e),
         vif'.connecting = vif.connecting, vif'.connected = vif.connected, vif'.bssid = vif.bssid,
         vif'.sup = vif.sup, vif'.ft = vif.ft, ~vif'.eap, ~vif'.assoc
  PROVE  Driver' /\ Cfg'
<1> USE DEF Calling, Leave, Attached, Awaited, Lively, Doomed
<1> Flags /\ Keyed /\ Ebb /\ Route /\ Ends /\ Codes /\ Joining /\ Held /\ Worker /\ WillAnswer
  BY DEF Driver
<1> Call /\ ToldLink /\ ToldEnd /\ Fresh /\ Opened
  BY DEF Cfg
<1> DEFINE s == Tail(events)
<1>1. /\ Ev = "idle" /\ events' = s /\ wdev' = wdev /\ fw' = fw /\ open' = open
      /\ th'["call"] = th["call"] /\ Ev' = "idle" /\ posted' = posted
  BY Taking DEF Pcs
<1>2. /\ Has(events, {"down"}) <=> e.code = "down" \/ Has(s, {"down"})
      /\ Has(events, {"roam"}) <=> e.code = "roam" \/ Has(s, {"roam"})
      /\ Has(events, {"fail"}) <=> e.code = "fail" \/ Has(s, {"fail"})
      /\ Has(events, {"badkey", "fail"}) <=> e.code \in {"badkey", "fail"} \/ Has(s, {"badkey", "fail"})
      /\ Has(events, {"up", "sup", "badkey", "fail", "roam"})
           <=> e.code # "down" \/ Has(s, {"up", "sup", "badkey", "fail", "roam"})
      /\ Relinked(events, 0) => e.code # "up"
      /\ (Relinked(events, 0) \/ Relinked(events, 1)) /\ e.code # "down" => Relinked(s, 0) /\ Relinked(s, 1)
      /\ EndsIn(events, {"down", "fail"}) =>
           IF s = << >> THEN e.code \in {"down", "fail"} ELSE EndsIn(s, {"down", "fail"})
      /\ LossLast(events) => LossLast(s) /\ (e.code = "down" => s = << >>)
      /\ Second(events, {"up"}) => s # << >> /\ Head(s).code = "up"
      /\ Second(events, {"sup", "badkey"}) => s # << >> /\ Head(s).code \in {"sup", "badkey"}
  BY Taken
<1>3. vif.bssid \in Addrs /\ e.bss \in Addrs /\ e \in Events
  BY Taken DEF TypeOK, Vifs
<1>4. \A b \in Addrs : Leads(events, vif.bssid, b) =>
        (e.code = "down" => e.bss = vif.bssid) /\ Leads(s, IF e.code \in {"up", "roam"} THEN e.bss ELSE vif.bssid, b)
  BY <1>3, Taken DEF After, Carries
<1> HIDE DEF s
<1>5. /\ Calling => Attached
      /\ ~Attached => ~vif.connecting
      /\ Attached => e.code = "fail" /\ ~Awaited /\ fw.link = NoBss /\ Has(s, {"down"})
  <2>1. Calling => Attached
    BY DEF Call
  <2>2. ~Attached => ~vif.connecting
    BY <1>1 DEF NotMine
  <2>3. ASSUME Attached PROVE e.code = "fail"
    BY <1>1, <1>3, <1>4, <2>3 DEF NotMine, Route
  <2>4. QED
    BY <1>1, <1>2, <2>1, <2>2, <2>3 DEF Codes, Ends, WillAnswer, Answer
<1>6. Flags' /\ Keyed' /\ Worker'
  BY <1>1, <1>2, <1>3, <1>4, <1>5 DEF Flags, Keyed, Worker, Profile, Reset
<1>6b. Ebb'
  BY <1>1, <1>2 DEF Ebb
<1>7. Route'
  BY <1>1, <1>2, <1>3, <1>4, <1>5 DEF Route
<1>8. Ends'
  BY <1>1, <1>2, <1>3, <1>4, <1>5 DEF Ends
<1>9. Codes'
  BY <1>1, <1>2, <1>3, <1>4, <1>5 DEF Codes
<1>10. Joining' /\ Held'
  BY <1>1, <1>2, <1>3, <1>4, <1>5 DEF Joining, Held
<1>11. WillAnswer'
  BY <1>1, <1>2, <1>3, <1>4, <1>5 DEF WillAnswer, Answer
<1>12. Call'
  BY <1>1, <1>2, <1>3, <1>4, <1>5 DEF Call, Profile
<1>13. ToldLink'
  BY <1>1, <1>2, <1>3, <1>4, <1>5 DEF ToldLink
<1>14. ToldEnd' /\ Fresh'
  BY <1>1, <1>2, <1>3, <1>4, <1>5 DEF ToldEnd, Fresh
<1>15. Opened'
  BY <1>1, <1>2, <1>3, <1>4, <1>5 DEF Opened
<1>16. QED
  BY <1>6, <1>6b, <1>7, <1>8, <1>9, <1>10, <1>11, <1>12, <1>13, <1>14, <1>15 DEF Driver, Cfg

(* The loss of the connection of the driver.                               *)
LEMMA LossTaken ==
  ASSUME TypeOK, Driver, Cfg, NextEvent, events # << >>, Goes("event", "disassoc"),
         NEW e, e = Head(events), e.code \in {"down", "fail"}, vif.connected,
         ConnectDoneFailed(vif),
         ~vif'.connecting, ~vif'.connected, ~vif'.eap, ~vif'.assoc,
         vif'.sup = vif.sup, vif'.ft = vif.ft
  PROVE  Driver' /\ Cfg'
<1> USE DEF Calling, Leave, Attached, Awaited, Lively, Doomed
<1> Flags /\ Keyed /\ Ebb /\ Route /\ Ends /\ Codes /\ Joining /\ Held /\ Worker /\ WillAnswer
  BY DEF Driver
<1> Call /\ ToldLink /\ ToldEnd /\ Fresh /\ Opened
  BY DEF Cfg
<1> DEFINE s == Tail(events)
<1>1. /\ Ev = "idle" /\ events' = s /\ wdev' = wdev /\ fw' = fw /\ open' = open
      /\ th'["call"] = th["call"] /\ Ev' = "disassoc"
  BY Taking DEF Pcs
<1>2. /\ Has(events, {"down"}) <=> e.code = "down" \/ Has(s, {"down"})
      /\ Has(events, {"roam"}) <=> e.code = "roam" \/ Has(s, {"roam"})
      /\ Has(events, {"fail"}) <=> e.code = "fail" \/ Has(s, {"fail"})
      /\ Has(events, {"badkey", "fail"}) <=> e.code \in {"badkey", "fail"} \/ Has(s, {"badkey", "fail"})
      /\ Has(events, {"up", "sup", "badkey", "fail", "roam"})
           <=> e.code # "down" \/ Has(s, {"up", "sup", "badkey", "fail", "roam"})
      /\ Relinked(events, 0) => e.code # "up"
      /\ (Relinked(events, 0) \/ Relinked(events, 1)) /\ e.code # "down" => Relinked(s, 0) /\ Relinked(s, 1)
      /\ EndsIn(events, {"down", "fail"}) =>
           IF s = << >> THEN e.code \in {"down", "fail"} ELSE EndsIn(s, {"down", "fail"})
      /\ LossLast(events) => LossLast(s) /\ (e.code = "down" => s = << >>)
      /\ Second(events, {"up"}) => s # << >> /\ Head(s).code = "up"
      /\ Second(events, {"sup", "badkey"}) => s # << >> /\ Head(s).code \in {"sup", "badkey"}
  BY Taken
<1>3. vif.bssid \in Addrs /\ e.bss \in Addrs /\ e \in Events
  BY Taken DEF TypeOK, Vifs
<1>4. \A b \in Addrs : Leads(events, vif.bssid, b) =>
        (e.code = "down" => e.bss = vif.bssid) /\ Leads(s, IF e.code \in {"up", "roam"} THEN e.bss ELSE vif.bssid, b)
  BY <1>3, Taken DEF After, Carries
<1> HIDE DEF s
<1>5. posted' # << >> \/ (posted' = posted /\ ~vif.connecting)
  BY Queue DEF ConnectDoneFailed, TypeOK, Msg, Messages, Vifs
<1>6. Flags' /\ Keyed' /\ Worker'
  BY <1>1, <1>2, <1>3, <1>4, <1>5 DEF Flags, Keyed, Worker, Profile, Reset
<1>6b. Ebb'
  BY <1>1, <1>2 DEF Ebb
<1>7. Route'
  BY <1>1, <1>2, <1>3, <1>4, <1>5 DEF Route
<1>8. Ends'
  BY <1>1, <1>2, <1>3, <1>4, <1>5 DEF Ends
<1>9. Codes'
  BY <1>1, <1>2, <1>3, <1>4, <1>5 DEF Codes
<1>10. Joining' /\ Held'
  BY <1>1, <1>2, <1>3, <1>4, <1>5 DEF Joining, Held
<1>11. WillAnswer'
  BY <1>1, <1>2, <1>3, <1>4, <1>5 DEF WillAnswer, Answer
<1>12. Call'
  BY <1>1, <1>2, <1>5 DEF Call, Profile
<1>13. ToldLink'
  BY <1>1, <1>2, <1>3, <1>4, <1>5 DEF ToldLink
<1>14. ToldEnd' /\ Fresh'
  BY <1>1, <1>2, <1>3, <1>4, <1>5 DEF ToldEnd, Fresh
<1>15. Opened'
  BY <1>1, <1>2, <1>3, <1>4, <1>5 DEF Opened
<1>16. QED
  BY <1>6, <1>6b, <1>7, <1>8, <1>9, <1>10, <1>11, <1>12, <1>13, <1>14, <1>15 DEF Driver, Cfg

(* The join has failed, or the network is gone before it.                  *)
LEMMA FailureTaken ==
  ASSUME TypeOK, Driver, Cfg, NextEvent, events # << >>, NEW pc \in {"idle", "unkey"}, Goes("event", pc),
         NEW e, e = Head(events), e.code \in {"down", "fail"}, ~vif.connected, vif.connecting,
         ConnectDoneFailed(vif),
         ~vif'.connecting, ~vif'.connected, ~vif'.eap, ~vif'.assoc
  PROVE  Driver' /\ Cfg'
<1> USE DEF Calling, Leave, Attached, Awaited, Lively, Doomed
<1> Flags /\ Keyed /\ Ebb /\ Route /\ Ends /\ Codes /\ Joining /\ Held /\ Worker /\ WillAnswer
  BY DEF Driver
<1> Call /\ ToldLink /\ ToldEnd /\ Fresh /\ Opened
  BY DEF Cfg
<1> DEFINE s == Tail(events)
<1>1. /\ Ev = "idle" /\ events' = s /\ wdev' = wdev /\ fw' = fw /\ open' = open
      /\ th'["call"] = th["call"] /\ Ev' = pc
  BY Taking DEF Pcs
<1>2. /\ Has(events, {"down"}) <=> e.code = "down" \/ Has(s, {"down"})
      /\ Has(events, {"roam"}) <=> e.code = "roam" \/ Has(s, {"roam"})
      /\ Has(events, {"fail"}) <=> e.code = "fail" \/ Has(s, {"fail"})
      /\ Has(events, {"badkey", "fail"}) <=> e.code \in {"badkey", "fail"} \/ Has(s, {"badkey", "fail"})
      /\ Has(events, {"up", "sup", "badkey", "fail", "roam"})
           <=> e.code # "down" \/ Has(s, {"up", "sup", "badkey", "fail", "roam"})
      /\ Relinked(events, 0) => e.code # "up"
      /\ (Relinked(events, 0) \/ Relinked(events, 1)) /\ e.code # "down" => Relinked(s, 0) /\ Relinked(s, 1)
      /\ EndsIn(events, {"down", "fail"}) =>
           IF s = << >> THEN e.code \in {"down", "fail"} ELSE EndsIn(s, {"down", "fail"})
      /\ LossLast(events) => LossLast(s) /\ (e.code = "down" => s = << >>)
      /\ Second(events, {"up"}) => s # << >> /\ Head(s).code = "up"
      /\ Second(events, {"sup", "badkey"}) => s # << >> /\ Head(s).code \in {"sup", "badkey"}
  BY Taken
<1>3. vif.bssid \in Addrs /\ e.bss \in Addrs /\ e \in Events
  BY Taken DEF TypeOK, Vifs
<1>4. \A b \in Addrs : Leads(events, vif.bssid, b) =>
        (e.code = "down" => e.bss = vif.bssid) /\ Leads(s, IF e.code \in {"up", "roam"} THEN e.bss ELSE vif.bssid, b)
  BY <1>3, Taken DEF After, Carries
<1> HIDE DEF s
<1>5. /\ ~Calling /\ ~Attached
      /\ e.code = "fail" /\ fw.link = NoBss /\ ~fw.joining
  <2>1. ~Calling /\ ~Attached
    BY <1>1 DEF Call
  <2>2. QED
    BY <1>1, <1>2, <2>1 DEF Codes, WillAnswer, Answer
<1>6. /\ posted' = Append(posted, Msg("failed", vif.bssid)) /\ posted' # << >>
      /\ Told(posted', {"failed"}) /\ (Told(posted', {"connected"}) => Told(posted, {"connected"}))
      /\ OverAtLast(posted) => OverAtLast(posted')
  <2>1. Msg("failed", vif.bssid) \in Messages /\ Msg("failed", vif.bssid).type = "failed"
    BY <1>3 DEF Msg, Messages
  <2>2. posted \in Seq(Messages)
    BY DEF TypeOK
  <2>3. posted' = Append(posted, Msg("failed", vif.bssid))
    BY DEF ConnectDoneFailed
  <2>4. QED
    BY <2>1, <2>2, <2>3, ToldAppend, OverSteps, Queue
<1>7. Flags' /\ Keyed' /\ Worker'
  BY <1>1, <1>2, <1>5, <1>6 DEF Flags, Keyed, Worker, Profile, Reset
<1>7b. Ebb'
  BY <1>1, <1>2 DEF Ebb
<1>8. Route'
  BY <1>1, <1>2, <1>5, <1>6 DEF Route
<1>9. Ends'
  BY <1>1, <1>2, <1>5, <1>6 DEF Ends
<1>10. Codes'
  BY <1>1, <1>2, <1>5, <1>6 DEF Codes
<1>11. Joining' /\ Held'
  BY <1>1, <1>2, <1>5, <1>6 DEF Joining, Held
<1>12. WillAnswer'
  BY <1>1, <1>2, <1>5, <1>6 DEF WillAnswer, Answer
<1>13. Call'
  BY <1>1, <1>2, <1>5, <1>6 DEF Call, Profile
<1>14. ToldLink'
  BY <1>1, <1>2, <1>5, <1>6 DEF ToldLink
<1>15. ToldEnd' /\ Fresh'
  BY <1>1, <1>2, <1>5, <1>6 DEF ToldEnd, Fresh
<1>16. Opened'
  BY <1>1, <1>2, <1>5, <1>6 DEF Opened
<1>17. QED
  BY <1>7, <1>7b, <1>8, <1>9, <1>10, <1>11, <1>12, <1>13, <1>14, <1>15, <1>16 DEF Driver, Cfg

(* The passphrase was wrong.                                               *)
LEMMA BadKeyTaken ==
  ASSUME TypeOK, Driver, Cfg, NextEvent, events # << >>, th' = th,
         NEW e, e = Head(events), e.code = "badkey",
         ConnectDoneFailed(vif),
         ~vif'.connecting, vif'.connected = vif.connected, vif'.bssid = vif.bssid,
         vif'.sup = vif.sup, vif'.ft = vif.ft, ~(vif'.eap /\ vif'.assoc)
  PROVE  Driver' /\ Cfg'
<1> USE DEF Calling, Leave, Attached, Awaited, Lively, Doomed
<1> Flags /\ Keyed /\ Ebb /\ Route /\ Ends /\ Codes /\ Joining /\ Held /\ Worker /\ WillAnswer
  BY DEF Driver
<1> Call /\ ToldLink /\ ToldEnd /\ Fresh /\ Opened
  BY DEF Cfg
<1> DEFINE s == Tail(events)
<1>1. /\ Ev = "idle" /\ events' = s /\ wdev' = wdev /\ fw' = fw /\ open' = open
      /\ th'["call"] = th["call"] /\ Ev' = "idle"
  BY Taking DEF Pcs
<1>2. /\ Has(events, {"down"}) <=> e.code = "down" \/ Has(s, {"down"})
      /\ Has(events, {"roam"}) <=> e.code = "roam" \/ Has(s, {"roam"})
      /\ Has(events, {"fail"}) <=> e.code = "fail" \/ Has(s, {"fail"})
      /\ Has(events, {"badkey", "fail"}) <=> e.code \in {"badkey", "fail"} \/ Has(s, {"badkey", "fail"})
      /\ Has(events, {"up", "sup", "badkey", "fail", "roam"})
           <=> e.code # "down" \/ Has(s, {"up", "sup", "badkey", "fail", "roam"})
      /\ Relinked(events, 0) => e.code # "up"
      /\ (Relinked(events, 0) \/ Relinked(events, 1)) /\ e.code # "down" => Relinked(s, 0) /\ Relinked(s, 1)
      /\ EndsIn(events, {"down", "fail"}) =>
           IF s = << >> THEN e.code \in {"down", "fail"} ELSE EndsIn(s, {"down", "fail"})
      /\ LossLast(events) => LossLast(s) /\ (e.code = "down" => s = << >>)
      /\ Second(events, {"up"}) => s # << >> /\ Head(s).code = "up"
      /\ Second(events, {"sup", "badkey"}) => s # << >> /\ Head(s).code \in {"sup", "badkey"}
  BY Taken
<1>3. vif.bssid \in Addrs /\ e.bss \in Addrs /\ e \in Events
  BY Taken DEF TypeOK, Vifs
<1>4. \A b \in Addrs : Leads(events, vif.bssid, b) =>
        (e.code = "down" => e.bss = vif.bssid) /\ Leads(s, IF e.code \in {"up", "roam"} THEN e.bss ELSE vif.bssid, b)
  BY <1>3, Taken DEF After, Carries
<1> HIDE DEF s
<1>5. /\ Calling => Attached
      /\ fw.link = NoBss /\ ~fw.joining
      /\ Attached => Has(s, {"down"})
  <2>1. Calling => Attached
    BY DEF Call
  <2>2. fw.link = NoBss /\ ~fw.joining
    BY <1>2 DEF Codes
  <2>3. QED
    BY <1>2, <2>1, <2>2 DEF Ends
<1>6. \/ posted' = posted /\ ~vif.connecting
      \/ /\ posted' # << >> /\ Told(posted', {"failed"})
         /\ (Told(posted', {"connected"}) => Told(posted, {"connected"}))
         /\ OverAtLast(posted) => OverAtLast(posted')
  <2>1. Msg("failed", vif.bssid) \in Messages /\ Msg("failed", vif.bssid).type = "failed"
    BY <1>3 DEF Msg, Messages
  <2>2. posted \in Seq(Messages)
    BY DEF TypeOK
  <2>3. CASE ~vif.connecting
    BY <2>3 DEF ConnectDoneFailed
  <2>4. CASE vif.connecting
    <3>1. posted' = Append(posted, Msg("failed", vif.bssid))
      BY <2>4 DEF ConnectDoneFailed
    <3>2. QED
      BY <2>1, <2>2, <3>1, ToldAppend, OverSteps, Queue
  <2>5. QED
    BY <2>3, <2>4
<1>7. Flags' /\ Keyed' /\ Worker'
  BY <1>1, <1>2, <1>3, <1>4, <1>5, <1>6 DEF Flags, Keyed, Worker, Profile, Reset
<1>7b. Ebb'
  BY <1>1, <1>2 DEF Ebb
<1>8. Route'
  BY <1>1, <1>2, <1>3, <1>4, <1>5, <1>6 DEF Route
<1>9. Ends'
  BY <1>1, <1>2, <1>3, <1>4, <1>5, <1>6 DEF Ends
<1>10. Codes'
  BY <1>1, <1>2, <1>3, <1>4, <1>5, <1>6 DEF Codes
<1>11. Joining' /\ Held'
  BY <1>1, <1>2, <1>3, <1>4, <1>5, <1>6 DEF Joining, Held
<1>12. WillAnswer'
  BY <1>1, <1>2, <1>3, <1>4, <1>5, <1>6 DEF WillAnswer, Answer
<1>13. Call'
  BY <1>1, <1>2, <1>3, <1>4, <1>5, <1>6 DEF Call, Profile
<1>14. ToldLink'
  BY <1>1, <1>2, <1>3, <1>4, <1>5, <1>6 DEF ToldLink
<1>15. ToldEnd' /\ Fresh'
  BY <1>1, <1>2, <1>3, <1>4, <1>5, <1>6 DEF ToldEnd, Fresh
<1>16. Opened'
  BY <1>1, <1>2, <1>3, <1>4, <1>5, <1>6 DEF Opened
<1>17. QED
  BY <1>7, <1>7b, <1>8, <1>9, <1>10, <1>11, <1>12, <1>13, <1>14, <1>15, <1>16 DEF Driver, Cfg

(* A roam that the driver has no connection for.                           *)
LEMMA RoamIgnored ==
  ASSUME TypeOK, Driver, Cfg, NextEvent, events # << >>, th' = th,
         UNCHANGED << posted, results, vif >>,
         NEW e, e = Head(events), e.code = "roam", ~vif.connected, ~vif.connecting
  PROVE  Driver' /\ Cfg'
<1> USE DEF Calling, Leave, Attached, Awaited, Lively, Doomed
<1> Flags /\ Keyed /\ Ebb /\ Route /\ Ends /\ Codes /\ Joining /\ Held /\ Worker /\ WillAnswer
  BY DEF Driver
<1> Call /\ ToldLink /\ ToldEnd /\ Fresh /\ Opened
  BY DEF Cfg
<1> DEFINE s == Tail(events)
<1>1. /\ Ev = "idle" /\ events' = s /\ wdev' = wdev /\ fw' = fw /\ open' = open
      /\ th'["call"] = th["call"] /\ Ev' = "idle" /\ posted' = posted /\ vif' = vif
  BY Taking DEF Pcs
<1>2. /\ Has(events, {"down"}) <=> e.code = "down" \/ Has(s, {"down"})
      /\ Has(events, {"roam"}) <=> e.code = "roam" \/ Has(s, {"roam"})
      /\ Has(events, {"fail"}) <=> e.code = "fail" \/ Has(s, {"fail"})
      /\ Has(events, {"badkey", "fail"}) <=> e.code \in {"badkey", "fail"} \/ Has(s, {"badkey", "fail"})
      /\ Has(events, {"up", "sup", "badkey", "fail", "roam"})
           <=> e.code # "down" \/ Has(s, {"up", "sup", "badkey", "fail", "roam"})
      /\ Relinked(events, 0) => e.code # "up"
      /\ (Relinked(events, 0) \/ Relinked(events, 1)) /\ e.code # "down" => Relinked(s, 0) /\ Relinked(s, 1)
      /\ EndsIn(events, {"down", "fail"}) =>
           IF s = << >> THEN e.code \in {"down", "fail"} ELSE EndsIn(s, {"down", "fail"})
      /\ LossLast(events) => LossLast(s) /\ (e.code = "down" => s = << >>)
      /\ Second(events, {"up"}) => s # << >> /\ Head(s).code = "up"
      /\ Second(events, {"sup", "badkey"}) => s # << >> /\ Head(s).code \in {"sup", "badkey"}
  BY Taken
<1>3. vif.bssid \in Addrs /\ e.bss \in Addrs /\ e \in Events
  BY Taken DEF TypeOK, Vifs
<1>4. \A b \in Addrs : Leads(events, vif.bssid, b) =>
        (e.code = "down" => e.bss = vif.bssid) /\ Leads(s, IF e.code \in {"up", "roam"} THEN e.bss ELSE vif.bssid, b)
  BY <1>3, Taken DEF After, Carries
<1> HIDE DEF s
<1>5. ~Attached /\ ~Calling
  BY <1>1 DEF Call
<1>6. Flags' /\ Keyed' /\ Worker'
  BY <1>1, <1>2, <1>5 DEF Flags, Keyed, Worker, Profile, Reset
<1>6b. Ebb'
  BY <1>1, <1>2 DEF Ebb
<1>7. Route'
  BY <1>1, <1>2, <1>5 DEF Route
<1>8. Ends'
  BY <1>1, <1>2, <1>5 DEF Ends
<1>9. Codes'
  BY <1>1, <1>2, <1>5 DEF Codes
<1>10. Joining' /\ Held'
  BY <1>1, <1>2, <1>5 DEF Joining, Held
<1>11. WillAnswer'
  BY <1>1, <1>2, <1>5 DEF WillAnswer, Answer
<1>12. Call'
  BY <1>1, <1>2, <1>5 DEF Call, Profile
<1>13. ToldLink'
  BY <1>1, <1>2, <1>5 DEF ToldLink
<1>14. ToldEnd' /\ Fresh'
  BY <1>1, <1>2, <1>5 DEF ToldEnd, Fresh
<1>15. Opened'
  BY <1>1, <1>2, <1>5 DEF Opened
<1>16. QED
  BY <1>6, <1>6b, <1>7, <1>8, <1>9, <1>10, <1>11, <1>12, <1>13, <1>14, <1>15 DEF Driver, Cfg

(* Every event that the worker can take.                                   *)
LEMMA HandlesCourse ==
  ASSUME TypeOK, Driver, Cfg, events # << >>, HandlesEvent(Head(events))
  PROVE  Driver' /\ Cfg'
<1> DEFINE e == Head(events)
<1>1. vif \in Vifs /\ e \in Events /\ Flags
  BY Taken DEF TypeOK, Driver
<1>2. ~(vif.eap /\ vif.assoc)
  BY <1>1 DEF Flags
<1>3. NextEvent
  BY DEF HandlesEvent, LinkUp, LinkDown, NoNetwork, Other, RoamingStatus
<1>4. Ev = "idle"
  BY <1>3, Taking
<1> HIDE DEF e
<1>5. CASE LinkUp(e)
  <2> DEFINE w == Noted(vif, e)
  <2>1. /\ w.connecting = vif.connecting /\ w.connected = vif.connected
        /\ w.sup = vif.sup /\ w.ft = vif.ft /\ ~(w.eap /\ w.assoc)
        /\ w.bssid = IF e.code = "up" THEN e.bss ELSE vif.bssid
        /\ e.code \in {"up", "sup"} /\ w \in Vifs
        /\ e.code = "up" => ~vif.sup \/ vif.eap
        /\ e.code = "sup" => vif.assoc
    BY <1>1, <1>2, <1>5, NotedFields, VifTypes DEF LinkUp
  <2> HIDE DEF w
  <2>2. IF Roaming(w, e)
          THEN vif' = w /\ Goes("event", "roamed") /\ UNCHANGED << posted, results >>
          ELSE ConnectSucceeds(w)
    BY <1>5 DEF LinkUp, w
  <2>3. CASE Roaming(w, e)
    BY <1>3, <2>1, <2>2, <2>3, RoamTaken DEF Roaming, e
  <2>4. CASE ~Roaming(w, e)
    <3>1. LET x == Answering(w)
          IN  /\ ~x.connecting /\ x.connected = w.connected /\ x.bssid = w.bssid
              /\ x.sup = w.sup /\ x.ft = w.ft /\ x.eap = w.eap /\ x.assoc = w.assoc
      BY <2>1, VifFields
    <3>2. vif' = Answering(w) /\ UNCHANGED << posted, results >>
      BY <2>2, <2>4 DEF ConnectSucceeds
    <3>3. CASE vif.connecting
      <4>1. Goes("event", "complete")
        BY <2>1, <2>2, <2>4, <3>3 DEF ConnectSucceeds
      <4>2. QED
        BY <1>3, <2>1, <3>1, <3>2, <3>3, <4>1, JoinTaken DEF e
    <3>4. CASE ~vif.connecting
      <4>1. th' = th
        BY <2>1, <2>2, <2>4, <3>4 DEF ConnectSucceeds
      <4>2. /\ vif'.connecting = vif.connecting /\ vif'.connected = vif.connected
            /\ vif'.bssid = (IF e.code = "up" THEN e.bss ELSE vif.bssid)
            /\ vif'.sup = vif.sup /\ vif'.ft = vif.ft /\ ~(vif'.eap /\ vif'.assoc)
        <5>1. vif.connecting \in BOOLEAN /\ vif'.connecting \in BOOLEAN
          BY <1>1, <2>1, <3>2, VifTypes DEF Vifs
        <5>2. QED
          BY <2>1, <3>1, <3>2, <3>4, <5>1
      <4>3. ~(e.code = "up" /\ vif.connected /\ ~vif.ft)
        BY <2>1, <2>4 DEF Roaming
      <4>4. QED
        BY <1>3, <2>1, <3>2, <3>4, <4>1, <4>2, <4>3, NotedTaken DEF e
    <3>5. QED
      BY <3>3, <3>4
  <2>5. QED
    BY <2>3, <2>4
<1>6. CASE LinkDown(e)
  <2>1. e.code \in {"down", "fail"}
    BY <1>6 DEF LinkDown, IsLinkdown
  <2>2. CASE NotMine(e)
    <3>1. vif' = NoFlags(vif) /\ UNCHANGED << posted, results, th >>
      BY <1>6, <2>2 DEF LinkDown
    <3>2. LET w == NoFlags(vif)
          IN  /\ w.connecting = vif.connecting /\ w.connected = vif.connected /\ w.bssid = vif.bssid
              /\ w.sup = vif.sup /\ w.ft = vif.ft /\ ~w.eap /\ ~w.assoc
      BY <1>1, VifFields
    <3>3. QED
      BY <1>3, <2>1, <2>2, <3>1, <3>2, LossIgnored DEF e
  <2>3. CASE ~NotMine(e) /\ vif.connected
    <3>1. ConnectDoneFailed(vif) /\ Goes("event", "disassoc")
          /\ vif' = [NoFlags(Answering(vif)) EXCEPT !.connected = FALSE]
      BY <1>6, <2>3 DEF LinkDown
    <3>2. Answering(vif) \in Vifs /\ NoFlags(Answering(vif)) \in Vifs
      BY <1>1, VifTypes
    <3>3. LET w == NoFlags(Answering(vif))
          IN  ~w.connecting /\ w.sup = vif.sup /\ w.ft = vif.ft /\ ~w.eap /\ ~w.assoc
      BY <1>1, <3>2, VifFields
    <3>4. /\ ~vif'.connecting /\ ~vif'.connected /\ ~vif'.eap /\ ~vif'.assoc
          /\ vif'.sup = vif.sup /\ vif'.ft = vif.ft
      BY <3>1, <3>2, <3>3 DEF Vifs
    <3>5. QED
      BY <1>3, <2>1, <2>3, <3>1, <3>4, LossTaken DEF e
  <2>4. CASE ~NotMine(e) /\ ~vif.connected
    <3>1. vif.connecting /\ ConnectDoneFailed(vif) /\ LinkDownEnds(vif)
      BY <1>6, <2>4 DEF LinkDown, NotMine
    <3>2. PICK pc \in {"idle", "unkey"} : Goes("event", pc)
      BY <3>1 DEF LinkDownEnds
    <3>3. Answering(vif) \in Vifs /\ NoFlags(Answering(vif)) \in Vifs
      BY <1>1, VifTypes
    <3>4. LET w == NoFlags(Answering(vif))
          IN  /\ ~w.connecting /\ w.connected = vif.connected /\ ~w.eap /\ ~w.assoc
              /\ ~InitProf(w).connecting /\ InitProf(w).connected = vif.connected
              /\ ~InitProf(w).eap /\ ~InitProf(w).assoc
      BY <1>1, <3>3, VifFields
    <3>5. ~vif'.connecting /\ ~vif'.connected /\ ~vif'.eap /\ ~vif'.assoc
      BY <2>4, <3>1, <3>4 DEF LinkDownEnds
    <3>6. QED
      BY <1>3, <2>1, <2>4, <3>1, <3>2, <3>5, FailureTaken DEF e
  <2>5. QED
    BY <2>2, <2>3, <2>4
<1>7. CASE NoNetwork(e)
  <2>1. e.code = "badkey" /\ ConnectDoneFailed(vif) /\ th' = th
        /\ vif' = IF vif.connecting THEN NoFlags(Answering(vif)) ELSE vif
    BY <1>7 DEF NoNetwork, IsNonetwork, IsLinkdown
  <2>2. Answering(vif) \in Vifs
    BY <1>1, VifTypes
  <2>3. LET w == NoFlags(Answering(vif))
        IN  /\ ~w.connecting /\ w.connected = vif.connected /\ w.bssid = vif.bssid
            /\ w.sup = vif.sup /\ w.ft = vif.ft /\ ~w.eap /\ ~w.assoc
    BY <1>1, <2>2, VifFields
  <2>4. /\ ~vif'.connecting /\ vif'.connected = vif.connected /\ vif'.bssid = vif.bssid
        /\ vif'.sup = vif.sup /\ vif'.ft = vif.ft /\ ~(vif'.eap /\ vif'.assoc)
    BY <1>2, <2>1, <2>3
  <2>5. QED
    BY <1>3, <2>1, <2>4, BadKeyTaken DEF e
<1>8. CASE Other(e)
  <2>1. e.code \in {"up", "sup"} /\ ~IsLinkup(vif, e) /\ vif' = Noted(vif, e)
        /\ UNCHANGED << posted, results, th >>
    BY <1>8 DEF Other
  <2>2. /\ vif'.connecting = vif.connecting /\ vif'.connected = vif.connected
        /\ vif'.bssid = (IF e.code = "up" THEN e.bss ELSE vif.bssid)
        /\ vif'.sup = vif.sup /\ vif'.ft = vif.ft /\ ~(vif'.eap /\ vif'.assoc)
        /\ e.code = "up" => vif.sup /\ ~vif.eap
        /\ e.code = "sup" => ~(vif.sup /\ vif.assoc)
        /\ vif'.eap = (vif.eap \/ (vif.sup /\ e.code = "sup"))
        /\ vif'.assoc = (vif.assoc \/ (vif.sup /\ e.code = "up"))
    BY <1>1, <1>2, <2>1, NotedFields
  <2>3. QED
    BY <1>3, <2>1, <2>2, NotedTaken DEF e
<1>9. CASE RoamingStatus(e)
  <2>1. e.code = "roam"
    BY <1>9 DEF RoamingStatus
  <2>2. CASE ~vif.connected
    <3>1. ~vif.connecting
      <4>1. Codes /\ WillAnswer /\ Call
        BY DEF Driver, Cfg
      <4>2. QED
        BY <1>4, <2>1, <2>2, <4>1 DEF WillAnswer, Answer, Call, Awaited, Attached, e
    <3>2. UNCHANGED << posted, results, vif, th >>
      BY <1>1, <1>9, <2>2, <3>1, VifFields DEF RoamingStatus, ConnectSucceeds
    <3>3. QED
      BY <1>3, <2>1, <2>2, <3>1, <3>2, RoamIgnored DEF e
  <2>3. CASE vif.connected
    <3>1. vif.ft
      <4>1. Codes /\ Keyed
        BY DEF Driver
      <4>2. fw.key \in Ft
        BY <2>1, <4>1, Taken DEF Codes, e
      <4>3. QED
        BY <2>3, <4>1, <4>2 DEF Keyed, Profile, Reset, Ft, Lively, Attached
    <3>2. vif' = [vif EXCEPT !.bssid = e.bss] /\ Goes("event", "roamed") /\ UNCHANGED << posted, results >>
      BY <1>9, <2>3, <3>1 DEF RoamingStatus
    <3>3. /\ vif'.connected = vif.connected /\ vif'.connecting = vif.connecting /\ vif'.bssid = e.bss
          /\ vif'.sup = vif.sup /\ vif'.ft = vif.ft /\ vif'.eap = vif.eap /\ vif'.assoc = vif.assoc
      BY <1>1, <3>2 DEF Vifs
    <3>4. QED
      BY <1>2, <1>3, <2>1, <2>3, <3>2, <3>3, RoamTaken DEF e
  <2>4. QED
    BY <2>2, <2>3
<1>10. QED
  BY <1>5, <1>6, <1>7, <1>8, <1>9 DEF HandlesEvent, e

-----------------------------------------------------------------------------
(* The worker goes on after it slept.                                      *)

LEMMA Going ==
  ASSUME TypeOK, NEW pc \in Pcs, Goes("event", pc)
  PROVE  th'["call"] = th["call"] /\ Ev' = pc
<1>1. th \in [Threads -> ThreadStates] /\ "event" \in Threads /\ "call" \in Threads
  BY DEF TypeOK, Threads
<1>2. QED
  BY <1>1 DEF Goes, Ev, ThreadStates

LEMMA Posting ==
  ASSUME TypeOK, NEW type \in {"connected", "failed", "roamed", "disconnected"}, NEW bss \in Addrs,
         posted' = Append(posted, Msg(type, bss))
  PROVE  /\ posted' # << >> /\ (posted # << >> => Head(posted') = Head(posted))
         /\ posted = << >> => Head(posted').type = type
         /\ Latest(posted', wdev.addr) = bss
         /\ Told(posted', {"connected"}) <=> type = "connected" \/ Told(posted, {"connected"})
         /\ Told(posted', {"failed"}) <=> type = "failed" \/ Told(posted, {"failed"})
         /\ Told(posted', {"failed", "disconnected"})
              <=> type \in {"failed", "disconnected"} \/ Told(posted, {"failed", "disconnected"})
         /\ type = "disconnected" \/ (OverAtLast(posted) /\ type # "connected") => OverAtLast(posted')
<1> DEFINE m == Msg(type, bss)
<1>1. m \in Messages /\ m.type = type /\ m.bss = bss /\ posted \in Seq(Messages)
  BY DEF Msg, Messages, TypeOK
<1> HIDE DEF m
<1>2. posted' = Append(posted, m)
  BY DEF m
<1>3. Latest(posted', wdev.addr) = bss
  <2>1. \A a : Latest(Append(posted, m), a) = m.bss
    BY <1>1, LatestSteps
  <2>2. QED
    BY <1>1, <1>2, <2>1
<1>4. \A T : Told(posted', T) <=> type \in T \/ Told(posted, T)
  BY <1>1, <1>2, ToldAppend
<1>5. type = "disconnected" \/ (OverAtLast(posted) /\ type # "connected") => OverAtLast(posted')
  BY <1>1, <1>2, OverSteps
<1>6. /\ posted' # << >> /\ (posted # << >> => Head(posted') = Head(posted))
      /\ posted = << >> => Head(posted').type = type
  BY <1>1, <1>2, Queue
<1>7. /\ Told(posted', {"connected"}) <=> type = "connected" \/ Told(posted, {"connected"})
      /\ Told(posted', {"failed"}) <=> type = "failed" \/ Told(posted, {"failed"})
      /\ Told(posted', {"failed", "disconnected"})
           <=> type \in {"failed", "disconnected"} \/ Told(posted, {"failed", "disconnected"})
  BY <1>4
<1>8. QED
  BY <1>3, <1>5, <1>6, <1>7

LEMMA CompletedCourse ==
  ASSUME TypeOK, TypeOK', Driver, Cfg, Completed
  PROVE  Driver' /\ Cfg'
<1> USE DEF Calling, Leave, Attached, Awaited, Lively, Doomed
<1> Flags /\ Keyed /\ Ebb /\ Route /\ Ends /\ Codes /\ Joining /\ Held /\ Worker /\ WillAnswer
  BY DEF Driver
<1> Call /\ ToldLink /\ ToldEnd /\ Fresh /\ Opened
  BY DEF Cfg
<1>1. /\ Ev = "complete" /\ events' = events /\ wdev' = wdev /\ fw' = fw /\ open' = open
      /\ th'["call"] = th["call"] /\ Ev' = "idle"
  BY Going DEF Completed, Ev, Pcs
<1>2. vif \in Vifs /\ vif.bssid \in Addrs
  BY DEF TypeOK, Vifs
<1>3. /\ vif'.connected /\ vif'.connecting = vif.connecting /\ vif'.bssid = vif.bssid
      /\ vif'.sup = vif.sup /\ vif'.ft = vif.ft /\ vif'.eap = vif.eap /\ vif'.assoc = vif.assoc
  BY <1>2 DEF Completed, Vifs
<1>4. /\ posted' # << >> /\ (posted # << >> => Head(posted') = Head(posted))
      /\ posted = << >> => Head(posted').type = "connected"
      /\ Latest(posted', wdev.addr) = vif.bssid
      /\ Told(posted', {"failed", "disconnected"}) <=> Told(posted, {"failed", "disconnected"})
  BY <1>2, Posting DEF Completed
<1>5. Flags' /\ Keyed' /\ Worker'
  BY <1>1, <1>3, <1>4 DEF Flags, Keyed, Worker, Profile, Reset
<1>5b. Ebb'
  BY <1>1, <1>3 DEF Ebb
<1>6. Route'
  BY <1>1, <1>3, <1>4 DEF Route
<1>7. Ends'
  BY <1>1, <1>3, <1>4 DEF Ends
<1>8. Codes'
  BY <1>1, <1>3, <1>4 DEF Codes
<1>9. Joining' /\ Held'
  BY <1>1, <1>3, <1>4 DEF Joining, Held
<1>10. WillAnswer'
  BY <1>1, <1>3, <1>4 DEF Worker, WillAnswer, Answer
<1>11. Call'
  BY <1>1, <1>3, <1>4 DEF Call, Profile
<1>12. ToldLink'
  BY <1>1, <1>3, <1>4 DEF ToldLink
<1>13. ToldEnd' /\ Fresh'
  BY <1>1, <1>3, <1>4 DEF ToldEnd, Fresh
<1>14. Opened'
  BY <1>1, <1>3, <1>4 DEF Opened
<1>15. QED
  BY <1>5, <1>5b, <1>6, <1>7, <1>8, <1>9, <1>10, <1>11, <1>12, <1>13, <1>14 DEF Driver, Cfg

LEMMA RoamedCourse ==
  ASSUME TypeOK, TypeOK', Driver, Cfg, Roamed
  PROVE  Driver' /\ Cfg'
<1> USE DEF Calling, Leave, Attached, Awaited, Lively, Doomed
<1> Flags /\ Keyed /\ Ebb /\ Route /\ Ends /\ Codes /\ Joining /\ Held /\ Worker /\ WillAnswer
  BY DEF Driver
<1> Call /\ ToldLink /\ ToldEnd /\ Fresh /\ Opened
  BY DEF Cfg
<1>1. /\ Ev = "roamed" /\ events' = events /\ wdev' = wdev /\ fw' = fw /\ open' = open
      /\ th'["call"] = th["call"] /\ Ev' = "idle"
  BY Going DEF Roamed, Ev, Pcs, history
<1>2. vif \in Vifs /\ vif.bssid \in Addrs /\ Answering(vif) \in Vifs
  BY VifTypes DEF TypeOK, Vifs
<1>3. /\ vif'.connected /\ ~vif'.connecting /\ vif'.bssid = vif.bssid
      /\ vif'.sup = vif.sup /\ vif'.ft = vif.ft /\ vif'.eap = vif.eap /\ vif'.assoc = vif.assoc
  <2>1. LET w == Answering(vif)
        IN  /\ ~w.connecting /\ w.bssid = vif.bssid
            /\ w.sup = vif.sup /\ w.ft = vif.ft /\ w.eap = vif.eap /\ w.assoc = vif.assoc
    BY <1>2, VifFields
  <2>2. vif' = [Answering(vif) EXCEPT !.connected = TRUE]
    BY DEF Roamed
  <2>3. QED
    BY <1>2, <2>1, <2>2 DEF Vifs
<1>4. wdev.ssid =>
      /\ posted' # << >> /\ (posted # << >> => Head(posted') = Head(posted))
      /\ Latest(posted', wdev.addr) = vif.bssid
      /\ Told(posted', {"failed", "disconnected"}) <=> Told(posted, {"failed", "disconnected"})
  BY <1>2, Posting DEF Roamed
<1>5. Flags' /\ Keyed' /\ Worker'
  BY <1>1, <1>3, <1>4 DEF Flags, Keyed, Worker, Profile, Reset
<1>5b. Ebb'
  BY <1>1, <1>3 DEF Ebb
<1>6. Route'
  BY <1>1, <1>3, <1>4 DEF Route
<1>7. Ends'
  BY <1>1, <1>3, <1>4 DEF Ends
<1>8. Codes'
  BY <1>1, <1>3, <1>4 DEF Codes
<1>9. Joining' /\ Held'
  BY <1>1, <1>3, <1>4 DEF Joining, Held
<1>10. WillAnswer'
  BY <1>1, <1>3, <1>4 DEF WillAnswer, Answer
<1>11. Call'
  BY <1>1, <1>3, <1>4 DEF Call, Profile
<1>12. ToldLink'
  BY <1>1, <1>3, <1>4 DEF ToldLink
<1>13. ToldEnd' /\ Fresh'
  BY <1>1, <1>3, <1>4 DEF ToldEnd, Fresh
<1>14. Opened'
  BY <1>1, <1>3, <1>4 DEF Opened
<1>15. QED
  BY <1>5, <1>5b, <1>6, <1>7, <1>8, <1>9, <1>10, <1>11, <1>12, <1>13, <1>14 DEF Driver, Cfg

(* DISASSOC done, or with nothing to end.                                  *)
LEMMA Gone ==
  ASSUME TypeOK, Disassoc \/ DisassocFails, ~astray'
  PROVE  /\ fw'.link = NoBss /\ ~fw'.joining /\ fw'.key = fw.key
         /\ fw.link = NoBss => events' = events
         /\ fw.link # NoBss => events' = Append(events, Event("down", fw.link))
         /\ fw.link # NoBss => EndsIn(events', {"down", "fail"}) /\ events' # << >>
<1>1. /\ fw'.link = NoBss /\ ~fw'.joining /\ fw'.key = fw.key
      /\ fw.link = NoBss => events' = events
      /\ fw.link # NoBss => events' = Append(events, Event("down", fw.link))
  <2>1. CASE Disassoc
    BY <2>1 DEF Disassoc, TypeOK
  <2>2. CASE DisassocFails
    BY <2>2 DEF DisassocFails
  <2>3. QED
    BY <2>1, <2>2
<1>2. Event("down", fw.link) \in Events /\ events \in Seq(Events) /\ Event("down", fw.link).code = "down"
  BY EventTypes DEF TypeOK, Event
<1>3. fw.link # NoBss => EndsIn(events', {"down", "fail"}) /\ events' # << >>
  BY <1>1, <1>2, Put
<1>4. QED
  BY <1>1, <1>3

LEMMA DisassociatedCourse ==
  ASSUME TypeOK, TypeOK', Driver, Cfg, Disassociated, ~astray'
  PROVE  Driver' /\ Cfg'
<1> USE DEF Calling, Leave, Attached, Awaited, Lively, Doomed
<1> Flags /\ Keyed /\ Ebb /\ Route /\ Ends /\ Codes /\ Joining /\ Held /\ Worker /\ WillAnswer
  BY DEF Driver
<1> Call /\ ToldLink /\ ToldEnd /\ Fresh /\ Opened
  BY DEF Cfg
<1>0. /\ fw'.link = NoBss /\ ~fw'.joining /\ fw'.key = fw.key
      /\ fw.link = NoBss => events' = events
      /\ fw.link # NoBss => events' = Append(events, Event("down", fw.link))
      /\ fw.link # NoBss => EndsIn(events', {"down", "fail"}) /\ events' # << >>
  BY Gone DEF Disassociated
<1>1. /\ Ev = "disassoc" /\ wdev' = wdev /\ open' = open /\ th'["call"] = th["call"]
      /\ Ev' \in {"idle", "unkey"} /\ fw'.link = NoBss /\ ~fw'.joining /\ fw'.key = fw.key
  BY <1>0, Going DEF Disassociated, Ev, Pcs, LinkDownEnds
<1>2. vif \in Vifs /\ Answering(vif) \in Vifs /\ NoFlags(Answering(vif)) \in Vifs
  BY VifTypes DEF TypeOK
<1>3. ~vif.connected /\ ~vif'.connected /\ ~vif'.connecting /\ ~vif'.eap /\ ~vif'.assoc
  <2>1. ~vif.connected
    BY <1>1 DEF Worker
  <2>2. LET w == NoFlags(Answering(vif))
        IN  /\ ~w.connecting /\ w.connected = vif.connected /\ ~w.eap /\ ~w.assoc
            /\ ~InitProf(w).connecting /\ InitProf(w).connected = vif.connected
            /\ ~InitProf(w).eap /\ ~InitProf(w).assoc
    BY <1>2, VifFields
  <2>3. QED
    BY <2>1, <2>2 DEF Disassociated, LinkDownEnds
<1>4. posted' # << >> /\ OverAtLast(posted')
  BY AddrTypes, Posting DEF Disassociated
<1>5. /\ Has(events', {"roam"}) => Has(events, {"roam"})
      /\ fw.link = NoBss => events' = events
      /\ fw.link # NoBss => EndsIn(events', {"down", "fail"}) /\ events' # << >>
  <2>1. CASE fw.link = NoBss
    BY <1>0, <2>1
  <2>2. CASE fw.link # NoBss
    <3>1. events' = Append(events, Event("down", fw.link))
      BY <1>0, <2>2
    <3>2. Event("down", fw.link) \in Events /\ events \in Seq(Events) /\ Event("down", fw.link).code = "down"
      BY EventTypes DEF TypeOK, Event
    <3>3. QED
      BY <1>0, <2>2, <3>1, <3>2, Put
  <2>3. QED
    BY <2>1, <2>2
<1>6. Flags' /\ Keyed' /\ Worker'
  BY <1>1, <1>3, <1>4, <1>5 DEF Flags, Keyed, Worker, Profile, Reset
<1>6b. Ebb'
  BY <1>1, <1>3, <1>5 DEF Ebb
<1>7. Route'
  BY <1>1, <1>3, <1>4, <1>5 DEF Route
<1>8. Ends'
  BY <1>1, <1>3, <1>4, <1>5 DEF Ends
<1>9. Codes'
  BY <1>1, <1>3, <1>4, <1>5 DEF Codes
<1>10. Joining' /\ Held'
  BY <1>1, <1>3, <1>4, <1>5 DEF Joining, Held
<1>11. WillAnswer'
  BY <1>1, <1>3, <1>4, <1>5 DEF WillAnswer, Answer
<1>12. Call'
  BY <1>1, <1>3, <1>4, <1>5 DEF Call, Profile
<1>13. ToldLink'
  BY <1>1, <1>3, <1>4, <1>5 DEF ToldLink
<1>14. ToldEnd' /\ Fresh'
  BY <1>1, <1>3, <1>4, <1>5 DEF ToldEnd, Fresh
<1>15. Opened'
  BY <1>1, <1>3, <1>4, <1>5 DEF Opened
<1>16. QED
  BY <1>6, <1>6b, <1>7, <1>8, <1>9, <1>10, <1>11, <1>12, <1>13, <1>14, <1>15 DEF Driver, Cfg

LEMMA UnkeyedCourse ==
  ASSUME TypeOK, TypeOK', Driver, Cfg, Unkeyed
  PROVE  Driver' /\ Cfg'
<1> USE DEF Calling, Leave, Attached, Awaited, Lively, Doomed
<1> Flags /\ Keyed /\ Ebb /\ Route /\ Ends /\ Codes /\ Joining /\ Held /\ Worker /\ WillAnswer
  BY DEF Driver
<1> Call /\ ToldLink /\ ToldEnd /\ Fresh /\ Opened
  BY DEF Cfg
<1>1. /\ Ev = "unkey" /\ events' = events /\ wdev' = wdev /\ fw' = fw /\ open' = open /\ posted' = posted
      /\ th'["call"] = th["call"] /\ Ev' = "idle"
  BY Going DEF Unkeyed, Ev, Pcs, history
<1>2. /\ vif'.connecting = vif.connecting /\ ~vif.connected /\ ~vif'.connected
      /\ vif'.eap = vif.eap /\ vif'.assoc = vif.assoc
  <2>1. ~vif.connected /\ vif \in Vifs
    BY <1>1 DEF Worker, TypeOK
  <2>2. LET w == InitProf(vif)
        IN  w.connecting = vif.connecting /\ w.connected = vif.connected /\ w.eap = vif.eap /\ w.assoc = vif.assoc
    BY <2>1, VifFields
  <2>3. QED
    BY <2>1, <2>2 DEF Unkeyed
<1>3. ~Attached /\ (vif.connecting => Calling)
  BY <1>1, <1>2 DEF Worker
<1>4. Flags' /\ Keyed' /\ Worker'
  BY <1>1, <1>2, <1>3 DEF Flags, Keyed, Worker, Profile, Reset
<1>4b. Ebb'
  BY <1>1, <1>2, <1>3 DEF Ebb
<1>5. Route'
  BY <1>1, <1>2, <1>3 DEF Route
<1>6. Ends'
  BY <1>1, <1>2, <1>3 DEF Ends
<1>7. Codes'
  BY <1>1, <1>2, <1>3 DEF Codes
<1>8. Joining' /\ Held'
  BY <1>1, <1>2, <1>3 DEF Joining, Held
<1>9. WillAnswer'
  BY <1>1, <1>2, <1>3 DEF WillAnswer, Answer
<1>10. Call'
  BY <1>1, <1>2, <1>3 DEF Call, Profile
<1>11. ToldLink'
  BY <1>1, <1>2, <1>3 DEF ToldLink
<1>12. ToldEnd' /\ Fresh'
  BY <1>1, <1>2, <1>3 DEF ToldEnd, Fresh
<1>13. Opened'
  BY <1>1, <1>2, <1>3 DEF Opened
<1>14. QED
  BY <1>4, <1>4b, <1>5, <1>6, <1>7, <1>8, <1>9, <1>10, <1>11, <1>12, <1>13 DEF Driver, Cfg

LEMMA EventCourse == TypeOK /\ TypeOK' /\ Driver /\ Cfg /\ EventStep /\ ~astray' => Driver' /\ Cfg'
  BY HandlesCourse, CompletedCourse, RoamedCourse, DisassociatedCourse, UnkeyedCourse DEF EventStep

-----------------------------------------------------------------------------
(* The work item of cfg80211, which no call sleeps through.                *)
LEMMA WorkCourse ==
  ASSUME TypeOK, TypeOK', OneCall, Driver, Cfg, EventWork
  PROVE  Driver' /\ Cfg'
<1> USE DEF Calling, Leave, Attached, Awaited, Lively, Doomed
<1> Flags /\ Keyed /\ Ebb /\ Route /\ Ends /\ Codes /\ Joining /\ Held /\ Worker /\ WillAnswer
  BY DEF Driver
<1> Call /\ ToldLink /\ ToldEnd /\ Fresh /\ Opened
  BY DEF Cfg
<1> USE DEF Ev
<1> DEFINE m == Head(posted)
           s == Tail(posted)
<1>1. /\ UNCHANGED << vif, fw, events, th >> /\ ~open' /\ th["call"].pc = "idle"
      /\ posted # << >> /\ posted' = s
  BY DEF EventWork, OneCall
<1>2. posted \in Seq(Messages) /\ m \in Messages /\ s \in Seq(Messages)
  BY <1>1, Queue DEF TypeOK
<1>3. /\ m.type \in {"connected", "failed", "roamed", "disconnected"}
      /\ wdev.connected \in BOOLEAN /\ wdev.ssid \in BOOLEAN
      /\ wdev' \in [connected : BOOLEAN, ssid : BOOLEAN, addr : Addrs]
  BY <1>2 DEF Messages, TypeOK
<1>4. \A T : Told(posted, T) <=> m.type \in T \/ Told(s, T)
  BY <1>1, <1>2, ToldTail
<1>5. /\ Told(posted, {"connected"}) <=> m.type = "connected" \/ Told(s, {"connected"})
      /\ Told(posted, {"failed"}) <=> m.type = "failed" \/ Told(s, {"failed"})
      /\ Told(posted, {"failed", "disconnected"})
           <=> m.type \in {"failed", "disconnected"} \/ Told(s, {"failed", "disconnected"})
  BY <1>4
<1>6. OverAtLast(posted) => OverAtLast(s) \/ (m.type = "disconnected" /\ ~Told(s, {"connected"}))
  BY <1>2, OverSteps
<1>7. Latest(posted, wdev.addr) = Latest(s, m.bss)
  BY <1>1, <1>2, LatestSteps
<1> HIDE DEF m, s
<1>8. ConnectResult(m) \/ RoamResult(m) \/ DisconnectResult(m)
  BY DEF EventWork, m
<1>9. /\ m.type = "connected" /\ wdev.ssid => wdev'.connected /\ wdev'.ssid /\ wdev'.addr = m.bss
      /\ m.type = "connected" /\ ~wdev.ssid => wdev' = wdev
      /\ m.type = "failed" => ~wdev'.ssid /\ wdev'.connected = wdev.connected
      /\ m.type = "roamed" => /\ wdev'.connected = wdev.connected /\ wdev'.ssid = wdev.ssid
                              /\ wdev.connected => wdev'.addr = m.bss
      /\ m.type = "disconnected" => ~wdev'.ssid /\ ~wdev'.connected
  BY <1>8 DEF ConnectResult, RoamResult, DisconnectResult, TypeOK
<1>9a. Attached /\ ~Doomed =>
         \/ m.type = "roamed" /\ wdev.connected
         \/ m.type = "connected" /\ wdev.ssid
  BY <1>1, <1>3, <1>5 DEF ToldLink, m
<1>10. Flags' /\ Keyed' /\ Worker'
  BY <1>1 DEF Flags, Keyed, Worker, Profile, Reset
<1>10b. Ebb'
  BY <1>1 DEF Ebb
<1>11. Route'
  BY <1>1 DEF Route
<1>12. Ends'
  BY <1>1 DEF Ends
<1>13. Codes'
  BY <1>1 DEF Codes
<1>14. Joining' /\ Held'
  BY <1>1 DEF Joining, Held
<1>15. WillAnswer'
  BY <1>1 DEF WillAnswer, Answer
<1>16. Call'
  BY <1>1 DEF Call, Profile
<1>17. ToldLink'
  BY <1>1, <1>3, <1>5, <1>7, <1>9, <1>9a DEF ToldLink
<1>18. ToldEnd' /\ Fresh'
  BY <1>1, <1>3, <1>5, <1>6, <1>9 DEF ToldEnd, Fresh
<1>19. Opened'
  BY <1>1 DEF Opened
<1>20. QED
  BY <1>10, <1>10b, <1>11, <1>12, <1>13, <1>14, <1>15, <1>16, <1>17, <1>18, <1>19 DEF Driver, Cfg

-----------------------------------------------------------------------------
(* The firmware: what it appends is told of the access point it was at.    *)

(* Only the queue of events and the link change.                           *)
LEMMA FwFrame ==
  ASSUME TypeOK, Firmware, Driver, Cfg, fw'.key = fw.key,
         Ebb', Route', Ends', Codes', Joining', Held', WillAnswer', Call', Has(events, {"down"}) => Has(events', {"down"})
  PROVE  Driver' /\ Cfg'
<1> USE DEF Calling, Leave, Attached, Awaited, Lively, Doomed
<1> Flags /\ Keyed /\ Ebb /\ Route /\ Ends /\ Codes /\ Joining /\ Held /\ Worker /\ WillAnswer
  BY DEF Driver
<1> Call /\ ToldLink /\ ToldEnd /\ Fresh /\ Opened
  BY DEF Cfg
<1>1. UNCHANGED << wdev, posted, vif, th, open >> /\ Ev' = Ev
  BY DEF Firmware, history, Ev
<1>2. Flags' /\ Keyed' /\ Worker'
  BY <1>1 DEF Flags, Keyed, Worker, Profile, Reset
<1>3. ToldLink' /\ ToldEnd' /\ Fresh' /\ Opened'
  BY <1>1 DEF ToldLink, ToldEnd, Fresh, Opened
<1>4. QED
  BY <1>2, <1>3 DEF Driver, Cfg

(* The link is lost, or the join has failed while there was a link.        *)
LEMMA LossCourse ==
  ASSUME TypeOK, Firmware, Driver, Cfg, fw.link # NoBss,
         NEW e \in Events, e.code = "down", e.bss = fw.link, events' = Append(events, e),
         fw'.link = NoBss, fw'.key = fw.key, fw'.joining => fw.joining
  PROVE  Driver' /\ Cfg'
<1> USE DEF Calling, Leave, Attached, Awaited, Lively, Doomed
<1> Flags /\ Keyed /\ Ebb /\ Route /\ Ends /\ Codes /\ Joining /\ Held /\ Worker /\ WillAnswer
  BY DEF Driver
<1> Call /\ ToldLink /\ ToldEnd /\ Fresh /\ Opened
  BY DEF Cfg
<1>1. UNCHANGED << wdev, posted, vif, th, open >> /\ Ev' = Ev
  BY DEF Firmware, history, Ev
<1>2. vif.bssid \in Addrs /\ fw.link \in Addrs /\ events \in Seq(Events)
  BY DEF TypeOK, Vifs
<1> DEFINE t == Append(events, e)
<1>3. /\ t # << >> /\ Head(t) = IF events = << >> THEN e ELSE Head(events)
      /\ Has(t, {"down"}) <=> e.code = "down" \/ Has(events, {"down"})
      /\ Has(t, {"roam"}) <=> e.code = "roam" \/ Has(events, {"roam"})
      /\ Has(t, {"fail"}) <=> e.code = "fail" \/ Has(events, {"fail"})
      /\ Has(t, {"badkey", "fail"}) <=> e.code \in {"badkey", "fail"} \/ Has(events, {"badkey", "fail"})
      /\ Has(t, {"up", "sup", "badkey", "fail", "roam"})
           <=> e.code # "down" \/ Has(events, {"up", "sup", "badkey", "fail", "roam"})
      /\ Relinked(events, 0) /\ (e.code = "up" => Has(events, {"down"})) => Relinked(t, 0)
      /\ Relinked(events, 1) /\ (e.code = "up" => Has(events, {"down"})) => Relinked(t, 1)
      /\ Relinked(events, 2) /\ (e.code = "up" => Has(events, {"down"})) => Relinked(t, 2)
      /\ events = << >> => Relinked(t, 1)
      /\ EndsIn(t, {"down", "fail"}) <=> e.code \in {"down", "fail"}
      /\ ~Has(events, {"down"}) => LossLast(t)
      /\ Second(events, {"up"}) => Second(t, {"up"})
      /\ Second(events, {"sup", "badkey"}) => Second(t, {"sup", "badkey"})
      /\ \A b \in Addrs : Leads(events, vif.bssid, b) /\ (e.code = "down" => e.bss = b) =>
           Leads(t, vif.bssid, IF e.code \in {"up", "roam"} THEN e.bss ELSE b)
  BY <1>2, Put DEF After, Carries
<1> HIDE DEF t
<1>4. events' = t
  BY DEF t
<1>5. Awaited /\ Ev = "idle" /\ events = << >> => Attached
  BY DEF Held, Worker
<1>6. Route'
  BY <1>1, <1>2, <1>3, <1>4, <1>5 DEF Route
<1>6b. Ebb'
  BY <1>1, <1>3, <1>4 DEF Ebb
<1>7. Ends'
  BY <1>1, <1>2, <1>3, <1>4, <1>5 DEF Ends
<1>8. Codes'
  BY <1>1, <1>2, <1>3, <1>4, <1>5 DEF Codes
<1>9. Joining' /\ Held'
  BY <1>1, <1>2, <1>3, <1>4, <1>5 DEF Joining, Held
<1>10. WillAnswer'
  BY <1>1, <1>2, <1>3, <1>4, <1>5 DEF WillAnswer, Answer
<1>11. Call'
  BY <1>1, <1>2, <1>3, <1>4, <1>5 DEF Call, Profile
<1>12. QED
  BY <1>1, <1>2, <1>3, <1>4, <1>5, <1>6, <1>6b, <1>7, <1>8, <1>9, <1>10, <1>11, FwFrame

(* The join has failed where there is no link.                             *)
LEMMA FailCourse ==
  ASSUME TypeOK, Firmware, Driver, Cfg, fw.link = NoBss, fw.joining,
         NEW e \in Events, e.code = "fail", events' = Append(events, e),
         fw'.link = NoBss, fw'.key = fw.key, ~fw'.joining
  PROVE  Driver' /\ Cfg'
<1> USE DEF Calling, Leave, Attached, Awaited, Lively, Doomed
<1> Flags /\ Keyed /\ Ebb /\ Route /\ Ends /\ Codes /\ Joining /\ Held /\ Worker /\ WillAnswer
  BY DEF Driver
<1> Call /\ ToldLink /\ ToldEnd /\ Fresh /\ Opened
  BY DEF Cfg
<1>1. UNCHANGED << wdev, posted, vif, th, open >> /\ Ev' = Ev
  BY DEF Firmware, history, Ev
<1>2. vif.bssid \in Addrs /\ fw.link \in Addrs /\ events \in Seq(Events)
  BY DEF TypeOK, Vifs
<1> DEFINE t == Append(events, e)
<1>3. /\ t # << >> /\ Head(t) = IF events = << >> THEN e ELSE Head(events)
      /\ Has(t, {"down"}) <=> e.code = "down" \/ Has(events, {"down"})
      /\ Has(t, {"roam"}) <=> e.code = "roam" \/ Has(events, {"roam"})
      /\ Has(t, {"fail"}) <=> e.code = "fail" \/ Has(events, {"fail"})
      /\ Has(t, {"badkey", "fail"}) <=> e.code \in {"badkey", "fail"} \/ Has(events, {"badkey", "fail"})
      /\ Has(t, {"up", "sup", "badkey", "fail", "roam"})
           <=> e.code # "down" \/ Has(events, {"up", "sup", "badkey", "fail", "roam"})
      /\ Relinked(events, 0) /\ (e.code = "up" => Has(events, {"down"})) => Relinked(t, 0)
      /\ Relinked(events, 1) /\ (e.code = "up" => Has(events, {"down"})) => Relinked(t, 1)
      /\ Relinked(events, 2) /\ (e.code = "up" => Has(events, {"down"})) => Relinked(t, 2)
      /\ events = << >> => Relinked(t, 1)
      /\ EndsIn(t, {"down", "fail"}) <=> e.code \in {"down", "fail"}
      /\ ~Has(events, {"down"}) => LossLast(t)
      /\ Second(events, {"up"}) => Second(t, {"up"})
      /\ Second(events, {"sup", "badkey"}) => Second(t, {"sup", "badkey"})
      /\ \A b \in Addrs : Leads(events, vif.bssid, b) /\ (e.code = "down" => e.bss = b) =>
           Leads(t, vif.bssid, IF e.code \in {"up", "roam"} THEN e.bss ELSE b)
  BY <1>2, Put DEF After, Carries
<1> HIDE DEF t
<1>4. events' = t
  BY DEF t
<1>5. ~Calling /\ (Attached /\ Lively => Has(events, {"down"})) /\ (events = << >> => ~Has(events, {"down"}))
  BY HasEmpty DEF Joining, Ends
<1>6. Route'
  BY <1>1, <1>2, <1>3, <1>4, <1>5 DEF Route
<1>6b. Ebb'
  BY <1>1, <1>3, <1>4 DEF Ebb
<1>7. Ends'
  BY <1>1, <1>2, <1>3, <1>4, <1>5 DEF Ends
<1>8. Codes'
  BY <1>1, <1>2, <1>3, <1>4, <1>5 DEF Codes
<1>9. Joining' /\ Held'
  BY <1>1, <1>2, <1>3, <1>4, <1>5 DEF Joining, Held
<1>10. WillAnswer'
  BY <1>1, <1>2, <1>3, <1>4, <1>5 DEF WillAnswer, Answer
<1>11. Call'
  BY <1>1, <1>2, <1>3, <1>4, <1>5 DEF Call, Profile
<1>12. QED
  BY <1>1, <1>2, <1>3, <1>4, <1>5, <1>6, <1>6b, <1>7, <1>8, <1>9, <1>10, <1>11, FwFrame

(* The link to an access point is announced by one event: the firmware has *)
(* joined, or has roamed.                                                  *)
LEMMA LinkCourse ==
  ASSUME TypeOK, Firmware, Driver, Cfg, fw.joining \/ fw.link # NoBss,
         NEW e \in Events, e.bss # NoBss, events' = Append(events, e),
         fw'.link = e.bss, fw'.key = fw.key, ~fw'.joining,
         \/ e.code = "up" /\ (fw.key = "open" \/ (fw.key = "ft" /\ fw.link = NoBss))
         \/ e.code = "roam" /\ fw.key \in Ft /\ fw.link # NoBss
  PROVE  Driver' /\ Cfg'
<1> USE DEF Calling, Leave, Attached, Awaited, Lively, Doomed
<1> Flags /\ Keyed /\ Ebb /\ Route /\ Ends /\ Codes /\ Joining /\ Held /\ Worker /\ WillAnswer
  BY DEF Driver
<1> Call /\ ToldLink /\ ToldEnd /\ Fresh /\ Opened
  BY DEF Cfg
<1>1. UNCHANGED << wdev, posted, vif, th, open >> /\ Ev' = Ev
  BY DEF Firmware, history, Ev
<1>2. vif.bssid \in Addrs /\ fw.link \in Addrs /\ events \in Seq(Events)
  BY DEF TypeOK, Vifs
<1> DEFINE t == Append(events, e)
<1>3. /\ t # << >> /\ Head(t) = IF events = << >> THEN e ELSE Head(events)
      /\ Has(t, {"down"}) <=> e.code = "down" \/ Has(events, {"down"})
      /\ Has(t, {"roam"}) <=> e.code = "roam" \/ Has(events, {"roam"})
      /\ Has(t, {"fail"}) <=> e.code = "fail" \/ Has(events, {"fail"})
      /\ Has(t, {"badkey", "fail"}) <=> e.code \in {"badkey", "fail"} \/ Has(events, {"badkey", "fail"})
      /\ Has(t, {"up", "sup", "badkey", "fail", "roam"})
           <=> e.code # "down" \/ Has(events, {"up", "sup", "badkey", "fail", "roam"})
      /\ Relinked(events, 0) /\ (e.code = "up" => Has(events, {"down"})) => Relinked(t, 0)
      /\ Relinked(events, 1) /\ (e.code = "up" => Has(events, {"down"})) => Relinked(t, 1)
      /\ Relinked(events, 2) /\ (e.code = "up" => Has(events, {"down"})) => Relinked(t, 2)
      /\ events = << >> => Relinked(t, 1)
      /\ EndsIn(t, {"down", "fail"}) <=> e.code \in {"down", "fail"}
      /\ ~Has(events, {"down"}) => LossLast(t)
      /\ Second(events, {"up"}) => Second(t, {"up"})
      /\ Second(events, {"sup", "badkey"}) => Second(t, {"sup", "badkey"})
      /\ \A b \in Addrs : Leads(events, vif.bssid, b) /\ (e.code = "down" => e.bss = b) =>
           Leads(t, vif.bssid, IF e.code \in {"up", "roam"} THEN e.bss ELSE b)
  BY <1>2, Put DEF After, Carries
<1> HIDE DEF t
<1>4. events' = t
  BY DEF t
<1>5. /\ e.bss \in Addrs
      /\ events # << >> /\ Head(events).code = "fail" => Has(events, {"badkey", "fail"})
  BY Taken DEF Events
<1>6. Route'
  BY <1>1, <1>2, <1>3, <1>4, <1>5 DEF Route
<1>6b. Ebb'
  BY <1>1 DEF Ebb
<1>7. Ends'
  BY <1>1, <1>2, <1>3, <1>4, <1>5 DEF Ends
<1>8. Codes'
  BY <1>1, <1>2, <1>3, <1>4, <1>5 DEF Codes, Ends, Joining, Ft
<1>9. Joining' /\ Held'
  BY <1>1, <1>2, <1>3, <1>4, <1>5 DEF Joining, Held
<1>10. WillAnswer'
  BY <1>1, <1>2, <1>3, <1>4, <1>5 DEF WillAnswer, Answer, Held, Worker, FwSup, Ft
<1>11. Call'
  BY <1>1, <1>2, <1>3, <1>4, <1>5 DEF Call, Profile, Joining
<1>12. QED
  BY <1>1, <1>2, <1>3, <1>4, <1>5, <1>6, <1>6b, <1>7, <1>8, <1>9, <1>10, <1>11, FwFrame

LEMMA AppendTwo ==
  ASSUME NEW s \in Seq(Events), NEW x \in Events, NEW y \in Events
  PROVE  /\ s \o << x, y >> = Append(Append(s, x), y)
         /\ s = << >> => /\ Relinked(Append(Append(s, x), y), 2)
                         /\ y.code = "up" => Second(Append(Append(s, x), y), {"up"})
                         /\ y.code \in {"sup", "badkey"} => Second(Append(Append(s, x), y), {"sup", "badkey"})
<1>1. s \o << x, y >> = Append(Append(s, x), y)
  OBVIOUS
<1>2. Append(s, x) \in Seq(Events) /\ (s = << >> => Len(Append(s, x)) = 1)
  OBVIOUS
<1>3. s = << >> => Relinked(Append(Append(s, x), y), 2)
  BY <1>2, Queue DEF Relinked
<1>4. QED
  BY <1>1, <1>2, <1>3, SecondSteps

(* A supplicant in the firmware: the link and its keys are two events.     *)
LEMMA PairCourse ==
  ASSUME TypeOK, Firmware, Driver, Cfg, fw.joining \/ fw.link # NoBss,
         fw.key = "psk" \/ (fw.key = "ftpsk" /\ fw.link = NoBss),
         NEW x \in Events, NEW y \in Events, x.bss # NoBss, y.bss = x.bss,
         {x.code, y.code} = {"up", "sup"}, events' = events \o << x, y >>,
         fw'.link = x.bss, fw'.key = fw.key, ~fw'.joining
  PROVE  Driver' /\ Cfg'
<1> USE DEF Calling, Leave, Attached, Awaited, Lively, Doomed
<1> Flags /\ Keyed /\ Ebb /\ Route /\ Ends /\ Codes /\ Joining /\ Held /\ Worker /\ WillAnswer
  BY DEF Driver
<1> Call /\ ToldLink /\ ToldEnd /\ Fresh /\ Opened
  BY DEF Cfg
<1>1. UNCHANGED << wdev, posted, vif, th, open >> /\ Ev' = Ev
  BY DEF Firmware, history, Ev
<1>2. vif.bssid \in Addrs /\ fw.link \in Addrs /\ events \in Seq(Events) /\ x.bss \in Addrs
  BY DEF TypeOK, Vifs, Events
<1>3. \/ x.code = "up" /\ y.code = "sup"
      \/ x.code = "sup" /\ y.code = "up"
  OBVIOUS
<1> DEFINE s == Append(events, x)
           t == Append(s, y)
<1>4. /\ s \in Seq(Events) /\ s # << >> /\ Head(s) = IF events = << >> THEN x ELSE Head(events)
      /\ Has(s, {"down"}) <=> x.code = "down" \/ Has(events, {"down"})
      /\ Has(s, {"roam"}) <=> x.code = "roam" \/ Has(events, {"roam"})
      /\ Has(s, {"fail"}) <=> x.code = "fail" \/ Has(events, {"fail"})
      /\ Has(s, {"badkey", "fail"}) <=> x.code \in {"badkey", "fail"} \/ Has(events, {"badkey", "fail"})
      /\ Relinked(events, 0) /\ (x.code = "up" => Has(events, {"down"})) => Relinked(s, 0)
      /\ Relinked(events, 1) /\ (x.code = "up" => Has(events, {"down"})) => Relinked(s, 1)
      /\ Relinked(events, 2) /\ (x.code = "up" => Has(events, {"down"})) => Relinked(s, 2)
      /\ EndsIn(s, {"down", "fail"}) <=> x.code \in {"down", "fail"}
      /\ ~Has(events, {"down"}) => LossLast(s)
      /\ Second(events, {"up"}) => Second(s, {"up"})
      /\ Second(events, {"sup", "badkey"}) => Second(s, {"sup", "badkey"})
      /\ \A b \in Addrs : Leads(events, vif.bssid, b) /\ (x.code = "down" => x.bss = b) =>
           Leads(s, vif.bssid, IF x.code \in {"up", "roam"} THEN x.bss ELSE b)
  BY <1>2, Put DEF After, Carries
<1> HIDE DEF s
<1>5. /\ t \in Seq(Events) /\ t # << >> /\ Head(t) = IF s = << >> THEN y ELSE Head(s)
      /\ Has(t, {"down"}) <=> y.code = "down" \/ Has(s, {"down"})
      /\ Has(t, {"roam"}) <=> y.code = "roam" \/ Has(s, {"roam"})
      /\ Has(t, {"fail"}) <=> y.code = "fail" \/ Has(s, {"fail"})
      /\ Has(t, {"badkey", "fail"}) <=> y.code \in {"badkey", "fail"} \/ Has(s, {"badkey", "fail"})
      /\ Relinked(s, 0) /\ (y.code = "up" => Has(s, {"down"})) => Relinked(t, 0)
      /\ Relinked(s, 1) /\ (y.code = "up" => Has(s, {"down"})) => Relinked(t, 1)
      /\ Relinked(s, 2) /\ (y.code = "up" => Has(s, {"down"})) => Relinked(t, 2)
      /\ EndsIn(t, {"down", "fail"}) <=> y.code \in {"down", "fail"}
      /\ ~Has(s, {"down"}) => LossLast(t)
      /\ Second(s, {"up"}) => Second(t, {"up"})
      /\ Second(s, {"sup", "badkey"}) => Second(t, {"sup", "badkey"})
      /\ \A b \in Addrs : Leads(s, vif.bssid, b) /\ (y.code = "down" => y.bss = b) =>
           Leads(t, vif.bssid, IF y.code \in {"up", "roam"} THEN y.bss ELSE b)
  BY <1>2, <1>4, Put DEF After, Carries
<1>6. events' = t
  BY <1>2, AppendTwo DEF s
<1>7. events = << >> => /\ Relinked(t, 2)
                        /\ y.code = "up" => Second(t, {"up"})
                        /\ y.code \in {"sup", "badkey"} => Second(t, {"sup", "badkey"})
  BY <1>2, AppendTwo DEF s
<1> HIDE DEF t
<1>8. Route'
  BY <1>1, <1>2, <1>3, <1>4, <1>5, <1>6, <1>7 DEF Route
<1>8b. Ebb'
  BY <1>1 DEF Ebb
<1>9. Ends'
  BY <1>1, <1>2, <1>3, <1>4, <1>5, <1>6, <1>7 DEF Ends
<1>10. Codes'
  <2>1. /\ Has(t, {"roam"}) => fw.key \in Ft
        /\ ~Has(t, {"badkey", "fail"}) \/ (fw.link = NoBss /\ ~fw.joining)
    BY <1>3, <1>4, <1>5 DEF Codes
  <2>2. fw.key \in Ft => fw.joining /\ fw.link = NoBss /\ fw.key = "ftpsk"
    BY DEF Ft
  <2>3. Has(events, {"down"}) =>
          /\ Relinked(events, 0) => Relinked(t, 0)
          /\ Relinked(events, 1) => Relinked(t, 1)
          /\ Relinked(events, 2) => Relinked(t, 2)
    BY <1>3, <1>4, <1>5
  <2>4. ~Has(events, {"badkey", "fail"})
    BY <1>3, <1>4, <1>5 DEF Codes, Joining
  <2>5. fw.key \in Ft /\ Lively => Has(events, {"down"}) \/ (~Attached /\ events = << >>)
    BY <2>2, <2>4, Taken DEF Ends
  <2>6. fw.key \in Ft /\ Attached => Relinked(t, 0)
    BY <2>3, <2>5 DEF Codes
  <2>7. fw.key \in Ft /\ Awaited /\ ~Attached /\ events = << >> => vif.sup /\ ~vif.eap /\ ~vif.assoc
    BY <2>2 DEF Ebb, Keyed, Profile, Reset, FwSup
  <2>8. fw.key \in Ft /\ Awaited => Relinked(t, 1) \/ (Relinked(t, 2) /\ vif.sup /\ ~vif.eap /\ ~vif.assoc)
    BY <1>7, <2>3, <2>5, <2>7 DEF Codes
  <2>9. QED
    BY <1>1, <1>6, <2>1, <2>4, <2>6, <2>8, <1>3, <1>4, <1>5 DEF Codes
<1>11. Joining' /\ Held'
  BY <1>1, <1>2, <1>3, <1>4, <1>5, <1>6, <1>7 DEF Joining, Held
<1>12. WillAnswer'
  BY <1>1, <1>2, <1>3, <1>4, <1>5, <1>6, <1>7 DEF WillAnswer, Answer, Held, Worker, FwSup
<1>13. Call'
  BY <1>1, <1>2, <1>3, <1>4, <1>5, <1>6, <1>7 DEF Call, Profile, Joining
<1>14. QED
  BY <1>1, <1>2, <1>3, <1>4, <1>5, <1>6, <1>7, <1>8, <1>8b, <1>9, <1>10, <1>11, <1>12, <1>13, FwFrame

(* It joined, and its passphrase was wrong.                                *)
LEMMA BadKeyCourse ==
  ASSUME TypeOK, Firmware, Driver, Cfg, NEW b \in Bsses, FwBadKey(b)
  PROVE  Driver' /\ Cfg'
<1> USE DEF Calling, Leave, Attached, Awaited, Lively, Doomed
<1> Flags /\ Keyed /\ Ebb /\ Route /\ Ends /\ Codes /\ Joining /\ Held /\ Worker /\ WillAnswer
  BY DEF Driver
<1> Call /\ ToldLink /\ ToldEnd /\ Fresh /\ Opened
  BY DEF Cfg
<1>1. UNCHANGED << wdev, posted, vif, th, open >> /\ Ev' = Ev
  BY DEF Firmware, history, Ev
<1>2. vif.bssid \in Addrs /\ events \in Seq(Events) /\ b \in Addrs
  BY AddrTypes DEF TypeOK, Vifs
<1> DEFINE x == Event("up", b)
           y == Event("badkey", b)
           z == Event("down", b)
           r == Append(events, x)
           s == Append(r, y)
           t == Append(s, z)
<1>3. /\ x \in Events /\ y \in Events /\ z \in Events
      /\ x.code = "up" /\ y.code = "badkey" /\ z.code = "down" /\ x.bss = b /\ z.bss = b
  BY <1>2, EventTypes DEF Event
<1> HIDE DEF x, y, z
<1>4. events' = t
  <2>1. events' = events \o << x, y, z >>
    BY DEF FwBadKey, x, y, z
  <2>2. QED
    BY <1>2, <1>3, <2>1
<1>5. /\ r \in Seq(Events) /\ r # << >> /\ Head(r) = IF events = << >> THEN x ELSE Head(events)
      /\ Has(r, {"down"}) <=> x.code = "down" \/ Has(events, {"down"})
      /\ Has(r, {"roam"}) <=> x.code = "roam" \/ Has(events, {"roam"})
      /\ Has(r, {"fail"}) <=> x.code = "fail" \/ Has(events, {"fail"})
      /\ Has(r, {"badkey", "fail"}) <=> x.code \in {"badkey", "fail"} \/ Has(events, {"badkey", "fail"})
      /\ Relinked(events, 0) /\ (x.code = "up" => Has(events, {"down"})) => Relinked(r, 0)
      /\ Relinked(events, 1) /\ (x.code = "up" => Has(events, {"down"})) => Relinked(r, 1)
      /\ Relinked(events, 2) /\ (x.code = "up" => Has(events, {"down"})) => Relinked(r, 2)
      /\ EndsIn(r, {"down", "fail"}) <=> x.code \in {"down", "fail"}
      /\ events = << >> => Relinked(r, 1)
      /\ ~Has(events, {"down"}) => LossLast(r)
      /\ Second(events, {"up"}) => Second(r, {"up"})
      /\ Second(events, {"sup", "badkey"}) => Second(r, {"sup", "badkey"})
      /\ \A a \in Addrs : Leads(events, vif.bssid, a) /\ (x.code = "down" => x.bss = a) =>
           Leads(r, vif.bssid, IF x.code \in {"up", "roam"} THEN x.bss ELSE a)
  BY <1>2, <1>3, Put DEF After, Carries
<1>6. events = << >> => Second(s, {"sup", "badkey"})
  BY <1>2, <1>3, AppendTwo
<1> HIDE DEF r
<1>7. /\ s \in Seq(Events) /\ s # << >> /\ Head(s) = IF r = << >> THEN y ELSE Head(r)
      /\ Has(s, {"down"}) <=> y.code = "down" \/ Has(r, {"down"})
      /\ Has(s, {"roam"}) <=> y.code = "roam" \/ Has(r, {"roam"})
      /\ Has(s, {"fail"}) <=> y.code = "fail" \/ Has(r, {"fail"})
      /\ Has(s, {"badkey", "fail"}) <=> y.code \in {"badkey", "fail"} \/ Has(r, {"badkey", "fail"})
      /\ Relinked(r, 0) /\ (y.code = "up" => Has(r, {"down"})) => Relinked(s, 0)
      /\ Relinked(r, 1) /\ (y.code = "up" => Has(r, {"down"})) => Relinked(s, 1)
      /\ Relinked(r, 2) /\ (y.code = "up" => Has(r, {"down"})) => Relinked(s, 2)
      /\ EndsIn(s, {"down", "fail"}) <=> y.code \in {"down", "fail"}
      /\ ~Has(r, {"down"}) => LossLast(s)
      /\ Second(r, {"up"}) => Second(s, {"up"})
      /\ Second(r, {"sup", "badkey"}) => Second(s, {"sup", "badkey"})
      /\ \A a \in Addrs : Leads(r, vif.bssid, a) /\ (y.code = "down" => y.bss = a) =>
           Leads(s, vif.bssid, IF y.code \in {"up", "roam"} THEN y.bss ELSE a)
  BY <1>2, <1>3, <1>5, Put DEF After, Carries
<1> HIDE DEF s
<1>8. /\ t \in Seq(Events) /\ t # << >> /\ Head(t) = IF s = << >> THEN z ELSE Head(s)
      /\ Has(t, {"down"}) <=> z.code = "down" \/ Has(s, {"down"})
      /\ Has(t, {"roam"}) <=> z.code = "roam" \/ Has(s, {"roam"})
      /\ Has(t, {"fail"}) <=> z.code = "fail" \/ Has(s, {"fail"})
      /\ Has(t, {"badkey", "fail"}) <=> z.code \in {"badkey", "fail"} \/ Has(s, {"badkey", "fail"})
      /\ Relinked(s, 0) /\ (z.code = "up" => Has(s, {"down"})) => Relinked(t, 0)
      /\ Relinked(s, 1) /\ (z.code = "up" => Has(s, {"down"})) => Relinked(t, 1)
      /\ Relinked(s, 2) /\ (z.code = "up" => Has(s, {"down"})) => Relinked(t, 2)
      /\ EndsIn(t, {"down", "fail"}) <=> z.code \in {"down", "fail"}
      /\ ~Has(s, {"down"}) => LossLast(t)
      /\ Second(s, {"up"}) => Second(t, {"up"})
      /\ Second(s, {"sup", "badkey"}) => Second(t, {"sup", "badkey"})
      /\ \A a \in Addrs : Leads(s, vif.bssid, a) /\ (z.code = "down" => z.bss = a) =>
           Leads(t, vif.bssid, IF z.code \in {"up", "roam"} THEN z.bss ELSE a)
  BY <1>2, <1>3, <1>7, Put DEF After, Carries
<1> HIDE DEF t
<1>9. /\ fw.key = "psk" \/ (fw.key = "ftpsk" /\ fw.link = NoBss)
      /\ fw.joining /\ fw'.link = NoBss /\ ~fw'.joining /\ fw'.key = fw.key
  BY DEF FwBadKey, ByHandshake, TypeOK
<1>10. Route'
  BY <1>1, <1>2, <1>3, <1>4, <1>5, <1>6, <1>7, <1>8, <1>9 DEF Route
<1>10b. Ebb'
  BY <1>1, <1>3, <1>4, <1>8 DEF Ebb
<1>11. Ends'
  BY <1>1, <1>2, <1>3, <1>4, <1>5, <1>6, <1>7, <1>8, <1>9 DEF Ends
<1>12. Codes'
  <2>1. Has(t, {"roam"}) => fw.key \in Ft
    BY <1>3, <1>5, <1>7, <1>8 DEF Codes
  <2>2. fw.key \in Ft => fw.link = NoBss
    BY <1>9 DEF Ft
  <2>3. Has(events, {"down"}) =>
          /\ Relinked(events, 0) => Relinked(t, 0)
          /\ Relinked(events, 1) => Relinked(t, 1)
          /\ Relinked(events, 2) => Relinked(t, 2)
    BY <1>3, <1>5, <1>7, <1>8
  <2>4. events = << >> => Relinked(t, 1)
    BY <1>3, <1>5, <1>7, <1>8
  <2>5. ~(events # << >> /\ Head(events).code = "fail")
    BY <1>9, Taken DEF Joining
  <2>6. fw.key \in Ft /\ Lively => Has(events, {"down"}) \/ (~Attached /\ events = << >>)
    BY <2>2, <2>5 DEF Ends
  <2>7. fw.key \in Ft /\ Attached => Relinked(t, 0)
    BY <2>3, <2>6 DEF Codes
  <2>8. fw.key \in Ft /\ Awaited => Relinked(t, 1) \/ (Relinked(t, 2) /\ vif.sup /\ ~vif.eap /\ ~vif.assoc)
    BY <2>3, <2>4, <2>6 DEF Codes
  <2>9. QED
    BY <1>1, <1>4, <1>9, <2>1, <2>7, <2>8 DEF Codes
<1>13. Joining' /\ Held'
  BY <1>1, <1>2, <1>3, <1>4, <1>5, <1>6, <1>7, <1>8, <1>9 DEF Joining, Held
<1>14. WillAnswer'
  BY <1>1, <1>2, <1>3, <1>4, <1>5, <1>6, <1>7, <1>8, <1>9 DEF WillAnswer, Answer, Held, Worker, FwSup
<1>15. Call'
  BY <1>1, <1>2, <1>3, <1>4, <1>5, <1>6, <1>7, <1>8, <1>9 DEF Call, Profile, Joining
<1>16. QED
  BY <1>1, <1>2, <1>3, <1>4, <1>5, <1>6, <1>7, <1>8, <1>9, <1>10, <1>10b, <1>11, <1>12, <1>13, <1>14, <1>15, FwFrame

LEMMA FwCourse == TypeOK /\ Driver /\ Cfg /\ FwStep => Driver' /\ Cfg'
<1> SUFFICES ASSUME TypeOK, Driver, Cfg, FwStep PROVE Driver' /\ Cfg'
  OBVIOUS
<1>1. fw \in [link : Addrs, joining : BOOLEAN, key : Keys]
  BY DEF TypeOK
<1>2. ASSUME NEW b \in Bsses, NEW tr \in BOOLEAN, tr = (fw.link # NoBss), Linked(b, tr), Firmware,
             fw.joining \/ fw.link # NoBss
      PROVE  Driver' /\ Cfg'
  <2>1. b \in Addrs /\ b # NoBss
    BY AddrTypes, ConnectAssumption
  <2>2. ASSUME NEW c \in {"up", "sup", "roam"}
        PROVE  Event(c, b) \in Events /\ Event(c, b).code = c /\ Event(c, b).bss = b
    BY <2>1, EventTypes DEF Event
  <2>3. fw'.link = b /\ fw'.key = fw.key /\ ~fw'.joining
    BY <1>1, <1>2 DEF Linked
  <2>4. CASE ByHandshake(tr)
    <3>1. PICK x, y \in Events : /\ events' = events \o << x, y >> /\ {x.code, y.code} = {"up", "sup"}
                                 /\ x.bss = b /\ y.bss = b
      <4>1. \/ events' = events \o << Event("up", b), Event("sup", b) >>
            \/ events' = events \o << Event("sup", b), Event("up", b) >>
        BY <1>2, <2>4 DEF Linked, ByHandshake, Ft
      <4>2. QED
        BY <2>2, <4>1
    <3>2. fw.key = "psk" \/ (fw.key = "ftpsk" /\ fw.link = NoBss)
      BY <1>2, <2>4 DEF ByHandshake
    <3>3. QED
      BY <1>2, <2>1, <2>3, <3>1, <3>2, PairCourse
  <2>5. CASE ~ByHandshake(tr)
    <3>1. PICK e \in Events : /\ events' = Append(events, e) /\ e.bss = b
                              /\ \/ e.code = "up" /\ (fw.key = "open" \/ (fw.key = "ft" /\ fw.link = NoBss))
                                 \/ e.code = "roam" /\ fw.key \in Ft /\ fw.link # NoBss
      <4>1. \/ fw.key = "open" /\ events' = Append(events, Event("up", b))
            \/ fw.key = "ft" /\ fw.link = NoBss /\ events' = Append(events, Event("up", b))
            \/ fw.key \in Ft /\ fw.link # NoBss /\ events' = Append(events, Event("roam", b))
        BY <1>2, <2>5 DEF Linked
      <4>2. QED
        BY <2>2, <4>1
    <3>2. QED
      BY <1>2, <2>1, <2>3, <3>1, LinkCourse
  <2>6. QED
    BY <2>4, <2>5
<1>3. ASSUME NEW b \in Bsses, FwJoins(b) \/ FwRoams(b) PROVE Driver' /\ Cfg'
  <2>1. Linked(b, fw.link # NoBss) /\ Firmware /\ (fw.joining \/ fw.link # NoBss)
    BY <1>3 DEF FwJoins, FwRoams
  <2>2. QED
    BY <1>2, <2>1
<1>4. ASSUME NEW b \in Bsses, FwBadKey(b) PROVE Driver' /\ Cfg'
  BY <1>4, BadKeyCourse DEF FwBadKey
<1>5. ASSUME fw.link # NoBss, Firmware, events' = Append(events, Event("down", fw.link)),
             fw'.link = NoBss, fw'.key = fw.key, fw'.joining => fw.joining
      PROVE  Driver' /\ Cfg'
  <2>1. LET e == Event("down", fw.link) IN e \in Events /\ e.code = "down" /\ e.bss = fw.link
    BY <1>1, EventTypes DEF Event
  <2>2. QED
    BY <1>5, <2>1, LossCourse
<1>6. CASE FwFails
  <2>1. fw.joining /\ fw'.link = NoBss /\ fw'.key = fw.key /\ ~fw'.joining /\ Firmware
    BY <1>1, <1>6 DEF FwFails
  <2>2. CASE fw.link = NoBss
    <3>1. events' = Append(events, Event("fail", NoBss))
      BY <1>6, <2>2 DEF FwFails
    <3>2. LET e == Event("fail", NoBss) IN e \in Events /\ e.code = "fail"
      BY AddrTypes, EventTypes DEF Event
    <3>3. QED
      BY <2>1, <2>2, <3>1, <3>2, FailCourse
  <2>3. CASE fw.link # NoBss
    <3>1. events' = Append(events, Event("down", fw.link))
      BY <1>6, <2>3 DEF FwFails
    <3>2. QED
      BY <1>5, <2>1, <2>3, <3>1
  <2>4. QED
    BY <2>2, <2>3
<1>7. CASE FwLost
  <2>1. fw.link # NoBss /\ Firmware /\ events' = Append(events, Event("down", fw.link))
        /\ fw'.link = NoBss /\ fw'.key = fw.key /\ fw'.joining = fw.joining
    BY <1>1, <1>7 DEF FwLost
  <2>2. QED
    BY <1>5, <2>1
<1>8. QED
  BY <1>3, <1>4, <1>6, <1>7 DEF FwStep

-----------------------------------------------------------------------------
(* When everything is quiet, the three sides agree.                        *)
LEMMA LeadsNowhere == ASSUME NEW a \in Addrs, NEW b \in Addrs, Leads(<< >>, a, b) PROVE a = b
<1>1. Len(<< >>) = 0
  OBVIOUS
<1>2. QED
  BY <1>1 DEF Leads

LEMMA Agreed ==
  ASSUME TypeOK, OneCall, Driver, Cfg, Quiet
  PROVE  /\ posted = << >> /\ events = << >> /\ ~fw.joining /\ Ev = "idle" /\ th["call"].pc = "idle"
         /\ wdev.connected = vif.connected /\ vif.connected = (fw.link # NoBss)
         /\ vif.connected => wdev.ssid /\ vif.bssid = fw.link /\ (fw.key # "psk" => wdev.addr = fw.link)
         /\ ~open /\ ~vif.connecting /\ wdev.ssid = wdev.connected
<1> USE DEF Calling, Leave, Attached, Awaited, Lively, Doomed
<1> Flags /\ Keyed /\ Ebb /\ Route /\ Ends /\ Codes /\ Joining /\ Held /\ Worker /\ WillAnswer
  BY DEF Driver
<1> Call /\ ToldLink /\ ToldEnd /\ Fresh /\ Opened
  BY DEF Cfg
<1>1. /\ posted = << >> /\ events = << >> /\ ~fw.joining /\ Ev = "idle" /\ th["call"].pc = "idle"
  BY DEF Quiet, Settled, Ev, OneCall
<1>2. /\ wdev.connected \in BOOLEAN /\ wdev.ssid \in BOOLEAN /\ vif.connected \in BOOLEAN
      /\ vif.bssid \in Addrs /\ fw.link \in Addrs
  BY DEF TypeOK, Vifs
<1>3. ~Has(events, {"down"}) /\ ~Told(posted, {"failed"}) /\ ~OverAtLast(posted)
  <2>1. \A C : ~Has(events, C) /\ ~Told(posted, C)
    BY <1>1, HasEmpty
  <2>2. posted \in Seq(Messages)
    BY DEF TypeOK
  <2>3. QED
    BY <1>1, <2>1, <2>2, OverSteps
<1>4. ~vif.connecting
  BY <1>1 DEF WillAnswer
<1>5. Attached => fw.link # NoBss /\ vif.bssid = fw.link
  <2>1. Attached => fw.link # NoBss
    BY <1>1, <1>3 DEF Ends
  <2>2. Attached => vif.bssid = fw.link
    BY <1>1, <1>2, <2>1, LeadsNowhere DEF Route
  <2>3. QED
    BY <2>1, <2>2
<1>6. vif.connected = (fw.link # NoBss)
  BY <1>1, <1>2, <1>5 DEF Held
<1>7. vif.connected => wdev.connected /\ wdev.ssid /\ (fw.key # "psk" => wdev.addr = fw.link)
  BY <1>1, <1>3, <1>5 DEF ToldLink, Latest
<1>8. ~vif.connected => ~wdev.connected /\ ~wdev.ssid
  BY <1>1, <1>3, <1>4 DEF ToldEnd
<1>9. QED
  BY <1>1, <1>2, <1>4, <1>5, <1>6, <1>7, <1>8 DEF Opened

-----------------------------------------------------------------------------
(* The calls.                                                              *)

LEMMA Stepping ==
  ASSUME TypeOK
  PROVE  /\ \A pc : Goes("call", pc) => /\ th'["call"].pc = pc /\ th'["call"].key = th["call"].key
                                       /\ th'["event"] = th["event"] /\ Ev' = Ev
         /\ CallReturns => th'["call"].pc = "idle" /\ th'["event"] = th["event"] /\ Ev' = Ev
         /\ \A x : th' = [th EXCEPT !["call"] = x] =>
              th'["call"] = x /\ th'["event"] = th["event"] /\ Ev' = Ev
<1>1. th \in [Threads -> ThreadStates] /\ "event" \in Threads /\ "call" \in Threads
  BY DEF TypeOK, Threads
<1>2. QED
  BY <1>1 DEF Goes, CallReturns, Idle, Ev, ThreadStates

LEMMA Emptied ==
  ASSUME posted = << >>, events = << >>
  PROVE  /\ \A C : ~Has(events, C) /\ ~Told(posted, C)
         /\ LossLast(events) /\ Relinked(events, 0) /\ Relinked(events, 1)
  BY DEF Has, Told, LossLast, Relinked

LEMMA Unmoved ==
  ASSUME Driver, Cfg, UNCHANGED << wdev, posted, vif, fw, events, th, open >>
  PROVE  Driver' /\ Cfg'
<1> USE DEF Calling, Leave, Attached, Awaited, Lively, Doomed, Ev
<1>1. Driver'
  BY DEF Driver, Flags, Keyed, Ebb, Route, Ends, Codes, Joining, Held, Worker, WillAnswer, Answer, Profile, Reset
<1>2. Cfg'
  BY DEF Cfg, Call, ToldLink, ToldEnd, Fresh, Opened, Profile
<1>3. QED
  BY <1>1, <1>2

LEMMA RefusedCourse ==
  ASSUME TypeOK, OneCall, Driver, Cfg, Refused, ~crossed'
  PROVE  Driver' /\ Cfg'
<1>1. Quiet
  BY DEF Refused, Quiet
<1>2. wdev.ssid = wdev.connected
  BY <1>1, Agreed
<1>3. wdev' = wdev
  BY <1>2 DEF Refused, TypeOK
<1>4. QED
  BY <1>3, Unmoved DEF Refused

LEMMA ConnectCourse ==
  ASSUME TypeOK, TypeOK', OneCall, Driver, Cfg, NEW key \in Keys, NEW prev \in BOOLEAN,
         CfgConnect(key, prev), ~crossed'
  PROVE  Driver' /\ Cfg'
<1> USE DEF Calling, Leave, Attached, Awaited, Lively, Doomed
<1> Flags /\ Keyed /\ Ebb /\ Route /\ Ends /\ Codes /\ Joining /\ Held /\ Worker /\ WillAnswer
  BY DEF Driver
<1> Call /\ ToldLink /\ ToldEnd /\ Fresh /\ Opened
  BY DEF Cfg
<1>1. Quiet
  BY DEF CfgConnect, Quiet
<1>2. /\ posted = << >> /\ events = << >> /\ ~fw.joining /\ Ev = "idle" /\ th["call"].pc = "idle"
      /\ wdev.connected = vif.connected /\ vif.connected = (fw.link # NoBss)
      /\ ~open /\ ~vif.connecting
  BY <1>1, Agreed
<1>3. /\ UNCHANGED << posted, fw, events, open >> /\ wdev'.ssid /\ wdev'.connected = wdev.connected
      /\ wdev'.addr = wdev.addr
  BY DEF CfgConnect, TypeOK
<1>4. /\ Ev' = Ev /\ th'["call"].key = key
      /\ IF key \in Ft /\ prev THEN th'["call"].pc = "join" ELSE th'["call"].pc = "elements"
  BY Stepping DEF CfgConnect
<1>5. prev = vif.connected /\ (prev => key = fw.key)
  BY <1>2 DEF CfgConnect
<1>6. /\ IF key \in Ft /\ prev THEN vif'.connecting ELSE vif' = vif
      /\ vif'.connected = vif.connected /\ vif'.bssid = vif.bssid /\ vif'.sup = vif.sup /\ vif'.ft = vif.ft
      /\ vif'.eap = vif.eap /\ vif'.assoc = vif.assoc
  BY DEF CfgConnect, TypeOK, Vifs
<1>7. /\ ~Has(events, {"down"}) /\ ~Has(events, {"fail"}) /\ ~Told(posted, {"connected"})
      /\ LossLast(events) /\ Relinked(events, 0) /\ Relinked(events, 1)
  BY <1>2, Emptied
<1>8. Flags' /\ Keyed' /\ Worker'
  BY <1>2, <1>3, <1>4, <1>5, <1>6, <1>7 DEF Flags, Keyed, Worker, Profile, Reset
<1>8b. Ebb'
  BY <1>2, <1>3, <1>4, <1>6 DEF Ebb
<1>9. Route'
  BY <1>2, <1>3, <1>4, <1>5, <1>6, <1>7 DEF Route
<1>10. Ends'
  BY <1>2, <1>3, <1>4, <1>5, <1>6, <1>7 DEF Ends
<1>11. Codes'
  BY <1>2, <1>3, <1>4, <1>5, <1>6, <1>7 DEF Codes
<1>12. Joining' /\ Held'
  BY <1>2, <1>3, <1>4, <1>5, <1>6, <1>7 DEF Joining, Held
<1>13. WillAnswer'
  BY <1>2, <1>3, <1>4, <1>5, <1>6, <1>7 DEF WillAnswer, Answer
<1>14. Call'
  BY <1>2, <1>3, <1>4, <1>5, <1>6, <1>7 DEF Call, Profile, Keyed, Reset, Ft
<1>15. ToldLink'
  BY <1>2, <1>3, <1>4, <1>5, <1>6, <1>7 DEF ToldLink
<1>16. ToldEnd' /\ Fresh'
  BY <1>2, <1>3, <1>4, <1>5, <1>6, <1>7 DEF ToldEnd, Fresh
<1>17. Opened'
  BY <1>2, <1>3, <1>4, <1>5, <1>6, <1>7 DEF Opened
<1>18. QED
  BY <1>8, <1>8b, <1>9, <1>10, <1>11, <1>12, <1>13, <1>14, <1>15, <1>16, <1>17 DEF Driver, Cfg

LEMMA ElementsCourse ==
  ASSUME TypeOK, TypeOK', Driver, Cfg, Elements
  PROVE  Driver' /\ Cfg'
<1> USE DEF Calling, Leave, Attached, Awaited, Lively, Doomed
<1> Flags /\ Keyed /\ Ebb /\ Route /\ Ends /\ Codes /\ Joining /\ Held /\ Worker /\ WillAnswer
  BY DEF Driver
<1> Call /\ ToldLink /\ ToldEnd /\ Fresh /\ Opened
  BY DEF Cfg
<1>1. UNCHANGED << wdev, posted, fw, events, open >> /\ th["call"].pc = "elements"
  BY DEF Elements, history
<1>2. Ev' = Ev /\ th'["call"].pc = "keys" /\ th'["call"].key = th["call"].key
  BY Stepping DEF Elements
<1>3. /\ vif'.connecting /\ vif'.connected = vif.connected /\ vif'.bssid = vif.bssid
      /\ vif'.sup = vif.sup /\ vif'.ft = vif.ft /\ vif'.eap = vif.eap /\ vif'.assoc = vif.assoc
  BY DEF Elements, TypeOK, Vifs
<1>4. Flags' /\ Keyed' /\ Worker'
  BY <1>1, <1>2, <1>3 DEF Flags, Keyed, Worker, Profile, Reset
<1>4b. Ebb'
  BY <1>1, <1>2, <1>3 DEF Ebb
<1>5. Route'
  BY <1>1, <1>2, <1>3 DEF Route
<1>6. Ends'
  BY <1>1, <1>2, <1>3 DEF Ends
<1>7. Codes'
  BY <1>1, <1>2, <1>3 DEF Codes
<1>8. Joining' /\ Held'
  BY <1>1, <1>2, <1>3 DEF Joining, Held
<1>9. WillAnswer'
  BY <1>1, <1>2, <1>3 DEF WillAnswer, Answer
<1>10. Call'
  BY <1>1, <1>2, <1>3 DEF Call, Profile
<1>11. ToldLink'
  BY <1>1, <1>2, <1>3 DEF ToldLink
<1>12. ToldEnd' /\ Fresh'
  BY <1>1, <1>2, <1>3 DEF ToldEnd, Fresh
<1>13. Opened'
  BY <1>1, <1>2, <1>3 DEF Opened
<1>14. QED
  BY <1>4, <1>4b, <1>5, <1>6, <1>7, <1>8, <1>9, <1>10, <1>11, <1>12, <1>13 DEF Driver, Cfg

LEMMA KeyMgmtCourse ==
  ASSUME TypeOK, TypeOK', Driver, Cfg, KeyMgmt
  PROVE  Driver' /\ Cfg'
<1> USE DEF Calling, Leave, Attached, Awaited, Lively, Doomed
<1> Flags /\ Keyed /\ Ebb /\ Route /\ Ends /\ Codes /\ Joining /\ Held /\ Worker /\ WillAnswer
  BY DEF Driver
<1> Call /\ ToldLink /\ ToldEnd /\ Fresh /\ Opened
  BY DEF Cfg
<1>1. UNCHANGED << wdev, posted, fw, events, open >> /\ th["call"].pc = "keys"
  BY DEF KeyMgmt, history
<1>2. Ev' = Ev /\ th'["call"].pc = "join" /\ th'["call"].key = th["call"].key
  BY Stepping DEF KeyMgmt
<1>3. /\ vif'.sup = (th["call"].key \in FwSup) /\ vif'.ft = (th["call"].key \in Ft)
      /\ vif'.connecting = vif.connecting /\ vif'.connected = vif.connected /\ vif'.bssid = vif.bssid
      /\ vif'.eap = vif.eap /\ vif'.assoc = vif.assoc
  <2>1. vif \in Vifs /\ th["call"].key \in Keys
    BY DEF TypeOK, Threads, ThreadStates
  <2>2. vif' = WithKey(vif, th["call"].key)
    BY DEF KeyMgmt
  <2>3. QED
    BY <2>1, <2>2, KeyFields
<1>4. Flags' /\ Keyed' /\ Worker'
  BY <1>1, <1>2, <1>3 DEF Flags, Keyed, Worker, Profile, Reset, Call
<1>4b. Ebb'
  BY <1>1, <1>2, <1>3 DEF Ebb
<1>5. Route'
  BY <1>1, <1>2, <1>3 DEF Route
<1>6. Ends'
  BY <1>1, <1>2, <1>3 DEF Ends
<1>7. Codes'
  BY <1>1, <1>2, <1>3 DEF Codes
<1>8. Joining' /\ Held'
  BY <1>1, <1>2, <1>3 DEF Joining, Held
<1>9. WillAnswer'
  BY <1>1, <1>2, <1>3 DEF WillAnswer, Answer
<1>10. Call'
  BY <1>1, <1>2, <1>3 DEF Call, Profile
<1>11. ToldLink'
  BY <1>1, <1>2, <1>3 DEF ToldLink
<1>12. ToldEnd' /\ Fresh'
  BY <1>1, <1>2, <1>3 DEF ToldEnd, Fresh
<1>13. Opened'
  BY <1>1, <1>2, <1>3 DEF Opened
<1>14. QED
  BY <1>4, <1>4b, <1>5, <1>6, <1>7, <1>8, <1>9, <1>10, <1>11, <1>12, <1>13 DEF Driver, Cfg

LEMMA JoinCourse ==
  ASSUME TypeOK, TypeOK', Driver, Cfg, Join, ~crossed'
  PROVE  Driver' /\ Cfg'
<1> USE DEF Calling, Leave, Attached, Awaited, Lively, Doomed
<1> Flags /\ Keyed /\ Ebb /\ Route /\ Ends /\ Codes /\ Joining /\ Held /\ Worker /\ WillAnswer
  BY DEF Driver
<1> Call /\ ToldLink /\ ToldEnd /\ Fresh /\ Opened
  BY DEF Cfg
<1>1. UNCHANGED << wdev, posted, vif, events >> /\ th["call"].pc = "join"
  BY DEF Join
<1>2. Ev' = Ev /\ th'["call"].pc = "idle"
  BY Stepping DEF Join
<1>3. posted = << >> /\ events = << >> /\ ~fw.joining /\ Ev = "idle"
  BY DEF Join, Settled, Ev
<1>4. fw'.joining /\ fw'.key = th["call"].key /\ fw'.link = fw.link
  BY DEF Join, TypeOK
<1>5. wdev.ssid /\ vif.connecting /\ Profile(th["call"].key) /\ (Attached => th["call"].key = fw.key)
      /\ (~Attached => fw.link = NoBss)
  BY <1>1, <1>3 DEF Call
<1>6. /\ \A C : ~Has(events, C) /\ ~Told(posted, C)
      /\ LossLast(events) /\ Relinked(events, 0) /\ Relinked(events, 1)
  BY <1>3, Emptied
<1>7. ~Awaited /\ (~Attached => ToldEnd /\ ~wdev.connected)
  <2>1. posted \in Seq(Messages)
    BY DEF TypeOK
  <2>2. QED
    BY <1>1, <1>3, <2>1, OverSteps DEF ToldEnd
<1>8. Leads(events, vif.bssid, vif.bssid) /\ vif.bssid \in Addrs
  BY <1>3, LeadsEmpty DEF TypeOK, Vifs
<1>9. Flags' /\ Keyed' /\ Worker'
  BY <1>1, <1>2, <1>3, <1>4, <1>5, <1>6, <1>7, <1>8 DEF Flags, Keyed, Worker, Profile, Reset
<1>9b. Ebb'
  BY <1>1, <1>2, <1>3, <1>4 DEF Ebb
<1>10. Route'
  BY <1>1, <1>2, <1>3, <1>4, <1>5, <1>6, <1>7, <1>8 DEF Route
<1>11. Ends'
  BY <1>1, <1>2, <1>3, <1>4, <1>5, <1>6, <1>7, <1>8 DEF Ends
<1>12. Codes'
  BY <1>1, <1>2, <1>3, <1>4, <1>5, <1>6, <1>7, <1>8 DEF Codes
<1>13. Joining' /\ Held'
  BY <1>1, <1>2, <1>3, <1>4, <1>5, <1>6, <1>7, <1>8 DEF Joining, Held
<1>14. WillAnswer'
  BY <1>1, <1>2, <1>3, <1>4, <1>5, <1>6, <1>7, <1>8 DEF WillAnswer, Answer
<1>15. Call'
  BY <1>1, <1>2, <1>3, <1>4, <1>5, <1>6, <1>7, <1>8 DEF Call, Profile
<1>16. ToldLink'
  BY <1>1, <1>2, <1>3, <1>4, <1>5, <1>6, <1>7, <1>8 DEF ToldLink
<1>17. ToldEnd' /\ Fresh'
  BY <1>1, <1>2, <1>3, <1>4, <1>5, <1>6, <1>7, <1>8 DEF ToldEnd, Fresh
<1>18. Opened'
  BY <1>1, <1>2, <1>3, <1>4, <1>5, <1>6, <1>7, <1>8 DEF Opened
<1>19. QED
  BY <1>9, <1>9b, <1>10, <1>11, <1>12, <1>13, <1>14, <1>15, <1>16, <1>17, <1>18 DEF Driver, Cfg

LEMMA ConnectFailsCourse ==
  ASSUME TypeOK, TypeOK', Driver, Cfg, ConnectFails
  PROVE  Driver' /\ Cfg'
<1> USE DEF Calling, Leave, Attached, Awaited, Lively, Doomed
<1> Flags /\ Keyed /\ Ebb /\ Route /\ Ends /\ Codes /\ Joining /\ Held /\ Worker /\ WillAnswer
  BY DEF Driver
<1> Call /\ ToldLink /\ ToldEnd /\ Fresh /\ Opened
  BY DEF Cfg
<1>1. UNCHANGED << posted, fw, events, open >> /\ Calling
  BY DEF ConnectFails, history
<1>2. Ev' = Ev /\ th'["call"].pc = "idle"
  BY Stepping DEF ConnectFails
<1>3. /\ ~vif'.connecting /\ vif'.connected = vif.connected /\ vif'.bssid = vif.bssid
      /\ vif'.eap = vif.eap /\ vif'.assoc = vif.assoc
      /\ \/ vif'.sup = vif.sup /\ vif'.ft = vif.ft
         \/ /\ th["call"].pc = "keys"
            /\ \E key \in {"open", th["call"].key} : vif'.sup = (key \in FwSup) /\ vif'.ft = (key \in Ft)
  <2>1. vif \in Vifs /\ "open" \in Keys /\ th["call"].key \in Keys
    BY DEF TypeOK, Threads, ThreadStates, Keys
  <2>2. ASSUME NEW v \in Vifs
        PROVE  LET w == Withdrawn(v)
               IN  /\ ~w.connecting /\ w.connected = v.connected /\ w.bssid = v.bssid
                   /\ w.sup = v.sup /\ w.ft = v.ft /\ w.eap = v.eap /\ w.assoc = v.assoc
    BY DEF Withdrawn, Vifs
  <2>3. CASE vif' = Withdrawn(vif)
    BY <2>1, <2>2, <2>3
  <2>4. ASSUME th["call"].pc = "keys", NEW key \in {"open", th["call"].key}, vif' = Withdrawn(WithKey(vif, key))
        PROVE  /\ ~vif'.connecting /\ vif'.connected = vif.connected /\ vif'.bssid = vif.bssid
               /\ vif'.eap = vif.eap /\ vif'.assoc = vif.assoc
               /\ vif'.sup = (key \in FwSup) /\ vif'.ft = (key \in Ft)
    <3>1. LET w == WithKey(vif, key)
          IN  /\ w \in Vifs /\ w.sup = (key \in FwSup) /\ w.ft = (key \in Ft)
              /\ w.connected = vif.connected /\ w.bssid = vif.bssid
              /\ w.eap = vif.eap /\ w.assoc = vif.assoc
      BY <2>1, KeyFields
    <3>2. QED
      BY <2>2, <2>4, <3>1
  <2>5. QED
    BY <2>3, <2>4 DEF ConnectFails
<1>4. wdev'.connected = wdev.connected /\ wdev'.ssid = wdev.connected /\ wdev'.addr = wdev.addr
  BY DEF ConnectFails, TypeOK
<1>4a. ~Awaited' /\ (Attached' => Attached)
  BY <1>2, <1>3
<1>4b. Keyed'
  <2>1. CASE vif'.sup = vif.sup /\ vif'.ft = vif.ft
    BY <1>1, <1>4a, <2>1 DEF Keyed, Profile, Reset
  <2>2. ASSUME th["call"].pc = "keys", NEW key \in {"open", th["call"].key},
               vif'.sup = (key \in FwSup), vif'.ft = (key \in Ft), Attached
        PROVE  Profile(fw.key)' \/ Reset'
    <3>1. fw.key \in Keys \ Ft /\ th["call"].key = fw.key /\ fw' = fw
      BY <1>1, <2>2 DEF Call, TypeOK
    <3>2. CASE key = fw.key
      BY <2>2, <3>1, <3>2 DEF Profile
    <3>3. CASE key = "open" /\ fw.key = "psk"
      BY <2>2, <3>1, <3>3 DEF Reset, FwSup, Ft
    <3>4. QED
      BY <2>2, <3>1, <3>2, <3>3 DEF Keys, Ft
  <2>3. QED
    BY <1>3, <1>4a, <2>1, <2>2 DEF Keyed
<1>5. Flags' /\ Worker'
  BY <1>1, <1>2, <1>3, <1>4 DEF Flags, Worker
<1>5b. Ebb'
  BY <1>1, <1>2, <1>3 DEF Ebb
<1>6. Route'
  BY <1>1, <1>2, <1>3, <1>4 DEF Route
<1>7. Ends'
  BY <1>1, <1>2, <1>3, <1>4 DEF Ends
<1>8. Codes'
  BY <1>1, <1>2, <1>3, <1>4 DEF Codes
<1>9. Joining' /\ Held'
  BY <1>1, <1>2, <1>3, <1>4 DEF Joining, Held, Call
<1>10. WillAnswer'
  BY <1>1, <1>2, <1>3, <1>4 DEF WillAnswer, Answer
<1>11. Call'
  BY <1>1, <1>2, <1>3, <1>4 DEF Call, Profile
<1>12. ToldLink'
  BY <1>1, <1>2, <1>3, <1>4 DEF ToldLink, Call
<1>13. ToldEnd' /\ Fresh'
  BY <1>1, <1>2, <1>3, <1>4 DEF ToldEnd, Fresh
<1>14. Opened'
  BY <1>1, <1>2, <1>3, <1>4 DEF Opened
<1>15. QED
  BY <1>4b, <1>5, <1>5b, <1>6, <1>7, <1>8, <1>9, <1>10, <1>11, <1>12, <1>13, <1>14 DEF Driver, Cfg

LEMMA DisconnectCourse ==
  ASSUME TypeOK, TypeOK', OneCall, Driver, Cfg, CfgDisconnect
  PROVE  Driver' /\ Cfg'
<1> USE DEF Calling, Leave, Attached, Awaited, Lively, Doomed
<1> Flags /\ Keyed /\ Ebb /\ Route /\ Ends /\ Codes /\ Joining /\ Held /\ Worker /\ WillAnswer
  BY DEF Driver
<1> Call /\ ToldLink /\ ToldEnd /\ Fresh /\ Opened
  BY DEF Cfg
<1>1. UNCHANGED << wdev, fw, events >> /\ th["call"].pc = "idle" /\ ~open'
  BY DEF CfgDisconnect, OneCall
<1>2. Ev' = Ev /\ th'["call"].pc = "leave"
  BY Stepping DEF CfgDisconnect
<1>3. /\ ~vif'.connecting /\ ~vif'.connected /\ vif'.bssid = vif.bssid
      /\ vif'.sup = vif.sup /\ vif'.ft = vif.ft /\ ~vif'.eap /\ ~vif'.assoc
  <2>1. vif \in Vifs /\ NoFlags(vif) \in Vifs
    BY VifTypes DEF TypeOK
  <2>2. LET w == NoFlags(vif)
        IN  w.bssid = vif.bssid /\ w.sup = vif.sup /\ w.ft = vif.ft /\ ~w.eap /\ ~w.assoc
    BY <2>1, VifFields
  <2>3. vif' = [NoFlags(vif) EXCEPT !.connecting = FALSE, !.connected = FALSE]
    BY DEF CfgDisconnect
  <2>4. QED
    BY <2>1, <2>2, <2>3 DEF Vifs
<1>4. posted' # << >> /\ OverAtLast(posted')
  BY AddrTypes, Posting DEF CfgDisconnect
<1>5. Flags' /\ Keyed' /\ Worker'
  BY <1>1, <1>2, <1>3, <1>4 DEF Flags, Keyed, Worker, Profile, Reset
<1>5b. Ebb'
  BY <1>1, <1>3 DEF Ebb
<1>6. Route'
  BY <1>1, <1>2, <1>3, <1>4 DEF Route
<1>7. Ends'
  BY <1>1, <1>2, <1>3, <1>4 DEF Ends
<1>8. Codes'
  BY <1>1, <1>2, <1>3, <1>4 DEF Codes
<1>9. Joining' /\ Held'
  BY <1>1, <1>2, <1>3, <1>4 DEF Joining, Held
<1>10. WillAnswer'
  BY <1>1, <1>2, <1>3, <1>4 DEF WillAnswer, Answer
<1>11. Call'
  BY <1>1, <1>2, <1>3, <1>4 DEF Call, Profile
<1>12. ToldLink'
  BY <1>1, <1>2, <1>3, <1>4 DEF ToldLink
<1>13. ToldEnd' /\ Fresh'
  BY <1>1, <1>2, <1>3, <1>4 DEF ToldEnd, Fresh
<1>14. Opened'
  BY <1>1, <1>2, <1>3, <1>4 DEF Opened
<1>15. QED
  BY <1>5, <1>5b, <1>6, <1>7, <1>8, <1>9, <1>10, <1>11, <1>12, <1>13, <1>14 DEF Driver, Cfg

LEMMA LeftCourse ==
  ASSUME TypeOK, TypeOK', Driver, Cfg, Left, ~astray'
  PROVE  Driver' /\ Cfg'
<1> USE DEF Calling, Leave, Attached, Awaited, Lively, Doomed
<1> Flags /\ Keyed /\ Ebb /\ Route /\ Ends /\ Codes /\ Joining /\ Held /\ Worker /\ WillAnswer
  BY DEF Driver
<1> Call /\ ToldLink /\ ToldEnd /\ Fresh /\ Opened
  BY DEF Cfg
<1>1. UNCHANGED << posted, vif, open >> /\ th["call"].pc = "leave"
  BY DEF Left
<1>2. Ev' = Ev /\ th'["call"].pc = "idle"
  BY Stepping DEF Left
<1>3. /\ wdev'.connected = wdev.connected /\ wdev'.ssid = wdev.connected
      /\ fw'.link = NoBss /\ ~fw'.joining /\ fw'.key = fw.key
      /\ fw.link # NoBss => EndsIn(events', {"down", "fail"}) /\ events' # << >>
  BY Gone DEF Left, TypeOK
<1>4. ~vif.connecting
  BY <1>1 DEF Worker
<1>5. vif.bssid \in Addrs /\ fw.link \in Addrs /\ events \in Seq(Events)
  BY DEF TypeOK, Vifs
<1>6. \/ fw.link = NoBss /\ events' = events
      \/ /\ fw.link # NoBss /\ Has(events', {"down"})
         /\ Has(events', {"roam"}) <=> Has(events, {"roam"})
         /\ Relinked(events, 0) => Relinked(events', 0)
         /\ \A b \in Addrs : Leads(events, vif.bssid, b) /\ fw.link = b => Leads(events', vif.bssid, b)
  <2> DEFINE e == Event("down", fw.link)
  <2>1. e \in Events /\ e.code = "down" /\ e.bss = fw.link
    BY <1>5, EventTypes DEF Event
  <2> HIDE DEF e
  <2>2. \/ fw.link = NoBss /\ events' = events
        \/ fw.link # NoBss /\ events' = Append(events, e)
    BY Gone DEF Left, e
  <2>3. CASE events' = Append(events, e) /\ fw.link # NoBss
    <3> DEFINE t == Append(events, e)
    <3>1. /\ Has(t, {"down"}) /\ (Has(t, {"roam"}) <=> Has(events, {"roam"}))
          /\ Relinked(events, 0) => Relinked(t, 0)
          /\ \A b \in Addrs : Leads(events, vif.bssid, b) /\ fw.link = b => Leads(t, vif.bssid, b)
      BY <1>5, <2>1, Put DEF After, Carries
    <3>2. QED
      BY <2>3, <3>1
  <2>4. QED
    BY <2>2, <2>3
<1>7. Flags' /\ Keyed' /\ Worker'
  BY <1>1, <1>2, <1>3, <1>4, <1>5, <1>6 DEF Flags, Keyed, Worker, Profile, Reset
<1>7b. Ebb'
  BY <1>1, <1>2, <1>3, <1>6 DEF Ebb
<1>8. Route'
  BY <1>1, <1>2, <1>3, <1>4, <1>5, <1>6 DEF Route
<1>9. Ends'
  BY <1>1, <1>2, <1>3, <1>4, <1>5, <1>6 DEF Ends
<1>10. Codes'
  BY <1>1, <1>2, <1>3, <1>4, <1>5, <1>6 DEF Codes
<1>11. Joining' /\ Held'
  BY <1>1, <1>2, <1>3, <1>4, <1>5, <1>6 DEF Joining, Held
<1>12. WillAnswer'
  BY <1>1, <1>2, <1>3, <1>4, <1>5, <1>6 DEF WillAnswer, Answer
<1>13. Call'
  BY <1>1, <1>2, <1>3, <1>4, <1>5, <1>6 DEF Call, Profile
<1>14. ToldLink'
  BY <1>1, <1>2, <1>3, <1>4, <1>5, <1>6 DEF ToldLink, Ends
<1>15. ToldEnd' /\ Fresh'
  BY <1>1, <1>2, <1>3, <1>4, <1>5, <1>6 DEF ToldEnd, Fresh
<1>16. Opened'
  BY <1>1, <1>2, <1>3, <1>4, <1>5, <1>6 DEF Opened
<1>17. QED
  BY <1>7, <1>7b, <1>8, <1>9, <1>10, <1>11, <1>12, <1>13, <1>14, <1>15, <1>16 DEF Driver, Cfg

LEMMA CallCourse ==
  TypeOK /\ TypeOK' /\ OneCall /\ Driver /\ Cfg /\ CallStep /\ ~crossed' /\ ~astray' => Driver' /\ Cfg'
  BY ConnectCourse, RefusedCourse, ElementsCourse, KeyMgmtCourse, JoinCourse, ConnectFailsCourse, DisconnectCourse, LeftCourse
     DEF CallStep

-----------------------------------------------------------------------------
(* Course is an invariant of the specification, with IInv.                 *)

LEMMA InitCourse == Init => Course
<1> SUFFICES ASSUME Init PROVE Driver /\ Cfg
  BY DEF Course
<1> USE DEF Calling, Leave, Attached, Awaited, Lively, Doomed, Ev
<1>1. th["call"].pc = "idle" /\ th["event"].pc = "idle" /\ posted = << >> /\ events = << >>
  BY DEF Init, Idle, Threads
<1>2. \A C : ~Has(events, C) /\ ~Told(posted, C)
  BY <1>1, HasEmpty
<1>3. Driver
  BY <1>1, <1>2 DEF Init, Driver, Flags, Keyed, Ebb, Route, Ends, Codes, Joining, Held, Worker, WillAnswer
<1>4. Cfg
  BY <1>1, <1>2 DEF Init, Cfg, Call, ToldLink, ToldEnd, Fresh, Opened
<1>5. QED
  BY <1>3, <1>4

LEMMA NextCourse == IInv /\ Course /\ [Next]_vars => Course'
<1> SUFFICES ASSUME IInv, Course, [Next]_vars, ~crossed', ~astray' PROVE Driver' /\ Cfg'
  BY DEF Course
<1>1. TypeOK /\ TypeOK' /\ OneCall
  BY TypeInv DEF IInv
<1>2. ~crossed /\ ~astray
  <2>1. crossed => crossed'
    BY DEF Next, CallStep, EventStep, FwStep, CfgConnect, Refused, Elements, KeyMgmt, Join, ConnectFails, CfgDisconnect,
           Left, HandlesEvent, LinkUp, LinkDown, NoNetwork, Other, RoamingStatus, NextEvent, Completed, Roamed,
           Disassociated, Unkeyed, EventWork, FwJoins, FwBadKey, FwRoams, FwFails, FwLost, Firmware, history, vars
  <2>2. astray => astray'
    BY DEF Next, CallStep, EventStep, FwStep, CfgConnect, Refused, Elements, KeyMgmt, Join, ConnectFails, CfgDisconnect,
           Left, Disassoc, DisassocFails,
           HandlesEvent, LinkUp, LinkDown, NoNetwork, Other, RoamingStatus, NextEvent, Completed, Roamed,
           Disassociated, Unkeyed, EventWork, FwJoins, FwBadKey, FwRoams, FwFails, FwLost, Firmware, history, vars
  <2>3. QED
    BY <2>1, <2>2
<1>3. Driver /\ Cfg
  BY <1>2 DEF Course
<1>4. CASE UNCHANGED vars
  BY <1>3, <1>4, Unmoved DEF vars, history
<1>5. QED
  BY <1>1, <1>3, <1>4, CallCourse, EventCourse, WorkCourse, FwCourse DEF Next

(* Where a connection is on its way, in every state that is reached before *)
(* a request crosses with something of an earlier one, or a DISASSOC fails *)
(* and leaves the firmware linked or joining.                              *)
THEOREM OnTheWay == Spec => []Course
<1>1. QED
  BY Inductive, InitCourse, NextCourse, PTL DEF Spec

(* Quiet, cfg80211, the driver and the firmware agree on the connection    *)
(* and its access point: what one side changed without the others was told *)
(* to them, in an order that leaves nothing undone (brcmf_link_down,       *)
(* brcmf_bss_roaming_done, cfg80211_disconnect); unless a request crossed  *)
(* or a DISASSOC failed (cfg80211.c:3106, 1951) with something to end.     *)
THEOREM InStepAlways == Spec => []InStep
<1>1. IInv /\ Course => InStep
  <2> SUFFICES ASSUME IInv, Course, Quiet, ~crossed, ~astray PROVE InStep
    BY DEF InStep
  <2>1. TypeOK /\ OneCall /\ Driver /\ Cfg
    BY DEF IInv, Course
  <2>2. QED
    BY <2>1, Agreed DEF InStep
<1>2. QED
  BY <1>1, Inductive, OnTheWay, PTL

(* Quiet, every request that was accepted has its answer, and nothing of   *)
(* it refuses the next one: neither the bit of the driver nor the SSID of  *)
(* the wdev stays behind; with the exceptions of InStepAlways.             *)
THEOREM AnsweredAlways == Spec => []Answered
<1>1. IInv /\ Course => Answered
  <2> SUFFICES ASSUME IInv, Course, Quiet, ~crossed, ~astray PROVE ~open /\ ~vif.connecting /\ wdev.ssid = wdev.connected
    BY DEF Answered
  <2>1. TypeOK /\ OneCall /\ Driver /\ Cfg
    BY DEF IInv, Course
  <2>2. QED
    BY <2>1, Agreed
<1>2. QED
  BY <1>1, Inductive, OnTheWay, PTL
=============================================================================
