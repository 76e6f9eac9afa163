------------------------------ MODULE Connect ------------------------------
(* Connections of a station, from the request of the user to the results   *)
(* posted about it.  cfg80211 keeps what it believes in the wdev and       *)
(* handles what the driver posts in a work item (sme.c, util.c); brcmfmac  *)
(* keeps two bits and a profile (cfg80211.c), and learns from the events   *)
(* of the firmware how a join ended, that the link was lost or has roamed. *)
(*                                                                         *)
(* Threads meet where they sleep, in a firmware command: "call" is a       *)
(* system call, under the wiphy mutex; "event" the worker of firmware      *)
(* events, which does not take the mutex.  The work item of cfg80211 takes *)
(* it once for the whole list; after a disconnection it sends commands for *)
(* the keys (rdev_del_key), which change nothing that is kept here.        *)
EXTENDS Naturals, Sequences

CONSTANTS
  Bsses,        \* the access points, all of one SSID
  NoBss,        \* the address of none of them: all zeros
  MaxConnects,  \* requests to connect
  MaxUpsets     \* requests to disconnect, links that roam or are lost, and commands that
                \*   fail, together

ASSUME ConnectAssumption ==
  /\ Bsses # {} /\ NoBss \notin Bsses
  /\ MaxConnects \in Nat \ {0} /\ MaxUpsets \in Nat

Keys == {"open", "psk", "ft", "ftpsk"}
FwSup == {"psk", "ftpsk"}   \* keys of a supplicant in the firmware that says when it is done
Ft == {"ft", "ftpsk"}       \* fast transition; the supplicant of "ft" follows the roam event
Threads == {"call", "event"}
Idle == [pc |-> "idle", key |-> "open"]

VARIABLES
  wdev,      \* wireless_dev: connected, an SSID is set, connected_addr
  posted,    \* its event_list
  vif,       \* sme_state: connecting, connected, eap, assoc; profile: bssid, use_fwsup, is_ft
  fw,        \* the firmware: the access point it is linked to, a join, the key of the last
  events,    \* events on their way to the worker
  lock,      \* wiphy mutex
  th,        \* the threads
  connects,  \* requests so far
  upsets,    \* and of the others
  \* history
  open,      \* the last request was accepted, and neither answered nor withdrawn
  results,   \* connect results posted
  crossed,   \* a request met something of an earlier connection that was still on its way
  astray     \* a DISASSOC failed, and left the firmware linked or joining

history == << open, results, crossed, astray >>
vars == << wdev, posted, vif, fw, events, lock, th, connects, upsets, history >>


Init ==
  /\ wdev = [connected |-> FALSE, ssid |-> FALSE, addr |-> NoBss]
  /\ posted = << >>
  /\ vif = [connecting |-> FALSE, connected |-> FALSE, eap |-> FALSE, assoc |-> FALSE,
            bssid |-> NoBss, sup |-> FALSE, ft |-> FALSE]
  /\ fw = [link |-> NoBss, joining |-> FALSE, key |-> "open"]
  /\ events = << >> /\ lock = "free"
  /\ th = [t \in Threads |-> Idle]
  /\ connects = 0 /\ upsets = 0
  /\ open = FALSE /\ results = 0 /\ crossed = FALSE /\ astray = FALSE

Upset == upsets < MaxUpsets /\ upsets' = upsets + 1
Goes(t, pc) == th' = [th EXCEPT ![t].pc = pc]
Msg(type, bss) == [type |-> type, bss |-> bss]
Event(code, bss) == [code |-> code, bss |-> bss]
Settled == posted = << >> /\ events = << >> /\ ~fw.joining /\ th["event"].pc = "idle"
Quiet == Settled /\ lock = "free"

(* Of the vif: the flags of a supplicant, brcmf_init_prof, the profile of  *)
(* a key, and whether use_fwsup is any but NONE.                           *)
NoFlags(v) == [v EXCEPT !.eap = FALSE, !.assoc = FALSE]
InitProf(v) == [v EXCEPT !.bssid = NoBss, !.sup = FALSE, !.ft = FALSE]
WithKey(v, key) == [v EXCEPT !.sup = key \in FwSup, !.ft = key \in Ft]
HasPmk(v) == v.sup \/ v.ft

-----------------------------------------------------------------------------
(* The request to connect: cfg80211_connect, which only knows of a         *)
(* connection, not of an attempt; the driver's commands for the elements,  *)
(* the bit, the commands for the keys, the join.  A fast transition is one *)
(* command.                                                                *)
CfgConnect(key, prev) ==
  /\ lock = "free" /\ connects < MaxConnects /\ connects' = connects + 1
  /\ prev = wdev.connected /\ (prev => key = fw.key)
  /\ wdev' = [wdev EXCEPT !.ssid = TRUE]
  /\ lock' = "call"
  /\ crossed' = (crossed \/ ~Settled)
  /\ IF key \in Ft /\ prev
     THEN /\ vif' = [vif EXCEPT !.connecting = TRUE]
          /\ th' = [th EXCEPT !["call"] = [pc |-> "join", key |-> key]]
     ELSE /\ th' = [th EXCEPT !["call"] = [pc |-> "elements", key |-> key]]
          /\ UNCHANGED vif
  /\ UNCHANGED << posted, fw, events, upsets, open, results, astray >>

(* A driver that is not up refuses a request before it does anything; then *)
(* cfg80211 forgets the SSID, whoever set it, unless it is connected.      *)
Refused ==
  /\ lock = "free" /\ Upset
  /\ wdev' = [wdev EXCEPT !.ssid = wdev.connected]
  /\ crossed' = (crossed \/ ~Settled)
  /\ UNCHANGED << posted, vif, fw, events, lock, th, connects, open, results, astray >>

Elements ==
  /\ th["call"].pc = "elements"
  /\ vif' = [vif EXCEPT !.connecting = TRUE]
  /\ Goes("call", "keys")
  /\ UNCHANGED << wdev, posted, fw, events, lock, connects, upsets, history >>

KeyMgmt ==
  /\ th["call"].pc = "keys"
  /\ vif' = WithKey(vif, th["call"].key)
  /\ Goes("call", "join")
  /\ UNCHANGED << wdev, posted, fw, events, lock, connects, upsets, history >>

CallReturns == lock' = "free" /\ th' = [th EXCEPT !["call"] = Idle]

Join ==
  /\ th["call"].pc = "join"
  /\ fw' = [fw EXCEPT !.joining = TRUE, !.key = th["call"].key]
  /\ CallReturns
  /\ open' = TRUE
  /\ crossed' = (crossed \/ ~Settled)
  /\ UNCHANGED << wdev, posted, vif, events, connects, upsets, results, astray >>

(* A command fails: of those for the keys, before the profile is reset,    *)
(* after it, or once it is that of the request; or the join.               *)
Withdrawn_Still(v) == v
Withdrawn(v) == [v EXCEPT !.connecting = FALSE]
ConnectFails ==
  /\ th["call"].pc \in {"keys", "join"} /\ Upset
  /\ \/ vif' = Withdrawn(vif)
     \/ /\ th["call"].pc = "keys"
        /\ \E key \in {"open", th["call"].key} : vif' = Withdrawn(WithKey(vif, key))
  /\ wdev' = [wdev EXCEPT !.ssid = wdev.connected]
  /\ CallReturns
  /\ UNCHANGED << posted, fw, events, connects, history >>

(* The request to disconnect: cfg80211_disconnect.                         *)
CfgDisconnect ==
  /\ lock = "free" /\ wdev.ssid /\ Upset
  /\ vif' = [NoFlags(vif) EXCEPT !.connecting = FALSE, !.connected = FALSE]
  /\ posted' = Append(posted, Msg("disconnected", NoBss))
  /\ lock' = "call"
  /\ Goes("call", "leave")
  /\ open' = FALSE
  /\ UNCHANGED << wdev, fw, events, connects, results, crossed, astray >>

(* The firmware leaves, and says so if it was linked; or the command fails *)
(* and it stays.  The driver and cfg80211 go on the same in either case.   *)
Disassoc ==
  /\ fw' = [fw EXCEPT !.link = NoBss, !.joining = FALSE]
  /\ events' = IF fw.link = NoBss THEN events ELSE Append(events, Event("down", fw.link))
  /\ UNCHANGED << upsets, astray >>
DisassocFails ==
  /\ Upset
  /\ astray' = (astray \/ fw.link # NoBss \/ fw.joining)
  /\ UNCHANGED << fw, events >>

Left ==
  /\ th["call"].pc = "leave"
  /\ Disassoc \/ DisassocFails
  /\ wdev' = [wdev EXCEPT !.ssid = wdev.connected]
  /\ CallReturns
  /\ UNCHANGED << posted, vif, connects, open, results, crossed >>

-----------------------------------------------------------------------------
(* The worker of events: what brcmf_is_linkup, _is_linkdown and            *)
(* _is_nonetwork note and find.                                            *)
Seen_NotTheBss(v, e) ==
  [v EXCEPT !.eap = @ \/ (v.sup /\ e.code = "sup"), !.assoc = @ \/ (v.sup /\ e.code = "up")]
Seen(v, e) ==
  [v EXCEPT !.eap = @ \/ (v.sup /\ e.code = "sup"),
            !.assoc = @ \/ (v.sup /\ e.code = "up"),
            !.bssid = IF e.code = "up" THEN e.bss ELSE @]

IsLinkup(v, e) == (e.code = "up" /\ ~v.sup) \/ (Seen(v, e).eap /\ Seen(v, e).assoc)
Noted(v, e) ==
  IF (e.code = "up" /\ ~v.sup) \/ ~IsLinkup(v, e) THEN Seen(v, e) ELSE NoFlags(Seen(v, e))
IsLinkdown(e) == e.code \in {"down", "fail"}
IsNonetwork(e) == e.code \in {"badkey", "fail"}

NextEvent ==
  /\ th["event"].pc = "idle" /\ events' = Tail(events)
  /\ UNCHANGED << wdev, fw, lock, connects, upsets, open, crossed, astray >>

(* brcmf_bss_connect_done: with success it sleeps before it posts.         *)
Answering_Still(v) == v
Answering(v) == [v EXCEPT !.connecting = FALSE]
ConnectSucceeds(v) ==
  /\ vif' = Answering(v)
  /\ IF v.connecting THEN Goes("event", "complete") ELSE UNCHANGED th
  /\ UNCHANGED << posted, results >>
ConnectDoneFailed(v) ==
  IF v.connecting
  THEN posted' = Append(posted, Msg("failed", v.bssid)) /\ results' = results + 1
  ELSE UNCHANGED << posted, results >>

Completed ==
  /\ th["event"].pc = "complete"
  /\ vif' = [vif EXCEPT !.connected = TRUE]
  /\ posted' = Append(posted, Msg("connected", vif.bssid)) /\ results' = results + 1
  /\ Goes("event", "idle")
  /\ UNCHANGED << wdev, fw, events, lock, connects, upsets, open, crossed, astray >>

(* brcmf_notify_connect_status                                             *)
Roaming(v, e) == e.code = "up" /\ ~v.ft /\ v.connected
LinkUp(e) ==
  LET v == Noted(vif, e)
  IN /\ NextEvent /\ IsLinkup(vif, e)
     /\ IF Roaming(v, e)
        THEN vif' = v /\ Goes("event", "roamed") /\ UNCHANGED << posted, results >>
        ELSE ConnectSucceeds(v)

(* The rest of brcmf_link_down and brcmf_init_prof: with a supplicant in   *)
(* the firmware another command before the profile is forgotten.           *)
LinkDownEnds(v) ==
  IF HasPmk(v)
  THEN vif' = NoFlags(Answering(v)) /\ Goes("event", "unkey")
  ELSE vif' = InitProf(NoFlags(Answering(v))) /\ Goes("event", "idle")

NotMine(e) ==
  (~vif.connected /\ ~vif.connecting) \/ (vif.connected /\ e.bss # vif.bssid)
LinkDown(e) ==
  /\ NextEvent /\ IsLinkdown(e) /\ ~IsLinkup(vif, e)
  /\ IF NotMine(e) THEN vif' = NoFlags(vif) /\ UNCHANGED << posted, results, th >>
     ELSE /\ ConnectDoneFailed(vif)
          /\ IF vif.connected
             THEN vif' = [NoFlags(Answering(vif)) EXCEPT !.connected = FALSE] /\ Goes("event", "disassoc")
             ELSE LinkDownEnds(vif)

Disassociated ==
  /\ th["event"].pc = "disassoc"
  /\ Disassoc \/ DisassocFails
  /\ posted' = Append(posted, Msg("disconnected", NoBss))
  /\ LinkDownEnds(vif)
  /\ UNCHANGED << wdev, lock, connects, open, results, crossed >>

Unkeyed ==
  /\ th["event"].pc = "unkey"
  /\ vif' = InitProf(vif)
  /\ Goes("event", "idle")
  /\ UNCHANGED << wdev, posted, fw, events, lock, connects, upsets, history >>

NoNetwork(e) ==
  /\ NextEvent /\ IsNonetwork(e) /\ ~IsLinkdown(e) /\ ~IsLinkup(vif, e)
  /\ ConnectDoneFailed(vif)
  /\ vif' = IF vif.connecting THEN NoFlags(Answering(vif)) ELSE vif
  /\ UNCHANGED th

Other(e) ==
  /\ NextEvent /\ e.code \in {"up", "sup"} /\ ~IsLinkup(vif, e)
  /\ vif' = Noted(vif, e)
  /\ UNCHANGED << posted, results, th >>

(* brcmf_notify_roaming_status                                             *)
RoamingStatus(e) ==
  /\ NextEvent /\ e.code = "roam"
  /\ IF ~vif.connected THEN ConnectSucceeds(vif)
     ELSE /\ UNCHANGED << posted, results >>
          /\ IF vif.ft
             THEN vif' = [vif EXCEPT !.bssid = e.bss] /\ Goes("event", "roamed")
             ELSE UNCHANGED << vif, th >>

(* brcmf_bss_roaming_done; cfg80211_roamed looks the access point up under *)
(* the SSID of the wdev, and only warns if there is none.                  *)
Roamed ==
  /\ th["event"].pc = "roamed"
  /\ posted' = IF wdev.ssid THEN Append(posted, Msg("roamed", vif.bssid)) ELSE posted
  /\ vif' = [Answering(vif) EXCEPT !.connected = TRUE]
  /\ Goes("event", "idle")
  /\ UNCHANGED << wdev, fw, events, lock, connects, upsets, history >>

-----------------------------------------------------------------------------
(* The work item of cfg80211: cfg80211_process_wdev_events.                *)
ConnectResult(m) ==    \* the message goes out whether or not the access point is found
  /\ m.type \in {"connected", "failed"}
  /\ wdev' = IF m.type = "failed" THEN [wdev EXCEPT !.ssid = FALSE]
             ELSE IF wdev.ssid THEN [wdev EXCEPT !.connected = TRUE, !.addr = m.bss]
             ELSE wdev
RoamResult(m) ==
  /\ m.type = "roamed"
  /\ wdev' = IF wdev.connected THEN [wdev EXCEPT !.addr = m.bss] ELSE wdev
DisconnectResult(m) ==
  /\ m.type = "disconnected"
  /\ wdev' = [wdev EXCEPT !.connected = FALSE, !.ssid = FALSE]

EventWork ==
  /\ lock \in {"free", "work"} /\ posted # << >>
  /\ posted' = Tail(posted)
  /\ lock' = IF Tail(posted) = << >> THEN "free" ELSE "work"
  /\ LET m == Head(posted) IN ConnectResult(m) \/ RoamResult(m) \/ DisconnectResult(m)
  /\ open' = FALSE
  /\ UNCHANGED << vif, fw, events, th, connects, upsets, results, crossed, astray >>

-----------------------------------------------------------------------------
(* The firmware, as the driver expects it.  The supplicant's event may     *)
(* come before that of the link or after it; a fast transition is without  *)
(* a handshake, and announced by the event of roaming.                     *)
ByHandshake(transition) == fw.key = "psk" \/ (fw.key = "ftpsk" /\ ~transition)
Linked(b, transition) ==
  /\ fw' = [fw EXCEPT !.joining = FALSE, !.link = b]
  /\ \/ fw.key = "open" /\ events' = Append(events, Event("up", b))
     \/ fw.key = "ft" /\ ~transition /\ events' = Append(events, Event("up", b))
     \/ fw.key \in Ft /\ transition /\ events' = Append(events, Event("roam", b))
     \/ /\ ByHandshake(transition)
        /\ \/ events' = events \o << Event("up", b), Event("sup", b) >>
           \/ events' = events \o << Event("sup", b), Event("up", b) >>
Firmware == UNCHANGED << wdev, posted, vif, lock, th, connects, history >>

FwJoins(b) == fw.joining /\ Linked(b, fw.link # NoBss) /\ UNCHANGED upsets /\ Firmware
FwBadKey(b) ==
  /\ fw.joining /\ ByHandshake(fw.link # NoBss)
  /\ fw' = [fw EXCEPT !.joining = FALSE, !.link = NoBss]
  /\ events' = events \o << Event("up", b), Event("badkey", b), Event("down", b) >>
  /\ UNCHANGED upsets /\ Firmware
FwFails ==
  /\ fw.joining
  /\ fw' = [fw EXCEPT !.joining = FALSE, !.link = NoBss]
  /\ events' = Append(events, IF fw.link = NoBss THEN Event("fail", NoBss) ELSE Event("down", fw.link))
  /\ UNCHANGED upsets /\ Firmware
FwRoams(b) == fw.link \notin {NoBss, b} /\ ~fw.joining /\ Linked(b, TRUE) /\ Upset /\ Firmware
FwLost ==
  /\ fw.link # NoBss /\ Upset
  /\ fw' = [fw EXCEPT !.link = NoBss]
  /\ events' = Append(events, Event("down", fw.link))
  /\ Firmware

HandlesEvent(e) == LinkUp(e) \/ LinkDown(e) \/ NoNetwork(e) \/ Other(e) \/ RoamingStatus(e)

CallStep ==
  \/ \E key \in Keys, prev \in BOOLEAN : CfgConnect(key, prev)
  \/ Refused \/ Elements \/ KeyMgmt \/ Join \/ ConnectFails \/ CfgDisconnect \/ Left
EventStep ==
  \/ events # << >> /\ HandlesEvent(Head(events))
  \/ Completed \/ Roamed \/ Disassociated \/ Unkeyed
FwStep ==
  \/ \E b \in Bsses : FwJoins(b) \/ FwBadKey(b) \/ FwRoams(b)
  \/ FwFails \/ FwLost

Next == CallStep \/ EventStep \/ EventWork \/ FwStep

Spec == Init /\ [][Next]_vars

-----------------------------------------------------------------------------
(* When everything on its way has arrived, cfg80211, the driver and the    *)
(* firmware agree whether there is a connection, and to which access point *)
(* (bss_roaming_done, link_down and cfg80211_disconnect each update one    *)
(* side and leave the other to a message), unless requests crossed with    *)
(* what was still on its way, or a DISASSOC failed (3106, 1951) that was   *)
(* to end a link or a join: the firmware keeps it, and the link-down event *)
(* that takes CONNECTED back from a worker that was asleep does not come.  *)
(* Roams of a supplicant in the firmware are announced by its event and    *)
(* are not told (7978).                                                    *)
InStep ==
  Quiet /\ ~crossed /\ ~astray =>
    /\ wdev.connected = vif.connected /\ vif.connected = (fw.link # NoBss)
    /\ vif.connected /\ fw.key # "psk" => vif.bssid = fw.link /\ wdev.addr = fw.link

(* Then, also, every request that was accepted has been answered, and      *)
(* nothing of it stays behind that would refuse scans or the next request. *)
(* (A driver left CONNECTED by a DISASSOC that failed answers the next     *)
(* request as a roam, and the SSID stays set.)                             *)
Answered ==
  Quiet /\ ~crossed /\ ~astray => ~open /\ ~vif.connecting /\ wdev.ssid = wdev.connected

(* However requests, losses and roams cross, cfg80211_connect_done is not  *)
(* called more often than there were requests: each takes the bit away.    *)
ResultsOnce == results <= connects

-----------------------------------------------------------------------------
(* What the proofs need: the types, and that each request can still bring  *)
(* at most one result: its bit is to be set, is set, or was just taken.    *)
Addrs == Bsses \cup {NoBss}
Messages == [type : {"connected", "failed", "roamed", "disconnected"}, bss : Addrs]
Events == [code : {"up", "down", "sup", "badkey", "fail", "roam"}, bss : Addrs]
Vifs == [connecting : BOOLEAN, connected : BOOLEAN, eap : BOOLEAN, assoc : BOOLEAN,
         bssid : Addrs, sup : BOOLEAN, ft : BOOLEAN]
Pcs == {"idle", "elements", "keys", "join", "leave", "complete", "roamed", "disassoc", "unkey"}
ThreadStates == [pc : Pcs, key : Keys]

TypeOK ==
  /\ wdev \in [connected : BOOLEAN, ssid : BOOLEAN, addr : Addrs]
  /\ posted \in Seq(Messages)
  /\ vif \in Vifs
  /\ fw \in [link : Addrs, joining : BOOLEAN, key : Keys]
  /\ events \in Seq(Events) /\ lock \in {"free", "call", "work"}
  /\ th \in [Threads -> ThreadStates]
  /\ connects \in Nat /\ upsets \in Nat /\ results \in Nat
  /\ open \in BOOLEAN /\ crossed \in BOOLEAN /\ astray \in BOOLEAN

Count(b) == IF b THEN 1 ELSE 0
ToCome == Count(vif.connecting) + Count(th["call"].pc = "elements") + Count(th["event"].pc = "complete")
Owed == results + ToCome <= connects

(* The mutex: a call that sleeps holds it, and each thread is in its code. *)
OneCall == lock = "call" <=> th["call"].pc # "idle"
InItsCode ==
  /\ th["call"].pc \in {"idle", "elements", "keys", "join", "leave"}
  /\ th["event"].pc \in {"idle", "complete", "roamed", "disassoc", "unkey"}

IInv == TypeOK /\ Owed /\ OneCall /\ InItsCode
=============================================================================
