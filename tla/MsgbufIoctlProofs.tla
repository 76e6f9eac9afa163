------------------------- MODULE MsgbufIoctlProofs -------------------------
(***************************************************************************)
(* Commands and receive buffers of MsgbufIoctl, for every number of packet *)
(* ids, buffers, control slots and commands: until a command fails with    *)
(* -EIO the counters are the numbers of buffers posted, no id is lost, no  *)
(* buffer is taken from the device, every command gets its own answer and  *)
(* no wake-up is missed.                                                   *)
(*                                                                         *)
(* The caller waits for a command that is in one place of its journey      *)
(* (Command); a buffer is in one place of its own (Places), except the one *)
(* with the answer, from the time that the interrupt thread notes its id   *)
(* until the caller takes it (NoneLost).                                   *)
(***************************************************************************)
EXTENDS MsgbufIoctl, FiniteSetTheorems, FunctionTheorems, TLAPS

(* What does not depend on the commands: data buffers are counted when     *)
(* they come back, the interrupt thread has an event in hand, and a        *)
(* command was within the bound when it was begun.                         *)
DataCounted == cur["data"] >= Cardinality(devbuf["data"]) + Cardinality(rxunpub) + Len(rxcpl)
Controls ==
  /\ \A j \in DOMAIN ctl : ctl[j].kind # "data"
  /\ \A j \in DOMAIN ctlcpl : ctlcpl[j].kind \in {"event", "ioctl"}
  /\ ipc = "event" => ctlcpl # << >> /\ Head(ctlcpl).kind = "event"
  /\ qpc = "tx" => reqid < MaxQueries

(* A posted buffer is in one place, once, and its id is of its kind.       *)
Once(s) ==
  \A m, n \in DOMAIN s : m # n /\ s[m].kind = s[n].kind /\ s[m].kind # "request" => s[m].id # s[n].id
Distinct(s) == \A m, n \in DOMAIN s : m # n => s[m] # s[n]
Places ==
  /\ Once(ctl) /\ Once(ctlcpl) /\ Distinct(rxcpl)
  /\ \A k \in Kinds : /\ devbuf[k] \cap InCtl(k) = {} /\ Lent(k) \cap InCpl(k) = {}
                      /\ \A i \in Posted(k) : rx_pktids[i] = k
  /\ rxunpub \cap devbuf["data"] = {}
Counts == \A k \in Kinds : cur[k] = Cardinality(Posted(k)) + CountOff(k)

(* Where the last command is: in the control ring, at work in the device,  *)
(* on its way back, noted by the interrupt thread, known to the caller, or *)
(* nowhere.                                                                *)
None(s, kind) == \A j \in DOMAIN s : s[j].kind # kind
One(s, kind, trans, id) ==
  \E j \in DOMAIN s : /\ s[j].kind = kind /\ s[j].trans = trans /\ s[j].id = id
                      /\ \A n \in DOMAIN s : s[n].kind = kind => n = j
NoRequest == None(ctl, "request")
NoReply == None(ctlcpl, "ioctl")
Carries(i) == filled[i] = reqid /\ rx_pktids[i] = "ioctl"
Noted ==
  /\ ioctl_resp_status = reqid /\ Carries(ioctl_resp_pktid)
  /\ ioctl_resp_pktid \notin Posted("ioctl")
Asking ==
  /\ \E i \in PktIds : One(ctl, "request", reqid, i)
  /\ devreq = << >> /\ NoReply /\ ipc # "wake" /\ ~ctl_completed
Working == NoRequest /\ devreq = << << reqid, reqid >> >> /\ NoReply /\ ipc # "wake" /\ ~ctl_completed
Replying ==
  /\ \E i \in PktIds : One(ctlcpl, "ioctl", reqid, i) /\ Carries(i)
  /\ NoRequest /\ devreq = << >> /\ ipc # "wake" /\ ~ctl_completed
Noting == NoRequest /\ devreq = << >> /\ NoReply /\ ipc = "wake" /\ ~ctl_completed /\ Noted
Known == NoRequest /\ devreq = << >> /\ NoReply /\ ipc # "wake" /\ ctl_completed /\ Noted
Nowhere == NoRequest /\ devreq = << >> /\ NoReply /\ ipc # "wake"
Command ==
  /\ qpc \in {"idle", "tx", "status"} => Nowhere
  /\ qpc = "tx" => ~ctl_completed
  /\ qpc = "wait" => Asking \/ Working \/ Replying \/ Noting \/ Known
  /\ qpc = "take" => Known
  /\ qpc = "status" => got[2] = reqid /\ ioctl_resp_status = reqid
  /\ qpc = "idle" /\ err = "0" => got = << reqid, reqid >>

(* No id is lost: it is free, or posted, or holds the answer.              *)
InHand == (qpc = "wait" /\ (ipc = "wake" \/ ctl_completed)) \/ qpc = "take"
NoneLost ==
  \A i \in PktIds : \/ rx_pktids[i] = "free"
                    \/ \E k \in Kinds : rx_pktids[i] = k /\ i \in Posted(k)
                    \/ InHand /\ i = ioctl_resp_pktid

InOrder == Places /\ Counts /\ Command /\ NoneLost
IInv == TypeOK /\ DataCounted /\ Controls /\ (~gaveUp => InOrder)

-----------------------------------------------------------------------------
(* Sequences, element by element.                                          *)
LEMMA Elements ==
  ASSUME NEW S, NEW s \in Seq(S)
  PROVE  /\ Len(s) \in Nat /\ DOMAIN s = 1 .. Len(s)
         /\ \A j \in DOMAIN s : s[j] \in S
  OBVIOUS

LEMMA Appended ==
  ASSUME NEW S, NEW s \in Seq(S), NEW e \in S
  PROVE  /\ Append(s, e) \in Seq(S) /\ Len(Append(s, e)) = Len(s) + 1
         /\ DOMAIN Append(s, e) = 1 .. Len(s) + 1
         /\ \A j \in 1 .. Len(s) : Append(s, e)[j] = s[j]
         /\ Append(s, e)[Len(s) + 1] = e
         /\ s # << >> => Append(s, e) # << >> /\ Head(Append(s, e)) = Head(s)
  OBVIOUS

LEMMA Taken ==
  ASSUME NEW S, NEW s \in Seq(S), s # << >>
  PROVE  /\ Len(s) \in Nat /\ Len(s) > 0 /\ Head(s) = s[1] /\ Head(s) \in S
         /\ Tail(s) \in Seq(S) /\ Len(Tail(s)) = Len(s) - 1
         /\ DOMAIN Tail(s) = 1 .. Len(s) - 1
         /\ \A j \in 1 .. Len(s) - 1 : Tail(s)[j] = s[j + 1]
  OBVIOUS

LEMMA Joined ==
  ASSUME NEW S, NEW s \in Seq(S), NEW t \in Seq(S)
  PROVE  /\ s \o t \in Seq(S) /\ Len(s \o t) = Len(s) + Len(t)
         /\ DOMAIN (s \o t) = 1 .. Len(s) + Len(t)
         /\ \A j \in 1 .. Len(s) : (s \o t)[j] = s[j]
         /\ \A j \in 1 .. Len(t) : (s \o t)[Len(s) + j] = t[j]
         /\ \A j \in Len(s) + 1 .. Len(s) + Len(t) : (s \o t)[j] = t[j - Len(s)]
  OBVIOUS

(* The ids of a kind in a sequence of messages.                            *)
Kin(s, k) == {s[j].id : j \in {n \in DOMAIN s : s[n].kind = k}}

LEMMA KinAppended ==
  ASSUME NEW s \in Seq(Messages), NEW e \in Messages
  PROVE  /\ \A k \in Kinds : Kin(Append(s, e), k) = Kin(s, k) \cup (IF e.kind = k THEN {e.id} ELSE {})
         /\ Once(s) /\ (e.kind # "request" => e.id \notin Kin(s, e.kind)) => Once(Append(s, e))
<1> DEFINE t == Append(s, e)
<1>1. /\ Len(s) \in Nat /\ DOMAIN s = 1 .. Len(s) /\ DOMAIN t = 1 .. Len(s) + 1
      /\ \A j \in 1 .. Len(s) : t[j] = s[j]
      /\ t[Len(s) + 1] = e
  BY Elements, Appended
<1> HIDE DEF t
<1>2. ASSUME NEW k \in Kinds PROVE Kin(t, k) = Kin(s, k) \cup (IF e.kind = k THEN {e.id} ELSE {})
  BY <1>1 DEF Kin
<1>3. ASSUME Once(s), e.kind # "request" => e.id \notin Kin(s, e.kind) PROVE Once(t)
  <2> SUFFICES ASSUME NEW m \in DOMAIN t, NEW n \in DOMAIN t,
                      m # n, t[m].kind = t[n].kind, t[m].kind # "request"
               PROVE  t[m].id # t[n].id
    BY DEF Once
  <2>1. CASE m \in DOMAIN s /\ n \in DOMAIN s
    BY <1>1, <1>3, <2>1 DEF Once
  <2>2. CASE m = Len(s) + 1 \/ n = Len(s) + 1
    BY <1>1, <1>3, <2>2 DEF Kin
  <2>3. QED
    BY <1>1, <2>1, <2>2
<1>4. QED
  BY <1>2, <1>3 DEF t

LEMMA KinTaken ==
  ASSUME NEW s \in Seq(Messages), s # << >>
  PROVE  /\ \A k \in Kinds : Kin(s, k) = Kin(Tail(s), k) \cup (IF Head(s).kind = k THEN {Head(s).id} ELSE {})
         /\ Once(s) => /\ Once(Tail(s))
                       /\ Head(s).kind # "request" => Head(s).id \notin Kin(Tail(s), Head(s).kind)
<1> DEFINE t == Tail(s)
           e == Head(s)
<1>1. /\ Len(s) \in Nat /\ Len(s) > 0 /\ DOMAIN s = 1 .. Len(s) /\ DOMAIN t = 1 .. Len(s) - 1
      /\ \A j \in 1 .. Len(s) - 1 : t[j] = s[j + 1]
      /\ e = s[1]
  BY Elements, Taken
<1> HIDE DEF t, e
<1>2. ASSUME NEW k \in Kinds PROVE Kin(s, k) = Kin(t, k) \cup (IF e.kind = k THEN {e.id} ELSE {})
  <2>1. ASSUME NEW i \in Kin(s, k) PROVE i \in Kin(t, k) \/ (e.kind = k /\ i = e.id)
    <3>1. PICK j \in DOMAIN s : s[j].kind = k /\ s[j].id = i
      BY <2>1 DEF Kin
    <3>2. CASE j = 1
      BY <1>1, <3>1, <3>2
    <3>3. CASE j # 1
      <4>1. j - 1 \in DOMAIN t /\ t[j - 1] = s[j]
        BY <1>1, <3>3
      <4>2. QED
        BY <3>1, <4>1 DEF Kin
    <3>4. QED
      BY <3>2, <3>3
  <2>2. ASSUME NEW i \in Kin(t, k) PROVE i \in Kin(s, k)
    <3>1. PICK j \in DOMAIN t : t[j].kind = k /\ t[j].id = i
      BY <2>2 DEF Kin
    <3>2. j + 1 \in DOMAIN s /\ t[j] = s[j + 1]
      BY <1>1
    <3>3. QED
      BY <3>1, <3>2 DEF Kin
  <2>3. e.kind = k => e.id \in Kin(s, k)
    <3>1. 1 \in DOMAIN s /\ e = s[1]
      BY <1>1
    <3>2. QED
      BY <3>1 DEF Kin
  <2>4. QED
    BY <2>1, <2>2, <2>3
<1>3. ASSUME Once(s) PROVE Once(t) /\ (e.kind # "request" => e.id \notin Kin(t, e.kind))
  <2>1. \A j \in DOMAIN t : j + 1 \in DOMAIN s /\ j + 1 # 1 /\ t[j] = s[j + 1]
    BY <1>1
  <2>2. 1 \in DOMAIN s /\ e = s[1]
    BY <1>1
  <2>3. \A m, n \in DOMAIN t : m # n => m + 1 # n + 1
    BY <1>1
  <2>4. QED
    BY <1>3, <2>1, <2>2, <2>3 DEF Once, Kin
<1>4. QED
  BY <1>2, <1>3 DEF t, e

(* The one message of a kind, or none, as a sequence grows and shrinks.    *)
LEMMA OneAppended ==
  ASSUME NEW s \in Seq(Messages), NEW e \in Messages, NEW kind
  PROVE  /\ e.kind # kind /\ None(s, kind) => None(Append(s, e), kind)
         /\ \A t, i : e.kind # kind /\ One(s, kind, t, i) => One(Append(s, e), kind, t, i)
         /\ e.kind = kind /\ None(s, kind) => One(Append(s, e), kind, e.trans, e.id)
<1> DEFINE t == Append(s, e)
<1>1. /\ Len(s) \in Nat /\ DOMAIN s = 1 .. Len(s) /\ DOMAIN t = 1 .. Len(s) + 1
      /\ \A j \in 1 .. Len(s) : t[j] = s[j]
      /\ t[Len(s) + 1] = e
  BY Elements, Appended
<1> HIDE DEF t
<1>2. \A j \in DOMAIN t : (j \in DOMAIN s /\ t[j] = s[j]) \/ (j = Len(s) + 1 /\ t[j] = e)
  BY <1>1
<1>3. \A j \in DOMAIN s : j \in DOMAIN t /\ t[j] = s[j]
  BY <1>1
<1>4. e.kind # kind /\ None(s, kind) => None(t, kind)
  BY <1>2 DEF None
<1>5. ASSUME NEW q, NEW i, e.kind # kind, One(s, kind, q, i) PROVE One(t, kind, q, i)
  BY <1>2, <1>3, <1>5 DEF One
<1>6. ASSUME e.kind = kind, None(s, kind) PROVE One(t, kind, e.trans, e.id)
  <2>1. Len(s) + 1 \in DOMAIN t
    BY <1>1
  <2>2. QED
    BY <1>1, <1>2, <1>6, <2>1 DEF One, None
<1>7. QED
  BY <1>4, <1>5, <1>6 DEF t

LEMMA OneTaken ==
  ASSUME NEW s \in Seq(Messages), s # << >>, NEW kind
  PROVE  /\ Head(s).kind # kind /\ None(s, kind) => None(Tail(s), kind)
         /\ \A t, i : Head(s).kind # kind /\ One(s, kind, t, i) => One(Tail(s), kind, t, i)
         /\ Head(s).kind = kind => ~None(s, kind)
         /\ \A t, i : Head(s).kind = kind /\ One(s, kind, t, i)
                      => None(Tail(s), kind) /\ Head(s).trans = t /\ Head(s).id = i
<1> DEFINE r == Tail(s)
           e == Head(s)
<1>1. /\ Len(s) \in Nat /\ Len(s) > 0 /\ DOMAIN s = 1 .. Len(s) /\ DOMAIN r = 1 .. Len(s) - 1
      /\ \A j \in 1 .. Len(s) - 1 : r[j] = s[j + 1]
      /\ e = s[1]
  BY Elements, Taken
<1> HIDE DEF r, e
<1>2. 1 \in DOMAIN s /\ e = s[1]
  BY <1>1
<1>3. \A j \in DOMAIN r : j \in Int /\ j + 1 \in DOMAIN s /\ j + 1 # 1 /\ r[j] = s[j + 1]
  BY <1>1
<1>4. \A j \in DOMAIN s : j # 1 => j - 1 \in DOMAIN r /\ r[j - 1] = s[j]
  BY <1>1
<1>5. e.kind # kind /\ None(s, kind) => None(r, kind)
  BY <1>3 DEF None
<1>6. e.kind = kind => ~None(s, kind)
  BY <1>2 DEF None
<1>7. ASSUME NEW t, NEW i, e.kind # kind, One(s, kind, t, i) PROVE One(r, kind, t, i)
  <2>1. PICK j \in DOMAIN s : /\ s[j].kind = kind /\ s[j].trans = t /\ s[j].id = i
                              /\ \A n \in DOMAIN s : s[n].kind = kind => n = j
    BY <1>7 DEF One
  <2>2. j # 1 /\ j - 1 \in DOMAIN r /\ r[j - 1] = s[j] /\ j \in Int
    BY <1>1, <1>4, <1>7, <2>1
  <2>3. ASSUME NEW n \in DOMAIN r, r[n].kind = kind PROVE n = j - 1
    <3>1. n \in Int /\ n + 1 = j
      BY <1>3, <2>1, <2>3
    <3>2. QED
      BY <2>2, <3>1
  <2>4. QED
    BY <2>1, <2>2, <2>3 DEF One
<1>8. ASSUME NEW t, NEW i, e.kind = kind, One(s, kind, t, i) PROVE None(r, kind) /\ e.trans = t /\ e.id = i
  <2>1. PICK j \in DOMAIN s : /\ s[j].kind = kind /\ s[j].trans = t /\ s[j].id = i
                              /\ \A n \in DOMAIN s : s[n].kind = kind => n = j
    BY <1>8 DEF One
  <2>2. j = 1
    BY <1>2, <1>8, <2>1
  <2>3. QED
    BY <1>2, <1>3, <2>1, <2>2 DEF None
<1>9. QED
  BY <1>5, <1>6, <1>7, <1>8 DEF r, e

(* A batch of posts: what it adds to the ring.                             *)
Batch(k, s) == [j \in DOMAIN s |-> Message(k, s[j], 0)]

LEMMA KinPosted ==
  ASSUME NEW c \in Seq(Messages), NEW k \in Kinds, NEW s \in Seq(PktIds)
  PROVE  LET t == c \o Batch(k, s)
         IN  /\ t \in Seq(Messages) /\ Len(t) = Len(c) + Len(s)
             /\ \A j \in DOMAIN t : \/ j \in DOMAIN c /\ t[j] = c[j]
                                    \/ j \notin DOMAIN c /\ t[j].kind = k
             /\ \A j \in DOMAIN c : j \in DOMAIN t /\ t[j] = c[j]
             /\ \A q \in Kinds : Kin(t, q) = Kin(c, q) \cup (IF q = k THEN Ids(s) ELSE {})
             /\ Once(c) /\ Distinct(s) /\ Ids(s) \cap Kin(c, k) = {} => Once(t)
<1> DEFINE b == Batch(k, s)
           t == c \o b
<1>1. Len(s) \in Nat /\ DOMAIN s = 1 .. Len(s) /\ \A j \in DOMAIN s : s[j] \in PktIds
  BY Elements
<1>2. /\ b \in Seq(Messages) /\ Len(b) = Len(s) /\ DOMAIN b = 1 .. Len(s)
      /\ \A j \in DOMAIN s : b[j].kind = k /\ b[j].id = s[j]
  <2>1. b \in [1 .. Len(s) -> Messages]
    BY <1>1 DEF Batch, Message, Messages
  <2>2. b \in Seq(Messages) /\ Len(b) = Len(s)
    BY <1>1, <2>1
  <2>3. QED
    BY <1>1, <2>1, <2>2 DEF Batch, Message
<1> HIDE DEF b
<1>3. /\ t \in Seq(Messages) /\ Len(t) = Len(c) + Len(s)
      /\ DOMAIN t = 1 .. Len(c) + Len(s) /\ DOMAIN c = 1 .. Len(c) /\ Len(c) \in Nat
      /\ \A j \in 1 .. Len(c) : t[j] = c[j]
      /\ \A j \in 1 .. Len(s) : t[Len(c) + j] = b[j]
      /\ \A j \in Len(c) + 1 .. Len(c) + Len(s) : t[j] = b[j - Len(c)]
  <2>1. DOMAIN c = 1 .. Len(c) /\ Len(c) \in Nat
    BY Elements
  <2>2. b \in Seq(Messages)
    BY <1>2
  <2>3. /\ t \in Seq(Messages) /\ Len(t) = Len(c) + Len(b) /\ DOMAIN t = 1 .. Len(c) + Len(b)
        /\ \A j \in 1 .. Len(c) : t[j] = c[j]
        /\ \A j \in 1 .. Len(b) : t[Len(c) + j] = b[j]
        /\ \A j \in Len(c) + 1 .. Len(c) + Len(b) : t[j] = b[j - Len(c)]
    BY <2>2, Joined
  <2>4. QED
    BY <1>2, <2>1, <2>3
<1> HIDE DEF t
<1>4. \A j \in DOMAIN t : \/ j \in DOMAIN c /\ t[j] = c[j]
                          \/ /\ j \notin DOMAIN c /\ j - Len(c) \in DOMAIN s
                             /\ t[j].kind = k /\ t[j].id = s[j - Len(c)]
  BY <1>1, <1>2, <1>3
<1>5. \A j \in DOMAIN s : Len(c) + j \in DOMAIN t /\ t[Len(c) + j].kind = k /\ t[Len(c) + j].id = s[j]
  BY <1>1, <1>2, <1>3
<1>6. \A j \in DOMAIN c : j \in DOMAIN t /\ t[j] = c[j]
  BY <1>1, <1>3
<1>7. ASSUME NEW q \in Kinds PROVE Kin(t, q) = Kin(c, q) \cup (IF q = k THEN Ids(s) ELSE {})
  <2>1. ASSUME NEW i \in Kin(t, q) PROVE i \in Kin(c, q) \/ (q = k /\ i \in Ids(s))
    BY <1>4, <2>1 DEF Kin, Ids
  <2>2. ASSUME NEW i, i \in Kin(c, q) \/ (q = k /\ i \in Ids(s)) PROVE i \in Kin(t, q)
    BY <1>5, <1>6, <2>2 DEF Kin, Ids
  <2>3. QED
    BY <2>1, <2>2
<1>8. ASSUME Once(c), Distinct(s), Ids(s) \cap Kin(c, k) = {} PROVE Once(t)
  <2> SUFFICES ASSUME NEW m \in DOMAIN t, NEW n \in DOMAIN t,
                      m # n, t[m].kind = t[n].kind, t[m].kind # "request"
               PROVE  t[m].id # t[n].id
    BY DEF Once
  <2>1. CASE m \in DOMAIN c /\ n \in DOMAIN c
    BY <1>6, <1>8, <2>1 DEF Once
  <2>2. CASE m \notin DOMAIN c /\ n \notin DOMAIN c
    <3>1. m - Len(c) # n - Len(c)
      BY <1>3
    <3>2. QED
      BY <1>4, <1>8, <2>2, <3>1 DEF Distinct
  <2>3. CASE m \in DOMAIN c /\ n \notin DOMAIN c
    BY <1>4, <1>8, <2>3 DEF Kin, Ids
  <2>4. CASE m \notin DOMAIN c /\ n \in DOMAIN c
    BY <1>4, <1>8, <2>4 DEF Kin, Ids
  <2>5. QED
    BY <2>1, <2>2, <2>3, <2>4
<1>9. \A j \in DOMAIN t : \/ j \in DOMAIN c /\ t[j] = c[j]
                          \/ j \notin DOMAIN c /\ t[j].kind = k
  BY <1>4
<1>10. QED
  BY <1>3, <1>6, <1>7, <1>8, <1>9 DEF t, b

-----------------------------------------------------------------------------
(* brcmf_msgbuf_alloc_pktid and the posts: as many free ids as the ring    *)
(* has room for and are wanted, each once.                                 *)
LEMMA IdsFinite == IsFiniteSet(PktIds) /\ NPktIds \in Nat /\ NPktIds > 0 /\ 0 \in PktIds
<1>1. NPktIds \in Nat /\ NPktIds > 0
  BY IdAssumption
<1>2. QED
  BY <1>1, FS_Interval DEF PktIds

LEMMA Granted ==
  ASSUME TypeOK, NEW wish \in Nat, NEW room \in Nat, NEW all \in BOOLEAN, NEW s \in Grants(wish, room, all)
  PROVE  /\ s \in Seq(PktIds) /\ Len(s) \in Nat /\ Len(s) <= wish /\ Len(s) <= room
         /\ Ids(s) \subseteq Free /\ Distinct(s)
         /\ IsFiniteSet(Ids(s)) /\ Cardinality(Ids(s)) = Len(s)
<1>1. IsFiniteSet(Free) /\ Cardinality(Free) \in Nat /\ Free \subseteq PktIds
  <2>1. Free \subseteq PktIds
    BY DEF Free
  <2>2. QED
    BY <2>1, IdsFinite, FS_Subset, FS_CardinalityType
<1>2. PICK n \in Nat : n <= wish /\ n <= room /\ s \in Found(n)
  <2> DEFINE most == Smaller(Smaller(wish, room), Cardinality(Free))
             least == IF AllocFails THEN 0 ELSE IF all THEN most ELSE Smaller(1, most)
  <2>1. most \in Nat /\ most <= wish /\ most <= room
    BY <1>1 DEF Smaller
  <2> HIDE DEF most
  <2>2. least \in Nat
    BY <2>1 DEF Smaller
  <2> HIDE DEF least
  <2>3. PICK n \in least .. most : s \in Found(n)
    BY DEF Grants, most, least
  <2>4. n \in Nat /\ n <= wish /\ n <= room
    BY <2>1, <2>2
  <2>5. QED
    BY <2>3, <2>4
<1>3. s \in [1 .. n -> Free] /\ \A j, m \in 1 .. n : j < m => Ahead(s[j]) < Ahead(s[m])
  BY <1>2 DEF Found
<1>4. s \in Seq(PktIds) /\ Len(s) = n /\ DOMAIN s = 1 .. n
  BY <1>1, <1>3
<1>5. \A i \in PktIds : Ahead(i) \in Int
  BY IdsFinite DEF TypeOK, PktIds, Ahead
<1>6. Distinct(s)
  <2> SUFFICES ASSUME NEW j \in 1 .. n, NEW m \in 1 .. n, j # m PROVE s[j] # s[m]
    BY <1>4 DEF Distinct
  <2>1. Ahead(s[j]) \in Int /\ Ahead(s[m]) \in Int
    BY <1>1, <1>3, <1>5
  <2>2. Ahead(s[j]) # Ahead(s[m])
    BY <1>3, <2>1
  <2>3. QED
    BY <2>2
<1>8. IsFiniteSet(Ids(s)) /\ Cardinality(Ids(s)) = n
  <2>1. s \in Bijection(1 .. n, Ids(s))
    BY <1>4, <1>6 DEF Bijection, Injection, Surjection, IsInjective, Ids, Distinct
  <2>2. ExistsBijection(1 .. n, Ids(s))
    BY <2>1 DEF ExistsBijection
  <2>3. IsFiniteSet(1 .. n) /\ Cardinality(1 .. n) = n
    BY FS_Interval
  <2>4. QED
    BY <2>2, <2>3, FS_Bijection
<1>9. Ids(s) \subseteq Free
  BY <1>3, <1>4 DEF Ids
<1>10. QED
  BY <1>2, <1>4, <1>6, <1>8, <1>9

LEMMA AllocatedTypes ==
  ASSUME TypeOK, NEW k \in Kinds, NEW s \in Seq(PktIds)
  PROVE  Allocated(s, k) \in [PktIds -> Kinds \cup {"free"}] /\ LastOf(s) \in PktIds
<1>1. s # << >> => s[Len(s)] \in PktIds
  OBVIOUS
<1>2. QED
  BY <1>1 DEF TypeOK, Allocated, LastOf

LEMMA CtrlPosts ==
  ASSUME TypeOK, NEW k \in Kinds, NEW n \in Nat, n <= MaxPost[k], CtrlPost(k, n)
  PROVE  \E s \in Seq(PktIds) :
           /\ Len(s) \in Nat /\ n + Len(s) <= MaxPost[k] /\ Len(ctl) + Len(s) <= CtlSlots
           /\ Ids(s) \subseteq Free /\ Distinct(s)
           /\ IsFiniteSet(Ids(s)) /\ Cardinality(Ids(s)) = Len(s)
           /\ rx_pktids' = Allocated(s, k) /\ last_allocated_idx' = LastOf(s)
           /\ cur' = [cur EXCEPT ![k] = n + Len(s)]
           /\ ctl' = ctl \o Batch(k, s) /\ ctl' \in Seq(Messages) /\ Len(ctl') = Len(ctl) + Len(s)
           /\ ctlpub' \in 0 .. Len(ctl')
<1> DEFINE wish == Wanted(k, n)
           room == CtlSlots - Len(ctl)
<1>1. wish \in Nat /\ room \in Nat /\ Len(ctl) \in Nat /\ CtlSlots \in Nat /\ MaxPost[k] \in Nat
      /\ wish = MaxPost[k] - n
  <2>1. MaxPost[k] \in Nat /\ CtlSlots \in Nat
    BY PostAssumption, BoundAssumption
  <2>2. Len(ctl) \in Nat /\ Len(ctl) <= CtlSlots
    BY DEF TypeOK
  <2>3. QED
    BY <2>1, <2>2 DEF Wanted
<1>2. PICK s \in Grants(wish, room, FALSE) :
        /\ rx_pktids' = Allocated(s, k) /\ last_allocated_idx' = LastOf(s)
        /\ cur' = [cur EXCEPT ![k] = n + Len(s)]
        /\ ctl' = ctl \o Batch(k, s)
        /\ ctlpub' = IF s = << >> THEN ctlpub ELSE Published(ctl')
  BY DEF CtrlPost, Batch
<1> HIDE DEF wish, room
<1>3. /\ s \in Seq(PktIds) /\ Len(s) \in Nat /\ Len(s) <= wish /\ Len(s) <= room
      /\ Ids(s) \subseteq Free /\ Distinct(s)
      /\ IsFiniteSet(Ids(s)) /\ Cardinality(Ids(s)) = Len(s)
  BY <1>1, Granted
<1>4. n + Len(s) <= MaxPost[k] /\ Len(ctl) + Len(s) <= CtlSlots
  BY <1>1, <1>3 DEF room
<1>5. ctl' \in Seq(Messages) /\ Len(ctl') = Len(ctl) + Len(s)
  BY <1>2, <1>3, KinPosted DEF TypeOK
<1>6. ctlpub' \in 0 .. Len(ctl')
  <2>1. ctlpub \in 0 .. Len(ctl)
    BY DEF TypeOK
  <2>2. QED
    BY <1>1, <1>2, <1>3, <1>5, <2>1 DEF Published
<1>7. QED
  BY <1>2, <1>3, <1>4, <1>5, <1>6

-----------------------------------------------------------------------------
(* Types, and what holds whatever becomes of the commands.                 *)
Basic == TypeOK /\ DataCounted /\ Controls

LEMMA CallerBasic == Basic /\ (CallerStep \/ RespTimeout) => Basic'
<1> SUFFICES ASSUME Basic, CallerStep \/ RespTimeout PROVE Basic'
  OBVIOUS
<1> USE DEF pool, ring, caller, resp, device, cpl
<1> TypeOK /\ DataCounted /\ Controls
  BY DEF Basic
<1>1. CASE QueryDcmd \/ TxIoctlNoRoom \/ RespWait \/ NoAnswer \/ ReadStatus \/ RespTimeout
  <2> DEFINE Keeps ==
        /\ UNCHANGED << pool, ring, up, reqid, ioctbuf, ipc, device, cpl, ioctl_resp_status, ioctl_resp_pktid >>
        /\ got' \in Nat \X Nat /\ qpc' \in {"idle", "tx", "wait", "take", "status"}
        /\ err' \in {"0", "ENOMEM", "EIO", "EBADF"} /\ gaveUp' \in BOOLEAN /\ ctl_completed' \in BOOLEAN
        /\ qpc' = "tx" => reqid < MaxQueries
  <2>1. Keeps
    <3>1. ASSUME QueryDcmd PROVE Keeps
      <4>1. << 0, 0 >> \in Nat \X Nat
        OBVIOUS
      <4>2. QED
        BY <3>1, <4>1 DEF QueryDcmd, TypeOK
    <3>2. TxIoctlNoRoom => Keeps
      BY DEF TxIoctlNoRoom, TypeOK
    <3>3. RespWait \/ NoAnswer => Keeps
      BY DEF RespWait, NoAnswer, TypeOK
    <3>4. ReadStatus => Keeps
      BY DEF ReadStatus, TypeOK
    <3>5. RespTimeout => Keeps
      BY DEF RespTimeout, TypeOK
    <3>6. QED
      BY <1>1, <3>1, <3>2, <3>3, <3>4, <3>5
  <2>2. TypeOK'
    BY <2>1 DEF TypeOK
  <2>3. QED
    BY <2>1, <2>2 DEF Basic, DataCounted, Controls
<1>2. CASE TxIoctl
  <2> DEFINE m == Message("request", 0, reqid + 1)
  <2>1. reqid \in Nat /\ reqid + 1 \in Nat /\ ctl \in Seq(Messages) /\ m \in Messages /\ m.kind = "request"
    BY IdsFinite, BoundAssumption DEF TypeOK, Message, Messages
  <2>2. ctl' = Append(ctl, m) /\ ctlpub' = IF up THEN Len(ctl') ELSE ctlpub
    BY <1>2 DEF TxIoctl, Published
  <2> HIDE DEF m
  <2>3. /\ ctl' \in Seq(Messages) /\ Len(ctl') = Len(ctl) + 1 /\ Len(ctl) \in Nat
        /\ \A j \in DOMAIN ctl' : (j \in DOMAIN ctl /\ ctl'[j] = ctl[j]) \/ ctl'[j] = m
    BY <2>1, <2>2, Appended, Elements
  <2>4. ctlpub \in 0 .. Len(ctl) /\ Len(ctl) < CtlSlots /\ CtlSlots \in Nat
    BY <1>2, BoundAssumption DEF TypeOK, TxIoctl
  <2>5. ctlpub' \in 0 .. Len(ctl') /\ Len(ctl') <= CtlSlots
    BY <2>2, <2>3, <2>4
  <2>6. /\ reqid' = reqid + 1 /\ ioctbuf' = reqid'
        /\ UNCHANGED << pool, rxunpub, up, got, resp, ipc, device, cpl >>
        /\ qpc' \in {"idle", "wait"} /\ err' \in {"0", "ENOMEM", "EIO", "EBADF"} /\ gaveUp' \in BOOLEAN
    BY <1>2 DEF TxIoctl, TypeOK
  <2>7. reqid' \in 0 .. MaxQueries
    <3>1. reqid < MaxQueries
      BY <1>2 DEF TxIoctl, Controls
    <3>2. QED
      BY <2>6, <3>1, BoundAssumption DEF TypeOK
  <2>8. TypeOK'
    BY <2>3, <2>5, <2>6, <2>7 DEF TypeOK
  <2>9. DataCounted' /\ Controls'
    BY <2>1, <2>3, <2>6 DEF DataCounted, Controls
  <2>10. QED
    BY <2>8, <2>9 DEF Basic
<1>3. CASE TakeAnswer
  <2>1. /\ rx_pktids' \in [PktIds -> Kinds \cup {"free"}] /\ filled' \in [PktIds -> Nat] /\ got' \in Nat \X Nat
        /\ qpc' = "status"
        /\ UNCHANGED << last_allocated_idx, cur, ring, up, reqid, err, gaveUp, ioctbuf, resp, ipc, devbuf, devreq, cpl >>
    BY <1>3 DEF TakeAnswer, TypeOK, Released
  <2>2. TypeOK'
    BY <2>1 DEF TypeOK
  <2>3. QED
    BY <2>1, <2>2 DEF Basic, DataCounted, Controls
<1>4. QED
  BY <1>1, <1>2, <1>3 DEF CallerStep

LEMMA BuffersFinite ==
  ASSUME TypeOK
  PROVE  /\ IsFiniteSet(rxunpub) /\ Cardinality(rxunpub) \in Nat
         /\ \A k \in Kinds : IsFiniteSet(devbuf[k]) /\ Cardinality(devbuf[k]) \in Nat
         /\ Len(rxcpl) \in Nat /\ cur["data"] \in Nat
<1>1. rxunpub \subseteq PktIds /\ \A k \in Kinds : devbuf[k] \subseteq PktIds
  BY DEF TypeOK
<1>2. Len(rxcpl) \in Nat /\ cur["data"] \in Nat
  BY DEF TypeOK, Kinds
<1>3. QED
  BY <1>1, <1>2, IdsFinite, FS_Subset, FS_CardinalityType

(* A data buffer that comes back is counted off, and others are posted.    *)
LEMMA RxPosts ==
  ASSUME TypeOK, DataCounted, ProcessRxComplete
  PROVE  /\ cur["data"] - 1 \in Nat
         /\ \E s \in Seq(PktIds) :
              /\ Len(s) \in Nat /\ cur["data"] - 1 + Len(s) <= MaxPost["data"]
              /\ Ids(s) \subseteq Free /\ Distinct(s)
              /\ IsFiniteSet(Ids(s)) /\ Cardinality(Ids(s)) = Len(s)
              /\ rx_pktids' = [Allocated(s, "data") EXCEPT ![Head(rxcpl)] = "free"]
              /\ last_allocated_idx' = LastOf(s)
              /\ cur' = [cur EXCEPT !["data"] = cur["data"] - 1 + Len(s)]
              /\ \/ /\ devbuf' = [devbuf EXCEPT !["data"] = @ \cup rxunpub \cup Ids(s)] /\ rxunpub' = {}
                 \/ /\ rxunpub' = rxunpub \cup Ids(s) /\ UNCHANGED devbuf
<1> DEFINE n == cur["data"] - 1
           refill == IF n <= MaxPost["data"] - Threshold THEN Wanted("data", n) ELSE 0
<1>1. n \in Nat /\ n <= MaxPost["data"] /\ MaxPost["data"] \in Nat
  <2>1. rxcpl \in Seq(PktIds) /\ rxcpl # << >>
    BY DEF TypeOK, ProcessRxComplete
  <2>2. Len(rxcpl) > 0
    BY <2>1, Taken
  <2>3. cur["data"] \in Nat /\ cur["data"] <= MaxPost["data"] /\ MaxPost["data"] \in Nat
    BY PostAssumption DEF TypeOK, Kinds
  <2>4. Cardinality(devbuf["data"]) \in Nat /\ Cardinality(rxunpub) \in Nat /\ Len(rxcpl) \in Nat
    BY BuffersFinite DEF Kinds
  <2>5. QED
    BY <2>2, <2>3, <2>4 DEF DataCounted
<1>2. PICK s \in Grants(refill, refill, TRUE) :
        /\ cur' = [cur EXCEPT !["data"] = n + Len(s)]
        /\ rx_pktids' = [Allocated(s, "data") EXCEPT ![Head(rxcpl)] = "free"]
        /\ last_allocated_idx' = LastOf(s)
        /\ IF up /\ s # << >>
           THEN devbuf' = [devbuf EXCEPT !["data"] = @ \cup rxunpub \cup Ids(s)] /\ rxunpub' = {}
           ELSE rxunpub' = rxunpub \cup Ids(s) /\ UNCHANGED devbuf
  BY DEF ProcessRxComplete
<1> HIDE DEF n
<1>3. refill \in Nat /\ n + refill <= MaxPost["data"]
  BY <1>1 DEF Wanted
<1> HIDE DEF refill
<1>4. /\ s \in Seq(PktIds) /\ Len(s) \in Nat /\ Len(s) <= refill
      /\ Ids(s) \subseteq Free /\ Distinct(s)
      /\ IsFiniteSet(Ids(s)) /\ Cardinality(Ids(s)) = Len(s)
  BY <1>3, Granted
<1>5. n + Len(s) <= MaxPost["data"]
  BY <1>1, <1>3, <1>4
<1>6. QED
  BY <1>1, <1>2, <1>4, <1>5 DEF n

LEMMA RxBasic == Basic /\ ProcessRxComplete => Basic'
<1> SUFFICES ASSUME Basic, ProcessRxComplete PROVE Basic'
  OBVIOUS
<1> TypeOK /\ DataCounted /\ Controls
  BY DEF Basic
<1>1. PICK s \in Seq(PktIds) :
        /\ Len(s) \in Nat /\ cur["data"] - 1 + Len(s) <= MaxPost["data"]
        /\ Ids(s) \subseteq Free /\ IsFiniteSet(Ids(s)) /\ Cardinality(Ids(s)) = Len(s)
        /\ rx_pktids' = [Allocated(s, "data") EXCEPT ![Head(rxcpl)] = "free"]
        /\ last_allocated_idx' = LastOf(s)
        /\ cur' = [cur EXCEPT !["data"] = cur["data"] - 1 + Len(s)]
        /\ \/ /\ devbuf' = [devbuf EXCEPT !["data"] = @ \cup rxunpub \cup Ids(s)] /\ rxunpub' = {}
           \/ /\ rxunpub' = rxunpub \cup Ids(s) /\ UNCHANGED devbuf
  BY RxPosts
<1>2. cur["data"] - 1 \in Nat /\ cur["data"] \in Nat
  BY RxPosts, BuffersFinite
<1>3. /\ rxcpl' = Tail(rxcpl) /\ rxcpl \in Seq(PktIds) /\ rxcpl # << >>
      /\ UNCHANGED << ctl, ctlpub, up, caller, resp, ipc, devreq, filled, ctlcpl >>
  BY DEF ProcessRxComplete, TypeOK
<1>4. rxcpl' \in Seq(PktIds) /\ Len(rxcpl') = Len(rxcpl) - 1 /\ Len(rxcpl) \in Nat /\ Len(rxcpl) > 0
  BY <1>3, Taken
<1>5. rx_pktids' \in [PktIds -> Kinds \cup {"free"}] /\ last_allocated_idx' \in PktIds
  <2>1. Allocated(s, "data") \in [PktIds -> Kinds \cup {"free"}] /\ LastOf(s) \in PktIds
    BY AllocatedTypes DEF Kinds
  <2>2. QED
    BY <1>1, <2>1
<1>6. cur' \in [Kinds -> Nat] /\ \A k \in Kinds : cur'[k] <= MaxPost[k]
  <2>1. cur["data"] - 1 + Len(s) \in Nat
    BY <1>1, <1>2
  <2>2. QED
    BY <1>1, <2>1 DEF TypeOK
<1>7. Ids(s) \subseteq PktIds /\ devbuf \in [Kinds -> SUBSET PktIds] /\ rxunpub \subseteq PktIds
  BY <1>1 DEF Free, TypeOK
<1>8. devbuf' \in [Kinds -> SUBSET PktIds] /\ rxunpub' \subseteq PktIds
  BY <1>1, <1>7
<1>9. TypeOK'
  BY <1>3, <1>4, <1>5, <1>6, <1>8 DEF TypeOK, caller, resp
<1>10. DataCounted'
  <2> DEFINE D == devbuf["data"]
  <2>1. /\ IsFiniteSet(D) /\ Cardinality(D) \in Nat /\ IsFiniteSet(rxunpub) /\ Cardinality(rxunpub) \in Nat
    BY BuffersFinite DEF Kinds
  <2>2. ASSUME NEW A, NEW B, IsFiniteSet(A), IsFiniteSet(B)
        PROVE  /\ IsFiniteSet(A \cup B) /\ Cardinality(A \cup B) \in Nat
               /\ Cardinality(A \cup B) <= Cardinality(A) + Cardinality(B)
    <3>1. /\ IsFiniteSet(A \cup B) /\ IsFiniteSet(A \cap B)
          /\ Cardinality(A \cup B) = Cardinality(A) + Cardinality(B) - Cardinality(A \cap B)
      BY <2>2, FS_Union, FS_Intersection
    <3>2. Cardinality(A \cap B) \in Nat /\ Cardinality(A) \in Nat /\ Cardinality(B) \in Nat
          /\ Cardinality(A \cup B) \in Nat
      BY <2>2, <3>1, FS_CardinalityType
    <3>3. QED
      BY <3>1, <3>2
  <2>3. cur'["data"] = cur["data"] - 1 + Len(s)
    BY <1>1 DEF TypeOK, Kinds
  <2>7. /\ cur'["data"] \in Nat /\ Len(rxcpl') \in Nat
        /\ cur'["data"] >= Cardinality(D) + Cardinality(rxunpub) + Len(s) + Len(rxcpl')
    <3>1. cur["data"] >= Cardinality(D) + Cardinality(rxunpub) + Len(rxcpl)
      BY DEF DataCounted
    <3>2. Len(s) \in Nat
      BY <1>1
    <3>3. Len(rxcpl') = Len(rxcpl) - 1 /\ Len(rxcpl) \in Nat /\ Len(rxcpl) > 0
      BY <1>4
    <3>4. Cardinality(D) \in Nat /\ Cardinality(rxunpub) \in Nat
      BY <2>1
    <3> HIDE DEF D
    <3>5. ASSUME NEW c \in Nat, NEW c1, NEW d \in Nat, NEW u \in Nat, NEW l \in Nat,
                 NEW r \in Nat, NEW r1, c1 = c - 1 + l, r1 = r - 1, r > 0, c >= d + u + r
          PROVE  c1 \in Nat /\ r1 \in Nat /\ c1 >= d + u + l + r1
      BY <3>5
    <3>6. cur["data"] \in Nat
      BY <1>2
    <3>7. QED
      BY <2>3, <3>1, <3>2, <3>3, <3>4, <3>5, <3>6
  <2>4. CASE devbuf' = [devbuf EXCEPT !["data"] = @ \cup rxunpub \cup Ids(s)] /\ rxunpub' = {}
    <3>1. devbuf'["data"] = (D \cup rxunpub) \cup Ids(s)
      BY <1>7, <2>4 DEF Kinds
    <3>2. Cardinality(D \cup rxunpub) <= Cardinality(D) + Cardinality(rxunpub)
          /\ IsFiniteSet(D \cup rxunpub) /\ Cardinality(D \cup rxunpub) \in Nat
      BY <2>1, <2>2
    <3>3. Cardinality((D \cup rxunpub) \cup Ids(s)) <= Cardinality(D \cup rxunpub) + Len(s)
          /\ Cardinality((D \cup rxunpub) \cup Ids(s)) \in Nat
      BY <1>1, <2>2, <3>2
    <3>4. Cardinality(rxunpub') = 0
      BY <2>4, FS_EmptySet
    <3> HIDE DEF D
    <3>5. Cardinality(devbuf'["data"]) <= Cardinality(D) + Cardinality(rxunpub) + Len(s)
          /\ Cardinality(devbuf'["data"]) \in Nat
      BY <1>1, <2>1, <3>1, <3>2, <3>3
    <3>6. QED
      BY <1>1, <2>7, <3>4, <3>5, <2>1 DEF DataCounted
  <2>5. CASE rxunpub' = rxunpub \cup Ids(s) /\ UNCHANGED devbuf
    <3>1. Cardinality(rxunpub') <= Cardinality(rxunpub) + Len(s) /\ Cardinality(rxunpub') \in Nat
      BY <1>1, <2>1, <2>2, <2>5
    <3>2. devbuf'["data"] = D
      BY <2>5
    <3>3. Cardinality(devbuf'["data"]) = Cardinality(D)
      BY <3>2
    <3> HIDE DEF D
    <3>4. ASSUME NEW c \in Nat, NEW d \in Nat, NEW u \in Nat, NEW u1 \in Nat, NEW l \in Nat, NEW r1 \in Nat,
                 c >= d + u + l + r1, u1 <= u + l
          PROVE  c >= d + u1 + r1
      BY <3>4
    <3>5. Len(s) \in Nat
      BY <1>1
    <3>6. cur'["data"] >= Cardinality(devbuf'["data"]) + Cardinality(rxunpub') + Len(rxcpl')
      BY <2>1, <2>7, <3>1, <3>3, <3>4, <3>5
    <3>7. QED
      BY <3>6 DEF DataCounted
  <2>6. QED
    BY <1>1, <2>4, <2>5
<1>11. Controls'
  BY <1>3 DEF Controls, caller
<1>12. QED
  BY <1>9, <1>10, <1>11 DEF Basic

(* brcmf_msgbuf_rxbuf_ctrl_post does not depend on the commands either.    *)
LEMMA PostBasic ==
  ASSUME Basic, NEW k \in {"event", "ioctl"}, CtrlPost(k, Uncounted(k)),
         UNCHANGED << rxunpub, up, caller, resp, device, cpl >>,
         ipc' \in {"idle", "event"}, ipc' = "event" => NextCtl("event")
  PROVE  Basic'
<1> USE DEF pool, ring, caller, resp, device, cpl
<1> TypeOK /\ DataCounted /\ Controls
  BY DEF Basic
<1>1. k \in Kinds /\ k # "data" /\ Uncounted(k) \in Nat /\ Uncounted(k) <= MaxPost[k]
  <2>1. k \in Kinds /\ cur[k] \in Nat /\ cur[k] <= MaxPost[k] /\ MaxPost[k] \in Nat
    BY PostAssumption DEF TypeOK, Kinds
  <2>2. QED
    BY <2>1 DEF Uncounted
<1>2. PICK s \in Seq(PktIds) :
           /\ Len(s) \in Nat /\ Uncounted(k) + Len(s) <= MaxPost[k] /\ Len(ctl) + Len(s) <= CtlSlots
           /\ rx_pktids' = Allocated(s, k) /\ last_allocated_idx' = LastOf(s)
           /\ cur' = [cur EXCEPT ![k] = Uncounted(k) + Len(s)]
           /\ ctl' = ctl \o Batch(k, s) /\ ctl' \in Seq(Messages) /\ Len(ctl') = Len(ctl) + Len(s)
           /\ ctlpub' \in 0 .. Len(ctl')
  BY <1>1, CtrlPosts
<1>3. rx_pktids' \in [PktIds -> Kinds \cup {"free"}] /\ last_allocated_idx' \in PktIds
  BY <1>1, <1>2, AllocatedTypes
<1>4. cur' \in [Kinds -> Nat] /\ \A q \in Kinds : cur'[q] <= MaxPost[q]
  <2>1. Uncounted(k) + Len(s) \in Nat
    BY <1>1, <1>2
  <2>2. QED
    BY <1>2, <2>1 DEF TypeOK
<1>5. TypeOK'
  BY <1>2, <1>3, <1>4 DEF TypeOK
<1>6. cur'["data"] = cur["data"]
  BY <1>1, <1>2 DEF TypeOK, Kinds
<1>7. DataCounted'
  BY <1>6 DEF DataCounted
<1>8. \A j \in DOMAIN ctl' : (j \in DOMAIN ctl /\ ctl'[j] = ctl[j]) \/ ctl'[j].kind = k
  <2>1. ctl \in Seq(Messages)
    BY DEF TypeOK
  <2>2. k \in Kinds /\ s \in Seq(PktIds) /\ ctl' = ctl \o Batch(k, s)
    BY <1>1, <1>2
  <2>3. \A j \in DOMAIN (ctl \o Batch(k, s)) :
           (j \in DOMAIN ctl /\ (ctl \o Batch(k, s))[j] = ctl[j]) \/ (ctl \o Batch(k, s))[j].kind = k
    BY <2>1, <2>2, KinPosted, SMTT(30)
  <2>4. QED
    BY <2>2, <2>3
<1>9. Controls'
  BY <1>1, <1>8 DEF Controls, NextCtl
<1>10. QED
  BY <1>5, <1>7, <1>9 DEF Basic

LEMMA ControlBasic == Basic /\ ControlStep => Basic'
<1> SUFFICES ASSUME Basic, ControlStep PROVE Basic'
  OBVIOUS
<1> USE DEF pool, ring, caller, resp, device, cpl
<1> TypeOK /\ DataCounted /\ Controls
  BY DEF Basic
<1>1. CASE ProcessEvent
  BY <1>1, PostBasic DEF ProcessEvent
<1>2. CASE IoctlrespPost
  BY <1>2, PostBasic DEF IoctlrespPost
<1>3. ASSUME ctlcpl # << >> PROVE /\ Head(ctlcpl) \in Messages /\ Tail(ctlcpl) \in Seq(Messages)
                                  /\ Head(ctlcpl).id \in PktIds /\ Head(ctlcpl).trans \in Nat
                                  /\ \A j \in DOMAIN Tail(ctlcpl) : \E n \in DOMAIN ctlcpl : Tail(ctlcpl)[j] = ctlcpl[n]
  <2>1. ctlcpl \in Seq(Messages)
    BY DEF TypeOK
  <2>2. /\ Head(ctlcpl) \in Messages /\ Tail(ctlcpl) \in Seq(Messages)
        /\ DOMAIN Tail(ctlcpl) = 1 .. Len(ctlcpl) - 1 /\ Len(ctlcpl) \in Nat /\ Len(ctlcpl) > 0
        /\ \A j \in 1 .. Len(ctlcpl) - 1 : Tail(ctlcpl)[j] = ctlcpl[j + 1]
    BY <1>3, <2>1, Taken
  <2>3. DOMAIN ctlcpl = 1 .. Len(ctlcpl)
    BY <2>1, Elements
  <2>4. \A j \in DOMAIN Tail(ctlcpl) : j + 1 \in DOMAIN ctlcpl /\ Tail(ctlcpl)[j] = ctlcpl[j + 1]
    BY <2>2, <2>3
  <2>5. QED
    BY <2>2, <2>4 DEF Messages
<1>4. CASE TakeEvent
  <2>1. ctlcpl # << >> /\ ctlcpl' = Tail(ctlcpl) /\ ipc' = "idle"
    BY <1>4 DEF TakeEvent, Controls
  <2>2. TypeOK'
    BY <1>3, <1>4, <2>1 DEF TakeEvent, Released, TypeOK
  <2>3. DataCounted' /\ Controls'
    BY <1>3, <1>4, <2>1 DEF TakeEvent, DataCounted, Controls
  <2>4. QED
    BY <2>2, <2>3 DEF Basic
<1>5. CASE NoteAnswer
  <2>1. ctlcpl # << >> /\ ctlcpl' = Tail(ctlcpl) /\ ipc' = "wake"
    BY <1>5 DEF NoteAnswer, NextCtl
  <2>2. TypeOK'
    BY <1>3, <1>5, <2>1 DEF NoteAnswer, TypeOK
  <2>3. DataCounted' /\ Controls'
    BY <1>3, <1>5, <2>1 DEF NoteAnswer, DataCounted, Controls
  <2>4. QED
    BY <2>2, <2>3 DEF Basic
<1>6. CASE RespWake
  <2>1. TypeOK'
    BY <1>6 DEF RespWake, TypeOK
  <2>2. QED
    BY <1>6, <2>1 DEF RespWake, Basic, DataCounted, Controls
<1>7. QED
  BY <1>1, <1>2, <1>4, <1>5, <1>6 DEF ControlStep

LEMMA DeviceBasic == Basic /\ (DevControl \/ DevDeliver \/ DevAnswer \/ BusDownUp) => Basic'
<1> SUFFICES ASSUME Basic, DevControl \/ DevDeliver \/ DevAnswer \/ BusDownUp PROVE Basic'
  OBVIOUS
<1> USE DEF pool, ring, caller, resp, device, cpl
<1> TypeOK /\ DataCounted /\ Controls
  BY DEF Basic
<1>1. CASE DevControl
  <2> DEFINE m == Head(ctl)
  <2>1. /\ ctlpub \in 0 .. Len(ctl) /\ ctlpub > 0 /\ ctl \in Seq(Messages) /\ ctl # << >>
        /\ ctl' = Tail(ctl) /\ ctlpub' = ctlpub - 1
    BY <1>1 DEF DevControl, TypeOK
  <2>2. /\ m \in Messages /\ m = ctl[1] /\ 1 \in DOMAIN ctl /\ Tail(ctl) \in Seq(Messages)
        /\ Len(ctl) \in Nat /\ Len(Tail(ctl)) = Len(ctl) - 1
        /\ \A j \in DOMAIN Tail(ctl) : j + 1 \in DOMAIN ctl /\ Tail(ctl)[j] = ctl[j + 1]
    BY <2>1, Taken, Elements
  <2>3. m.kind \in {"event", "ioctl", "request"} /\ m.id \in PktIds /\ m.trans \in Nat
    BY <2>2 DEF Messages, Kinds, Controls
  <2>4. /\ IF m.kind = "request"
             THEN devreq' = Append(devreq, << m.trans, ioctbuf >>) /\ UNCHANGED devbuf
             ELSE devbuf' = [devbuf EXCEPT ![m.kind] = @ \cup {m.id}] /\ UNCHANGED devreq
        /\ UNCHANGED << pool, rxunpub, up, caller, resp, ipc, filled, cpl >>
    BY <1>1 DEF DevControl
  <2> HIDE DEF m
  <2>5. devreq' \in Seq(Nat \X Nat)
    <3>1. devreq \in Seq(Nat \X Nat) /\ ioctbuf \in Nat
      BY BoundAssumption DEF TypeOK
    <3>2. << m.trans, ioctbuf >> \in Nat \X Nat
      BY <2>3, <3>1
    <3>3. Append(devreq, << m.trans, ioctbuf >>) \in Seq(Nat \X Nat)
      BY <3>1, <3>2, Appended
    <3>4. QED
      BY <2>4, <3>1, <3>3
  <2>6. devbuf' \in [Kinds -> SUBSET PktIds] /\ devbuf'["data"] = devbuf["data"]
    <3>1. devbuf \in [Kinds -> SUBSET PktIds]
      BY DEF TypeOK
    <3>2. CASE m.kind = "request"
      BY <2>4, <3>1, <3>2
    <3>3. CASE m.kind \in {"event", "ioctl"}
      BY <2>3, <2>4, <3>1, <3>3 DEF Kinds
    <3>4. QED
      BY <2>3, <3>2, <3>3
  <2>7. TypeOK'
    <3>1. Len(ctl') <= CtlSlots /\ ctlpub' \in 0 .. Len(ctl')
      <4>1. Len(ctl) <= CtlSlots /\ CtlSlots \in Nat
        BY BoundAssumption DEF TypeOK
      <4>2. QED
        BY <2>1, <2>2, <4>1
    <3>2. QED
      BY <2>1, <2>2, <2>4, <2>5, <2>6, <3>1 DEF TypeOK
  <2>8. DataCounted' /\ Controls'
    BY <2>1, <2>2, <2>4, <2>6 DEF DataCounted, Controls
  <2>9. QED
    BY <2>7, <2>8 DEF Basic
<1>2. CASE DevDeliver
  <2>a. PICK k \in {"data", "event"} : \E id \in devbuf[k] :
          /\ devbuf' = [devbuf EXCEPT ![k] = @ \ {id}]
          /\ IF k = "data" THEN rxcpl' = Append(rxcpl, id) /\ UNCHANGED ctlcpl
                           ELSE ctlcpl' = Append(ctlcpl, Message(k, id, 0)) /\ UNCHANGED rxcpl
    BY <1>2 DEF DevDeliver
  <2>1. PICK id \in devbuf[k] :
          /\ devbuf' = [devbuf EXCEPT ![k] = @ \ {id}]
          /\ IF k = "data" THEN rxcpl' = Append(rxcpl, id) /\ UNCHANGED ctlcpl
                           ELSE ctlcpl' = Append(ctlcpl, Message(k, id, 0)) /\ UNCHANGED rxcpl
    BY <2>a
  <2>2. UNCHANGED << pool, ring, up, caller, resp, ipc, devreq, filled >>
    BY <1>2 DEF DevDeliver
  <2>3. devbuf \in [Kinds -> SUBSET PktIds] /\ rxcpl \in Seq(PktIds) /\ ctlcpl \in Seq(Messages) /\ k \in Kinds
    BY DEF TypeOK, Kinds
  <2>4. id \in PktIds /\ Message(k, id, 0) \in Messages /\ Message(k, id, 0).kind = k
    BY <2>3 DEF Message, Messages
  <2>5. /\ rxcpl' \in Seq(PktIds) /\ ctlcpl' \in Seq(Messages) /\ devbuf' \in [Kinds -> SUBSET PktIds]
    <3>1. Append(rxcpl, id) \in Seq(PktIds) /\ Append(ctlcpl, Message(k, id, 0)) \in Seq(Messages)
      BY <2>3, <2>4, Appended
    <3>2. devbuf[k] \ {id} \subseteq PktIds
      BY <2>3
    <3>3. QED
      BY <2>1, <2>3, <3>1, <3>2
  <2>6. TypeOK'
    BY <2>2, <2>5 DEF TypeOK
  <2>7. Controls'
    <3>1. CASE ctlcpl' = ctlcpl
      BY <2>2, <3>1 DEF Controls
    <3>2. CASE k = "event" /\ ctlcpl' = Append(ctlcpl, Message(k, id, 0))
      <4>1. \A j \in DOMAIN ctlcpl' : (j \in DOMAIN ctlcpl /\ ctlcpl'[j] = ctlcpl[j]) \/ ctlcpl'[j].kind = "event"
        BY <2>3, <2>4, <3>2, Appended, Elements
      <4>2. ctlcpl # << >> => ctlcpl' # << >> /\ Head(ctlcpl') = Head(ctlcpl)
        BY <2>3, <2>4, <3>2
      <4>3. QED
        BY <2>2, <4>1, <4>2 DEF Controls
    <3>3. QED
      BY <2>1, <3>1, <3>2
  <2>8. DataCounted'
    <3> DEFINE D == devbuf["data"]
    <3>1. /\ IsFiniteSet(D) /\ Cardinality(D) \in Nat /\ Cardinality(rxunpub) \in Nat /\ Len(rxcpl) \in Nat
          /\ cur["data"] \in Nat /\ cur["data"] >= Cardinality(D) + Cardinality(rxunpub) + Len(rxcpl)
      BY BuffersFinite DEF Kinds, DataCounted
    <3>2. CASE k = "data"
      <4>1. devbuf'["data"] = D \ {id} /\ id \in D
        BY <2>1, <2>3, <3>2
      <4>2. Cardinality(devbuf'["data"]) = Cardinality(D) - 1
        BY <3>1, <4>1, FS_RemoveElement
      <4>3. Len(rxcpl') = Len(rxcpl) + 1
        BY <2>1, <2>3, <2>4, <3>2, Appended
      <4> HIDE DEF D
      <4>4. QED
        BY <2>2, <3>1, <4>2, <4>3 DEF DataCounted
    <3>3. CASE k # "data"
      BY <2>1, <2>2, <2>3, <3>3 DEF DataCounted
    <3>4. QED
      BY <3>2, <3>3
  <2>9. QED
    BY <2>6, <2>7, <2>8 DEF Basic
<1>3. CASE DevAnswer
  <2>1. PICK id \in devbuf["ioctl"] :
          /\ devbuf' = [devbuf EXCEPT !["ioctl"] = @ \ {id}]
          /\ filled' = [filled EXCEPT ![id] = Head(devreq)[1]]
          /\ ctlcpl' = Append(ctlcpl, Message("ioctl", id, Head(devreq)[1]))
    BY <1>3 DEF DevAnswer
  <2>2. devreq' = Tail(devreq) /\ devreq # << >> /\ UNCHANGED << pool, ring, up, caller, resp, ipc, rxcpl >>
    BY <1>3 DEF DevAnswer
  <2>3. /\ devbuf \in [Kinds -> SUBSET PktIds] /\ ctlcpl \in Seq(Messages) /\ devreq \in Seq(Nat \X Nat)
        /\ filled \in [PktIds -> Nat]
    BY DEF TypeOK
  <2>4. Head(devreq)[1] \in Nat /\ devreq' \in Seq(Nat \X Nat)
    BY <2>2, <2>3
  <2> DEFINE m == Message("ioctl", id, Head(devreq)[1])
  <2>5. id \in PktIds /\ m \in Messages /\ m.kind = "ioctl"
    BY <2>3, <2>4 DEF Message, Messages, Kinds
  <2> HIDE DEF m
  <2>6. ctlcpl' = Append(ctlcpl, m)
    BY <2>1 DEF m
  <2>7. /\ ctlcpl' \in Seq(Messages)
        /\ \A j \in DOMAIN ctlcpl' : (j \in DOMAIN ctlcpl /\ ctlcpl'[j] = ctlcpl[j]) \/ ctlcpl'[j].kind = "ioctl"
        /\ ctlcpl # << >> => ctlcpl' # << >> /\ Head(ctlcpl') = Head(ctlcpl)
    <3>1. /\ Append(ctlcpl, m) \in Seq(Messages) /\ DOMAIN ctlcpl = 1 .. Len(ctlcpl) /\ Len(ctlcpl) \in Nat
          /\ DOMAIN Append(ctlcpl, m) = 1 .. Len(ctlcpl) + 1
          /\ \A j \in 1 .. Len(ctlcpl) : Append(ctlcpl, m)[j] = ctlcpl[j]
          /\ Append(ctlcpl, m)[Len(ctlcpl) + 1] = m
      BY <2>3, <2>5, Appended, Elements
    <3>2. ctlcpl # << >> => Append(ctlcpl, m) # << >> /\ Head(Append(ctlcpl, m)) = Head(ctlcpl)
      BY <2>3, <2>5, Appended
    <3>3. QED
      BY <2>5, <2>6, <3>1, <3>2
  <2>8. TypeOK'
    <3>1. filled' \in [PktIds -> Nat] /\ devbuf' \in [Kinds -> SUBSET PktIds]
      BY <2>1, <2>3, <2>4
    <3>2. QED
      BY <2>2, <2>4, <2>7, <3>1 DEF TypeOK
  <2>9. DataCounted' /\ Controls'
    <3>1. devbuf'["data"] = devbuf["data"]
      BY <2>1, <2>3 DEF Kinds
    <3>2. QED
      BY <2>2, <2>7, <3>1 DEF DataCounted, Controls
  <2>10. QED
    BY <2>8, <2>9 DEF Basic
<1>4. CASE BusDownUp
  <2>1. TypeOK'
    BY <1>4 DEF BusDownUp, TypeOK
  <2>2. QED
    BY <1>4, <2>1 DEF BusDownUp, Basic, DataCounted, Controls
<1>5. QED
  BY <1>1, <1>2, <1>3, <1>4

LEMMA StepBasic == Basic /\ [Next]_vars => Basic'
<1>1. Basic /\ UNCHANGED vars => Basic'
  BY DEF vars, pool, ring, caller, resp, device, cpl, Basic, TypeOK, DataCounted, Controls
<1>2. QED
  BY <1>1, CallerBasic, RxBasic, ControlBasic, DeviceBasic DEF Next

-----------------------------------------------------------------------------
(* The buffers of a kind, by where they are.                               *)
LEMMA PostedIs ==
  ASSUME TypeOK, NEW k \in Kinds
  PROVE  /\ InCtl(k) = Kin(ctl, k)
         /\ InCpl(k) = IF k = "data" THEN Ids(rxcpl) ELSE Kin(ctlcpl, k)
         /\ Posted(k) \subseteq PktIds /\ IsFiniteSet(Posted(k)) /\ Cardinality(Posted(k)) \in Nat
<1>1. InCtl(k) = Kin(ctl, k) /\ InCpl(k) = IF k = "data" THEN Ids(rxcpl) ELSE Kin(ctlcpl, k)
  BY DEF InCtl, InCpl, Kin, Ids
<1>2. Kin(ctl, k) \subseteq PktIds /\ Kin(ctlcpl, k) \subseteq PktIds
  <2>1. ASSUME NEW s \in Seq(Messages) PROVE Kin(s, k) \subseteq PktIds
    <3>1. \A j \in DOMAIN s : s[j] \in Messages
      BY Elements
    <3>2. QED
      BY <3>1 DEF Kin, Messages
  <2>2. QED
    BY <2>1 DEF TypeOK
<1>3. Ids(rxcpl) \subseteq PktIds
  <2>1. \A j \in DOMAIN rxcpl : rxcpl[j] \in PktIds
    BY Elements DEF TypeOK
  <2>2. QED
    BY <2>1 DEF Ids
<1>4. Posted(k) \subseteq PktIds
  BY <1>1, <1>2, <1>3 DEF Posted, Lent, TypeOK
<1>5. QED
  BY <1>1, <1>4, IdsFinite, FS_Subset, FS_CardinalityType

LEMMA SamePlaces ==
  ASSUME UNCHANGED << ctl, rxunpub, devbuf, rxcpl, ctlcpl >>
  PROVE  /\ \A k \in Kinds : Posted(k)' = Posted(k)
         /\ Places /\ UNCHANGED rx_pktids => Places'
         /\ Counts /\ UNCHANGED << cur, ipc >> => Counts'
<1> USE DEF Posted, Lent, InCtl, InCpl
<1>1. \A k \in Kinds : Posted(k)' = Posted(k)
  OBVIOUS
<1>2. Places /\ UNCHANGED rx_pktids => Places'
  BY DEF Places, Once, Distinct
<1>3. Counts /\ UNCHANGED << cur, ipc >> => Counts'
  BY DEF Counts, CountOff
<1>4. QED
  BY <1>1, <1>2, <1>3

LEMMA CallerOrder ==
  ASSUME TypeOK, InOrder, CallerStep \/ RespTimeout, ~gaveUp'
  PROVE  InOrder'
<1> USE DEF pool, ring, caller, resp, device, cpl
<1> Places /\ Counts /\ Command /\ NoneLost
  BY DEF InOrder
<1>1. CASE QueryDcmd \/ TxIoctlNoRoom \/ RespWait \/ ReadStatus
  <2>1. UNCHANGED << pool, ring, up, reqid, ipc, device, cpl >> /\ UNCHANGED << ioctl_resp_status, ioctl_resp_pktid >>
    BY <1>1 DEF QueryDcmd, TxIoctlNoRoom, RespWait, ReadStatus
  <2>2. Places' /\ Counts' /\ \A k \in Kinds : Posted(k)' = Posted(k)
    BY <2>1, SamePlaces
  <2>3. (NoRequest' <=> NoRequest) /\ (NoReply' <=> NoReply)
    BY <2>1 DEF NoRequest, NoReply, None
  <2>4. Noted' <=> Noted
    BY <2>1, <2>2 DEF Noted, Carries, Kinds
  <2>5. Command' /\ (InHand => InHand')
    <3>1. CASE QueryDcmd
      BY <2>1, <2>3, <3>1 DEF QueryDcmd, Command, Nowhere, InHand
    <3>2. CASE TxIoctlNoRoom
      BY <2>1, <2>3, <3>2 DEF TxIoctlNoRoom, Command, Nowhere, InHand
    <3>3. CASE RespWait
      <4>1. Known
        BY <3>3 DEF RespWait, Command, Asking, Working, Replying, Noting
      <4>2. Known'
        BY <2>1, <2>3, <2>4, <3>3, <4>1 DEF RespWait, Known
      <4>3. QED
        BY <3>3, <4>2 DEF RespWait, Command, InHand
    <3>4. CASE ReadStatus
      <4>1. got[2] = reqid /\ ioctl_resp_status = reqid /\ Nowhere
        BY <3>4 DEF ReadStatus, Command
      <4>2. Nowhere'
        BY <2>1, <2>3, <4>1 DEF Nowhere
      <4>3. got' = << reqid', reqid' >>
        BY <2>1, <3>4, <4>1 DEF ReadStatus
      <4>4. QED
        BY <3>4, <4>2, <4>3 DEF ReadStatus, Command, InHand
    <3>5. QED
      BY <1>1, <3>1, <3>2, <3>3, <3>4
  <2>6. NoneLost'
    BY <2>1, <2>2, <2>5 DEF NoneLost
  <2>7. QED
    BY <2>2, <2>5, <2>6 DEF InOrder
<1>2. CASE TxIoctl
  <2> DEFINE m == Message("request", 0, reqid + 1)
  <2>1. /\ reqid \in Nat /\ ctl \in Seq(Messages) /\ m \in Messages /\ m.kind = "request" /\ m.trans = reqid + 1 /\ m.id = 0
        /\ ctlcpl \in Seq(Messages)
    BY IdsFinite, BoundAssumption DEF TypeOK, Message, Messages
  <2>2. /\ up /\ qpc' = "wait" /\ reqid' = reqid + 1 /\ ctl' = Append(ctl, m) /\ qpc = "tx"
        /\ UNCHANGED << pool, rxunpub, up, got, resp, ipc, device, cpl >>
    BY <1>2 DEF TxIoctl
  <2> HIDE DEF m
  <2>3. /\ Len(ctl) \in Nat /\ DOMAIN ctl = 1 .. Len(ctl) /\ DOMAIN ctl' = 1 .. Len(ctl) + 1
        /\ \A j \in 1 .. Len(ctl) : ctl'[j] = ctl[j]
        /\ ctl'[Len(ctl) + 1] = m
    BY <2>1, <2>2, Elements, Appended
  <2>4. Once(ctl') /\ \A k \in Kinds : Kin(ctl', k) = Kin(ctl, k)
    <3>1. Once(ctl)
      BY DEF Places
    <3>2. Once(Append(ctl, m))
      BY <2>1, <3>1, KinAppended
    <3>3. ASSUME NEW k \in Kinds PROVE Kin(Append(ctl, m), k) = Kin(ctl, k)
      <4>1. m.kind # k
        BY <2>1 DEF Kinds
      <4>2. Kin(Append(ctl, m), k) = Kin(ctl, k) \cup (IF m.kind = k THEN {m.id} ELSE {})
        BY <2>1, KinAppended
      <4>3. QED
        BY <4>1, <4>2
    <3>4. QED
      BY <2>2, <3>2, <3>3
  <2>5. \A k \in Kinds : InCtl(k)' = InCtl(k) /\ InCpl(k)' = InCpl(k)
    BY <2>2, <2>4 DEF InCtl, InCpl, Kin
  <2>6. \A k \in Kinds : Lent(k)' = Lent(k) /\ Posted(k)' = Posted(k)
    BY <2>2, <2>5 DEF Lent, Posted
  <2>7. Places'
    BY <2>2, <2>4, <2>5, <2>6 DEF Places
  <2>8. Counts'
    BY <2>2, <2>6 DEF Counts, CountOff
  <2>9. Nowhere /\ ~ctl_completed
    BY <2>2 DEF Command
  <2>10. Asking'
    <3>1. NoReply'
      BY <2>2, <2>9 DEF Nowhere, NoReply, None
    <3>2. One(Append(ctl, m), "request", reqid + 1, 0)
      <4>1. None(ctl, "request")
        BY <2>9 DEF Nowhere, NoRequest
      <4>2. QED
        BY <2>1, <4>1, OneAppended
    <3>3. One(ctl', "request", reqid', 0)
      BY <2>2, <3>2
    <3>4. 0 \in PktIds
      BY IdsFinite
    <3>5. QED
      BY <2>2, <2>9, <3>1, <3>3, <3>4 DEF Asking, Nowhere, One
  <2>11. Command'
    BY <2>2, <2>10 DEF Command
  <2>12. NoneLost'
    <3>1. ~InHand
      BY <2>2 DEF InHand
    <3>2. QED
      BY <2>2, <2>6, <3>1 DEF NoneLost
  <2>13. QED
    BY <2>7, <2>8, <2>11, <2>12 DEF InOrder
<1>3. CASE TakeAnswer
  <2> DEFINE p == ioctl_resp_pktid
  <2>1. /\ qpc = "take" /\ qpc' = "status" /\ rx_pktids' = [rx_pktids EXCEPT ![p] = "free"]
        /\ got' = << 0, filled[p] >>
        /\ UNCHANGED << cur, ring, reqid, resp, ipc, devbuf, devreq, cpl >>
    BY <1>3 DEF TakeAnswer, Released
  <2>2. Known /\ Noted /\ rx_pktids[p] = "ioctl" /\ p \notin Posted("ioctl") /\ filled[p] = reqid /\ ioctl_resp_status = reqid
    BY <2>1 DEF Command, Known, Noted, Carries
  <2>3. p \in PktIds /\ rx_pktids \in [PktIds -> Kinds \cup {"free"}]
    BY DEF TypeOK
  <2> HIDE DEF p
  <2>4. Counts' /\ \A k \in Kinds : Posted(k)' = Posted(k)
    BY <2>1, SamePlaces
  <2>5. \A k \in Kinds : p \notin Posted(k)
    BY <2>2 DEF Places, Kinds
  <2>6. Places'
    <3>1. \A k \in Kinds : \A i \in Posted(k)' : rx_pktids'[i] = k
      <4> SUFFICES ASSUME NEW k \in Kinds, NEW i \in Posted(k) PROVE rx_pktids'[i] = k
        BY <2>4
      <4>1. i # p /\ rx_pktids[i] = k /\ i \in PktIds
        BY <2>5, PostedIs DEF Places
      <4>2. QED
        BY <2>1, <2>3, <4>1
    <3>2. /\ Once(ctl)' /\ Once(ctlcpl)' /\ Distinct(rxcpl)' /\ (rxunpub \cap devbuf["data"] = {})'
          /\ \A k \in Kinds : (devbuf[k] \cap InCtl(k) = {})' /\ (Lent(k) \cap InCpl(k) = {})'
      BY <2>1 DEF Places, Once, Distinct, InCtl, InCpl, Lent
    <3>3. QED
      BY <3>1, <3>2 DEF Places
  <2>7. Command'
    <3>1. NoRequest' /\ devreq' = << >> /\ NoReply' /\ ipc' # "wake"
      BY <2>1, <2>2 DEF Known, NoRequest, NoReply, None
    <3>2. QED
      BY <2>1, <2>2, <3>1 DEF Command, Nowhere
  <2>8. NoneLost'
    <3> SUFFICES ASSUME NEW i \in PktIds, rx_pktids'[i] # "free"
                 PROVE  \E k \in Kinds : rx_pktids'[i] = k /\ i \in Posted(k)'
      BY DEF NoneLost
    <3>1. i # p /\ rx_pktids'[i] = rx_pktids[i]
      BY <2>1, <2>3
    <3>2. \E k \in Kinds : rx_pktids[i] = k /\ i \in Posted(k)
      BY <3>1 DEF NoneLost, p
    <3>3. QED
      BY <2>4, <3>1, <3>2
  <2>9. QED
    BY <2>4, <2>6, <2>7, <2>8 DEF InOrder
<1>4. ASSUME NoAnswer PROVE FALSE
  BY <1>4 DEF NoAnswer, Command, Known, Noted, Carries
<1>5. ASSUME RespTimeout PROVE FALSE
  BY <1>5 DEF RespTimeout
<1>6. QED
  BY <1>1, <1>2, <1>3, <1>4, <1>5 DEF CallerStep

-----------------------------------------------------------------------------
(* A step that only moves buffers leaves the command where it is.          *)
LEMMA CommandKept ==
  ASSUME Command, UNCHANGED << qpc, reqid, err, got, devreq, resp >>, ipc' = "wake" <=> ipc = "wake",
         NoRequest => NoRequest', NoReply => NoReply',
         \A i \in PktIds : One(ctl, "request", reqid, i) => One(ctl', "request", reqid, i),
         \A i \in PktIds : One(ctlcpl, "ioctl", reqid, i) => One(ctlcpl', "ioctl", reqid, i),
         \A i \in PktIds : Carries(i) => filled'[i] = reqid /\ rx_pktids'[i] = "ioctl",
         Noted => Noted'
  PROVE  Command' /\ (InHand' <=> InHand)
<1>1. UNCHANGED << ctl_completed, ioctl_resp_status, ioctl_resp_pktid >>
  BY DEF resp
<1>2. Nowhere => Nowhere'
  BY DEF Nowhere
<1>3. Asking => Asking'
  <2>1. ASSUME NEW i \in PktIds, One(ctl, "request", reqid, i) PROVE One(ctl, "request", reqid, i)'
    <3>1. One(ctl', "request", reqid', i)
      BY <2>1
    <3>2. QED
      BY <3>1 DEF One
  <2>2. QED
    BY <1>1, <2>1 DEF Asking
<1>4. Working => Working'
  BY <1>1 DEF Working
<1>5. Replying => Replying'
  <2>1. ASSUME NEW i \in PktIds, One(ctlcpl, "ioctl", reqid, i), Carries(i)
        PROVE  One(ctlcpl, "ioctl", reqid, i)' /\ Carries(i)'
    <3>1. One(ctlcpl', "ioctl", reqid', i)
      BY <2>1
    <3>2. QED
      BY <2>1, <3>1 DEF One, Carries
  <2>2. QED
    BY <1>1, <2>1 DEF Replying
<1>6. (Noting => Noting') /\ (Known => Known')
  BY <1>1 DEF Noting, Known
<1>7. InHand' <=> InHand
  BY <1>1 DEF InHand
<1>8. Command'
  BY <1>1, <1>2, <1>3, <1>4, <1>5, <1>6 DEF Command
<1>9. QED
  BY <1>7, <1>8

(* The ids a post takes were free, and keep the kind they are posted as.   *)
LEMMA AllocatedIs ==
  ASSUME TypeOK, NEW k \in Kinds, NEW s \in Seq(PktIds), Ids(s) \subseteq Free
  PROVE  /\ \A i \in PktIds : rx_pktids[i] # "free" => i \notin Ids(s) /\ Allocated(s, k)[i] = rx_pktids[i]
         /\ \A i \in Ids(s) : i \in PktIds /\ rx_pktids[i] = "free" /\ Allocated(s, k)[i] = k
         /\ \A i \in PktIds \ Ids(s) : Allocated(s, k)[i] = rx_pktids[i]
  BY DEF Allocated, Free

LEMMA PostOrder ==
  ASSUME TypeOK, InOrder, NEW k \in {"event", "ioctl"}, CtrlPost(k, Uncounted(k)),
         UNCHANGED << rxunpub, up, caller, resp, device, cpl >>,
         IF k = "event" THEN NextCtl("event") /\ ipc' = "event" ELSE ipc = "post" /\ ipc' = "idle"
  PROVE  InOrder'
<1> USE DEF caller, device, cpl
<1> Places /\ Counts /\ Command /\ NoneLost
  BY DEF InOrder
<1>1. k \in Kinds /\ k # "data" /\ cur \in [Kinds -> Nat] /\ cur[k] <= MaxPost[k] /\ MaxPost[k] \in Nat
      /\ ctl \in Seq(Messages) /\ ctlcpl \in Seq(Messages)
  BY PostAssumption DEF TypeOK, Kinds
<1>2. cur[k] > 0 /\ Uncounted(k) = cur[k] - 1 /\ cur[k] = Cardinality(Posted(k)) + CountOff(k)
      /\ CountOff(k)' = CountOff(k) - 1
  <2>1. cur[k] = Cardinality(Posted(k)) + CountOff(k)
    BY <1>1 DEF Counts
  <2>2. Cardinality(Posted(k)) \in Nat /\ IsFiniteSet(Posted(k))
    BY <1>1, PostedIs
  <2>3. CASE k = "event"
    <3>1. ctlcpl # << >> /\ Head(ctlcpl).kind = "event" /\ CountOff(k) = 0 /\ CountOff(k)' = -1
      BY <2>3 DEF NextCtl, CountOff
    <3>2. Head(ctlcpl).id \in Kin(ctlcpl, k)
      BY <1>1, <2>3, <3>1, KinTaken
    <3>3. Posted(k) # {}
      BY <1>1, <3>2, PostedIs DEF Posted
    <3>4. Cardinality(Posted(k)) # 0
      BY <2>2, <3>3, FS_EmptySet
    <3>5. QED
      BY <1>1, <2>1, <2>2, <3>1, <3>4 DEF Uncounted
  <2>4. CASE k = "ioctl"
    <3>1. CountOff(k) = 1 /\ CountOff(k)' = 0
      BY <2>4 DEF CountOff
    <3>2. QED
      BY <1>1, <2>1, <2>2, <3>1 DEF Uncounted
  <2>5. QED
    BY <2>3, <2>4
<1>3. Uncounted(k) \in Nat /\ Uncounted(k) <= MaxPost[k]
  BY <1>1, <1>2
<1>4. PICK s \in Seq(PktIds) :
           /\ Len(s) \in Nat /\ Ids(s) \subseteq Free /\ Distinct(s)
           /\ IsFiniteSet(Ids(s)) /\ Cardinality(Ids(s)) = Len(s)
           /\ rx_pktids' = Allocated(s, k)
           /\ cur' = [cur EXCEPT ![k] = Uncounted(k) + Len(s)]
           /\ ctl' = ctl \o Batch(k, s)
  BY <1>1, <1>3, CtrlPosts
<1>5. /\ \A i \in PktIds : rx_pktids[i] # "free" => i \notin Ids(s) /\ rx_pktids'[i] = rx_pktids[i]
      /\ \A i \in Ids(s) : i \in PktIds /\ rx_pktids[i] = "free" /\ rx_pktids'[i] = k
      /\ \A i \in PktIds \ Ids(s) : rx_pktids'[i] = rx_pktids[i]
  BY <1>1, <1>4, AllocatedIs
<1>6. \A q \in Kinds : \A i \in Posted(q) : i \in PktIds /\ rx_pktids[i] = q /\ i \notin Ids(s) /\ rx_pktids'[i] = q
  <2>1. \A q \in Kinds : Posted(q) \subseteq PktIds /\ \A i \in Posted(q) : rx_pktids[i] = q
    BY PostedIs DEF Places
  <2>2. \A q \in Kinds : q # "free"
    BY DEF Kinds
  <2>3. QED
    BY <1>5, <2>1, <2>2
<1>7. /\ \A j \in DOMAIN ctl' : (j \in DOMAIN ctl /\ ctl'[j] = ctl[j]) \/ (j \notin DOMAIN ctl /\ ctl'[j].kind = k)
      /\ \A j \in DOMAIN ctl : j \in DOMAIN ctl' /\ ctl'[j] = ctl[j]
      /\ \A q \in Kinds : Kin(ctl', q) = Kin(ctl, q) \cup (IF q = k THEN Ids(s) ELSE {})
      /\ Once(ctl) /\ Distinct(s) /\ Ids(s) \cap Kin(ctl, k) = {} => Once(ctl')
  <2> DEFINE t == ctl \o Batch(k, s)
  <2>1. /\ \A j \in DOMAIN t : (j \in DOMAIN ctl /\ t[j] = ctl[j]) \/ (j \notin DOMAIN ctl /\ t[j].kind = k)
        /\ \A j \in DOMAIN ctl : j \in DOMAIN t /\ t[j] = ctl[j]
        /\ \A q \in Kinds : Kin(t, q) = Kin(ctl, q) \cup (IF q = k THEN Ids(s) ELSE {})
        /\ Once(ctl) /\ Distinct(s) /\ Ids(s) \cap Kin(ctl, k) = {} => Once(t)
    <3>1. ctl \in Seq(Messages) /\ k \in Kinds /\ s \in Seq(PktIds)
      BY <1>1, <1>4
    <3>2. QED
      BY <3>1, KinPosted, SMTT(30)
  <2>2. QED
    BY <1>4, <2>1
<1>8. \A q \in Kinds : /\ InCtl(q)' = InCtl(q) \cup (IF q = k THEN Ids(s) ELSE {})
                       /\ InCpl(q)' = InCpl(q)
                       /\ Lent(q)' = Lent(q) \cup (IF q = k THEN Ids(s) ELSE {})
                       /\ Posted(q)' = Posted(q) \cup (IF q = k THEN Ids(s) ELSE {})
  <2>1. \A q \in Kinds : InCtl(q)' = InCtl(q) \cup (IF q = k THEN Ids(s) ELSE {})
    BY <1>7 DEF InCtl, Kin
  <2>2. \A q \in Kinds : InCpl(q)' = InCpl(q)
    BY DEF InCpl
  <2>3. \A q \in Kinds : Lent(q)' = Lent(q) \cup (IF q = k THEN Ids(s) ELSE {})
    BY <2>1 DEF Lent
  <2>4. QED
    BY <2>1, <2>2, <2>3 DEF Posted
<1>9. Places'
  <2>1. Once(ctl')
    <3>1. Kin(ctl, k) \subseteq Posted(k)
      BY <1>1, PostedIs DEF Posted, Lent
    <3>2. Ids(s) \cap Kin(ctl, k) = {}
      BY <1>1, <1>6, <3>1
    <3>3. Once(ctl)
      BY DEF Places
    <3>4. QED
      BY <1>4, <1>7, <3>2, <3>3
  <2>2. ASSUME NEW q \in Kinds
        PROVE  /\ (devbuf[q] \cap InCtl(q) = {})' /\ (Lent(q) \cap InCpl(q) = {})'
               /\ \A i \in Posted(q)' : rx_pktids'[i] = q
    <3>1. devbuf[q] \subseteq Posted(q) /\ InCpl(q) \subseteq Posted(q)
      BY DEF Posted, Lent
    <3>2. devbuf[q] \cap InCtl(q) = {} /\ Lent(q) \cap InCpl(q) = {}
      BY DEF Places
    <3>3. \A i \in Posted(q) : i \notin Ids(s) /\ rx_pktids'[i] = q
      BY <1>6
    <3>4. QED
      BY <1>5, <1>8, <3>1, <3>2, <3>3
  <2>3. Once(ctlcpl)' /\ Distinct(rxcpl)' /\ (rxunpub \cap devbuf["data"] = {})'
    BY DEF Places, Once, Distinct
  <2>4. QED
    BY <2>1, <2>2, <2>3 DEF Places, Once
<1>10. Counts'
  <2> SUFFICES ASSUME NEW q \in Kinds PROVE cur'[q] = Cardinality(Posted(q)') + CountOff(q)'
    BY DEF Counts
  <2>1. CASE q = k
    <3>1. Posted(k)' = Posted(k) \cup Ids(s) /\ Posted(k) \cap Ids(s) = {} /\ IsFiniteSet(Posted(k))
      BY <1>1, <1>6, <1>8, PostedIs
    <3>2. Cardinality(Posted(k)') = Cardinality(Posted(k)) + Len(s)
      <4>1. Cardinality(Posted(k) \cap Ids(s)) = 0
        BY <3>1, FS_EmptySet
      <4>2. Cardinality(Posted(k) \cup Ids(s))
              = Cardinality(Posted(k)) + Cardinality(Ids(s)) - Cardinality(Posted(k) \cap Ids(s))
        BY <1>4, <3>1, FS_Union
      <4>3. Cardinality(Posted(k)) \in Nat
        BY <1>1, PostedIs
      <4>4. QED
        BY <1>4, <3>1, <4>1, <4>2, <4>3
    <3>3. cur'[k] = cur[k] - 1 + Len(s)
      BY <1>1, <1>2, <1>4
    <3>4. Cardinality(Posted(k)) \in Nat /\ CountOff(k) \in Int /\ cur[k] \in Nat
      BY <1>1, PostedIs DEF CountOff
    <3>5. QED
      BY <1>2, <1>4, <2>1, <3>2, <3>3, <3>4
  <2>2. CASE q # k
    <3>1. cur'[q] = cur[q] /\ Posted(q)' = Posted(q)
      BY <1>1, <1>4, <1>8, <2>2
    <3>2. CountOff(q)' = CountOff(q)
      BY <2>2 DEF CountOff, NextCtl
    <3>3. QED
      BY <3>1, <3>2 DEF Counts
  <2>3. QED
    BY <2>1, <2>2
<1>11. Command' /\ (InHand' <=> InHand)
  <2>1. ipc # "wake" /\ ipc' # "wake"
    BY DEF NextCtl
  <2>2. NoRequest => NoRequest'
    BY <1>1, <1>7 DEF NoRequest, None, Kinds
  <2>3. NoReply => NoReply'
    BY DEF NoReply, None
  <2>4. \A i \in PktIds : One(ctl, "request", reqid, i) => One(ctl', "request", reqid, i)
    <3>1. k # "request"
      BY <1>1 DEF Kinds
    <3>2. QED
      BY <1>7, <3>1 DEF One
  <2>5. \A i \in PktIds : Carries(i) => filled'[i] = reqid /\ rx_pktids'[i] = "ioctl"
    BY <1>5 DEF Carries
  <2>6. Noted => Noted'
    <3> SUFFICES ASSUME Noted PROVE Noted'
      OBVIOUS
    <3>1. ioctl_resp_pktid \in PktIds /\ UNCHANGED << ioctl_resp_status, ioctl_resp_pktid >>
      BY DEF TypeOK, resp
    <3>2. ioctl_resp_pktid \notin Ids(s) /\ rx_pktids'[ioctl_resp_pktid] = "ioctl"
      BY <1>5, <3>1 DEF Noted, Carries
    <3>3. ioctl_resp_pktid \notin Posted("ioctl")'
      BY <1>8, <3>2 DEF Noted, Kinds
    <3>4. QED
      BY <3>1, <3>2, <3>3 DEF Noted, Carries
  <2>7. \A i \in PktIds : One(ctlcpl, "ioctl", reqid, i) => One(ctlcpl', "ioctl", reqid, i)
    OBVIOUS
  <2>8. QED
    BY <2>1, <2>2, <2>3, <2>4, <2>5, <2>6, <2>7, CommandKept
<1>12. NoneLost'
  <2> SUFFICES ASSUME NEW i \in PktIds
               PROVE  \/ rx_pktids'[i] = "free"
                      \/ \E q \in Kinds : rx_pktids'[i] = q /\ i \in Posted(q)'
                      \/ InHand' /\ i = ioctl_resp_pktid'
    BY DEF NoneLost
  <2>1. CASE i \in Ids(s)
    BY <1>1, <1>5, <1>8, <2>1
  <2>2. CASE i \notin Ids(s)
    <3>1. rx_pktids'[i] = rx_pktids[i] /\ ioctl_resp_pktid' = ioctl_resp_pktid
      BY <1>5, <2>2 DEF resp
    <3>2. \A q \in Kinds : i \in Posted(q) => i \in Posted(q)'
      BY <1>8
    <3>3. QED
      BY <1>11, <3>1, <3>2 DEF NoneLost
  <2>3. QED
    BY <2>1, <2>2
<1>13. QED
  BY <1>9, <1>10, <1>11, <1>12 DEF InOrder

(* The completion ring of received packets, as it grows and shrinks.       *)
LEMMA IdsAppended ==
  ASSUME NEW s \in Seq(PktIds), NEW e \in PktIds
  PROVE  /\ Ids(Append(s, e)) = Ids(s) \cup {e}
         /\ Distinct(s) /\ e \notin Ids(s) => Distinct(Append(s, e))
<1> DEFINE t == Append(s, e)
<1>1. /\ Len(s) \in Nat /\ DOMAIN s = 1 .. Len(s) /\ DOMAIN t = 1 .. Len(s) + 1
      /\ \A j \in 1 .. Len(s) : t[j] = s[j]
      /\ t[Len(s) + 1] = e
  BY Elements, Appended
<1> HIDE DEF t
<1>2. Ids(t) = Ids(s) \cup {e}
  <2>1. \A j \in DOMAIN t : (j \in DOMAIN s /\ t[j] = s[j]) \/ t[j] = e
    BY <1>1
  <2>2. Len(s) + 1 \in DOMAIN t /\ \A j \in DOMAIN s : j \in DOMAIN t /\ t[j] = s[j]
    BY <1>1
  <2>3. QED
    BY <1>1, <2>1, <2>2 DEF Ids
<1>3. ASSUME Distinct(s), e \notin Ids(s) PROVE Distinct(t)
  BY <1>1, <1>3 DEF Distinct, Ids
<1>4. QED
  BY <1>2, <1>3 DEF t

LEMMA IdsTaken ==
  ASSUME NEW s \in Seq(PktIds), s # << >>
  PROVE  /\ Ids(s) = Ids(Tail(s)) \cup {Head(s)} /\ Head(s) \in PktIds
         /\ Distinct(s) => Distinct(Tail(s)) /\ Head(s) \notin Ids(Tail(s))
<1> DEFINE t == Tail(s)
           e == Head(s)
<1>1. /\ Len(s) \in Nat /\ Len(s) > 0 /\ DOMAIN s = 1 .. Len(s) /\ DOMAIN t = 1 .. Len(s) - 1
      /\ \A j \in 1 .. Len(s) - 1 : t[j] = s[j + 1]
      /\ e = s[1] /\ e \in PktIds
  BY Elements, Taken
<1> HIDE DEF t, e
<1>2. 1 \in DOMAIN s /\ \A j \in DOMAIN t : j + 1 \in DOMAIN s /\ j + 1 # 1 /\ t[j] = s[j + 1]
  BY <1>1
<1>3. \A j \in DOMAIN s : j # 1 => j - 1 \in DOMAIN t /\ t[j - 1] = s[j]
  BY <1>1
<1>4. Ids(s) = Ids(t) \cup {e}
  <2>1. Ids(t) \cup {e} \subseteq Ids(s)
    BY <1>1, <1>2 DEF Ids
  <2>2. ASSUME NEW j \in DOMAIN s PROVE s[j] \in Ids(t) \cup {e}
    BY <1>1, <1>3 DEF Ids
  <2>3. Ids(s) \subseteq Ids(t) \cup {e}
    BY <2>2 DEF Ids
  <2>4. QED
    BY <2>1, <2>3
<1>5. ASSUME Distinct(s) PROVE Distinct(t) /\ e \notin Ids(t)
  <2>1. \A m, n \in DOMAIN t : m # n => m + 1 # n + 1
    BY <1>1
  <2>2. Distinct(t)
    BY <1>2, <1>5, <2>1 DEF Distinct
  <2>3. e \notin Ids(t)
    BY <1>1, <1>2, <1>5 DEF Distinct, Ids
  <2>4. QED
    BY <2>2, <2>3
<1>6. QED
  BY <1>1, <1>4, <1>5 DEF t, e

LEMMA RxOrder ==
  ASSUME Basic, InOrder, ProcessRxComplete
  PROVE  InOrder'
<1> DEFINE h == Head(rxcpl)
<1> TypeOK /\ DataCounted /\ Controls /\ Places /\ Counts /\ Command /\ NoneLost
  BY DEF InOrder, Basic
<1>1. PICK s \in Seq(PktIds) :
        /\ Len(s) \in Nat /\ Ids(s) \subseteq Free /\ Distinct(s)
        /\ IsFiniteSet(Ids(s)) /\ Cardinality(Ids(s)) = Len(s)
        /\ rx_pktids' = [Allocated(s, "data") EXCEPT ![h] = "free"]
        /\ cur' = [cur EXCEPT !["data"] = cur["data"] - 1 + Len(s)]
        /\ \/ /\ devbuf' = [devbuf EXCEPT !["data"] = @ \cup rxunpub \cup Ids(s)] /\ rxunpub' = {}
           \/ /\ rxunpub' = rxunpub \cup Ids(s) /\ UNCHANGED devbuf
  BY RxPosts
<1>2. /\ rxcpl' = Tail(rxcpl) /\ rxcpl # << >> /\ rxcpl \in Seq(PktIds)
      /\ UNCHANGED << ctl, resp, ipc, devreq, filled, ctlcpl, qpc, reqid, err, got >>
  BY DEF ProcessRxComplete, TypeOK, caller
<1>3. /\ h \in PktIds /\ Ids(rxcpl) = Ids(rxcpl') \cup {h} /\ h \notin Ids(rxcpl') /\ Distinct(rxcpl')
  BY <1>2, IdsTaken DEF Places
<1> HIDE DEF h
<1>4. /\ InCtl("data") = {} /\ InCpl("data") = Ids(rxcpl) /\ InCpl("data")' = Ids(rxcpl')
      /\ \A k \in Kinds : k # "data" => InCpl(k)' = InCpl(k)
      /\ \A k \in Kinds : InCtl(k)' = InCtl(k)
  BY <1>2 DEF InCtl, InCpl, Ids, Controls
<1>5. /\ devbuf \in [Kinds -> SUBSET PktIds] /\ "data" \in Kinds
      /\ \A k \in Kinds : k # "free" /\ (k # "data" => devbuf'[k] = devbuf[k])
  BY <1>1 DEF TypeOK, Kinds
<1>6. /\ Lent("data")' = Lent("data") \cup Ids(s)
      /\ \A k \in Kinds : k # "data" => Lent(k)' = Lent(k)
  <2>1. CASE devbuf' = [devbuf EXCEPT !["data"] = @ \cup rxunpub \cup Ids(s)] /\ rxunpub' = {}
    <3>1. devbuf'["data"] = devbuf["data"] \cup rxunpub \cup Ids(s)
      BY <1>5, <2>1
    <3>2. QED
      BY <1>4, <1>5, <2>1, <3>1 DEF Lent
  <2>2. CASE rxunpub' = rxunpub \cup Ids(s) /\ UNCHANGED devbuf
    BY <1>4, <1>5, <2>2 DEF Lent
  <2>3. QED
    BY <1>1, <2>1, <2>2
<1>7. \A k \in Kinds : \A i \in Posted(k) : i \in PktIds /\ rx_pktids[i] = k
  BY PostedIs DEF Places
<1>8. h \in Posted("data") /\ h \notin Lent("data") /\ rx_pktids[h] = "data"
  BY <1>3, <1>4, <1>5, <1>7 DEF Posted, Places
<1>9. /\ Posted("data")' = (Posted("data") \ {h}) \cup Ids(s)
      /\ \A k \in Kinds : k # "data" => Posted(k)' = Posted(k)
  BY <1>3, <1>4, <1>5, <1>6, <1>8 DEF Posted
<1>10. /\ \A i \in PktIds : rx_pktids[i] # "free" => i \notin Ids(s) /\ (i # h => rx_pktids'[i] = rx_pktids[i])
       /\ \A i \in Ids(s) : i \in PktIds /\ rx_pktids'[i] = "data"
       /\ \A i \in PktIds \ Ids(s) : i # h => rx_pktids'[i] = rx_pktids[i]
       /\ rx_pktids'[h] = "free"
  <2>1. Allocated(s, "data") \in [PktIds -> Kinds \cup {"free"}]
    BY <1>5, AllocatedTypes
  <2>2. rx_pktids'[h] = "free" /\ \A i \in PktIds : i # h => rx_pktids'[i] = Allocated(s, "data")[i]
    BY <1>1, <1>3, <2>1
  <2>3. /\ \A i \in PktIds : rx_pktids[i] # "free" => i \notin Ids(s) /\ Allocated(s, "data")[i] = rx_pktids[i]
        /\ \A i \in Ids(s) : i \in PktIds /\ rx_pktids[i] = "free" /\ Allocated(s, "data")[i] = "data"
        /\ \A i \in PktIds \ Ids(s) : Allocated(s, "data")[i] = rx_pktids[i]
    BY <1>1, <1>5, AllocatedIs
  <2>4. "data" # "free"
    OBVIOUS
  <2>5. QED
    BY <1>8, <2>2, <2>3, <2>4
<1>11. Places'
  <2>1. ASSUME NEW k \in Kinds
        PROVE  /\ (devbuf[k] \cap InCtl(k) = {})' /\ (Lent(k) \cap InCpl(k) = {})'
               /\ \A i \in Posted(k)' : rx_pktids'[i] = k
    <3>1. devbuf[k] \cap InCtl(k) = {} /\ Lent(k) \cap InCpl(k) = {}
      BY DEF Places
    <3>2. CASE k = "data"
      <4>1. Lent("data")' \cap InCpl("data")' = {}
        BY <1>3, <1>4, <1>6, <1>7, <1>10, <3>1, <3>2 DEF Posted, Lent
      <4>2. \A i \in Posted("data")' : rx_pktids'[i] = "data"
        BY <1>5, <1>7, <1>9, <1>10
      <4>3. QED
        BY <1>4, <3>2, <4>1, <4>2
    <3>3. CASE k # "data"
      <4>1. \A i \in Posted(k) : i # h /\ rx_pktids'[i] = k
        BY <1>5, <1>7, <1>8, <1>10, <3>3
      <4>2. QED
        BY <1>4, <1>5, <1>6, <1>9, <3>1, <3>3, <4>1
    <3>4. QED
      BY <3>2, <3>3
  <2>2. (rxunpub \cap devbuf["data"] = {})'
    <3>1. devbuf["data"] \cap Ids(s) = {}
      BY <1>5, <1>7, <1>10 DEF Posted, Lent
    <3>2. rxunpub \cap devbuf["data"] = {}
      BY DEF Places
    <3>3. QED
      BY <1>1, <3>1, <3>2
  <2>3. Once(ctl)' /\ Once(ctlcpl)'
    BY <1>2 DEF Places, Once
  <2>4. QED
    BY <1>3, <2>1, <2>2, <2>3 DEF Places, Distinct
<1>12. Counts'
  <2> SUFFICES ASSUME NEW k \in Kinds PROVE cur'[k] = Cardinality(Posted(k)') + CountOff(k)'
    BY DEF Counts
  <2>1. CountOff(k)' = CountOff(k) /\ cur[k] = Cardinality(Posted(k)) + CountOff(k)
    BY <1>2 DEF CountOff, Counts
  <2>2. CASE k = "data"
    <3> DEFINE P == Posted("data") \ {h}
    <3>1. IsFiniteSet(Posted("data")) /\ Cardinality(Posted("data")) \in Nat
      BY <1>5, PostedIs
    <3>2. IsFiniteSet(P) /\ Cardinality(P) = Cardinality(Posted("data")) - 1
      BY <1>8, <3>1, FS_RemoveElement
    <3>3. P \cap Ids(s) = {}
      BY <1>5, <1>7, <1>10
    <3> HIDE DEF P
    <3>4. Cardinality(P \cap Ids(s)) = 0
      BY <3>3, FS_EmptySet
    <3>5. Cardinality(P \cup Ids(s)) = Cardinality(P) + Cardinality(Ids(s)) - Cardinality(P \cap Ids(s))
      BY <1>1, <3>2, FS_Union
    <3>6. Posted("data")' = P \cup Ids(s)
      BY <1>9 DEF P
    <3>7. CountOff("data") = 0 /\ cur["data"] \in Nat /\ cur'["data"] = cur["data"] - 1 + Len(s)
      BY <1>1 DEF CountOff, TypeOK, Kinds
    <3>8. Cardinality(Posted("data")') = Cardinality(Posted("data")) - 1 + Len(s)
      <4>1. Cardinality(P \cup Ids(s)) = Cardinality(P) + Len(s)
        <5>1. Cardinality(P) \in Nat
          BY <3>2, FS_CardinalityType
        <5>2. QED
          BY <1>1, <3>4, <3>5, <5>1
      <4>2. QED
        BY <3>2, <3>6, <4>1
    <3>9. QED
      BY <1>1, <2>1, <2>2, <3>1, <3>7, <3>8
  <2>3. CASE k # "data"
    <3>1. cur'[k] = cur[k] /\ Posted(k)' = Posted(k)
      BY <1>1, <1>9, <2>3 DEF TypeOK
    <3>2. QED
      BY <2>1, <3>1
  <2>4. QED
    BY <2>2, <2>3
<1>13. Command' /\ (InHand' <=> InHand)
  <2>1. (NoRequest => NoRequest') /\ (NoReply => NoReply')
    BY <1>2 DEF NoRequest, NoReply, None
  <2>2. \A i \in PktIds : Carries(i) => filled'[i] = reqid /\ rx_pktids'[i] = "ioctl"
    BY <1>2, <1>8, <1>10 DEF Carries
  <2>3. Noted => Noted'
    <3> SUFFICES ASSUME Noted PROVE Noted'
      OBVIOUS
    <3>1. ioctl_resp_pktid \in PktIds /\ UNCHANGED << ioctl_resp_status, ioctl_resp_pktid, reqid >>
      BY <1>2 DEF TypeOK, resp
    <3>2. filled'[ioctl_resp_pktid] = reqid /\ rx_pktids'[ioctl_resp_pktid] = "ioctl"
      BY <2>2, <3>1 DEF Noted
    <3>3. Posted("ioctl")' = Posted("ioctl")
      BY <1>9 DEF Kinds
    <3>4. QED
      BY <3>1, <3>2, <3>3 DEF Noted, Carries
  <2>4. QED
    BY <1>2, <2>1, <2>2, <2>3, CommandKept
<1>14. NoneLost'
  <2> SUFFICES ASSUME NEW i \in PktIds, i # h
               PROVE  \/ rx_pktids'[i] = "free"
                      \/ \E q \in Kinds : rx_pktids'[i] = q /\ i \in Posted(q)'
                      \/ InHand' /\ i = ioctl_resp_pktid'
    BY <1>10 DEF NoneLost
  <2>1. CASE i \in Ids(s)
    BY <1>5, <1>9, <1>10, <2>1
  <2>2. CASE i \notin Ids(s)
    <3>1. rx_pktids'[i] = rx_pktids[i] /\ ioctl_resp_pktid' = ioctl_resp_pktid
      BY <1>2, <1>10, <2>2 DEF resp
    <3>2. \A q \in Kinds : i \in Posted(q) => i \in Posted(q)'
      BY <1>9
    <3>3. QED
      BY <1>13, <3>1, <3>2 DEF NoneLost
  <2>3. QED
    BY <2>1, <2>2
<1>15. QED
  BY <1>11, <1>12, <1>13, <1>14 DEF InOrder

(* A step that moves posted buffers from one place to the next.            *)
LEMMA Moved ==
  ASSUME InOrder, \A k \in Kinds : Posted(k)' = Posted(k),
         UNCHANGED << rx_pktids, cur, ipc, ioctl_resp_pktid >>, InHand' <=> InHand
  PROVE  Counts' /\ NoneLost' /\ \A k \in Kinds : \A i \in Posted(k)' : rx_pktids'[i] = k
<1>1. Counts'
  BY DEF InOrder, Counts, CountOff
<1>2. NoneLost'
  BY DEF InOrder, NoneLost
<1>3. \A k \in Kinds : \A i \in Posted(k)' : rx_pktids'[i] = k
  BY DEF InOrder, Places
<1>4. QED
  BY <1>1, <1>2, <1>3

(* The first message of the control completion ring, by its kind.          *)
LEMMA FirstBack ==
  ASSUME TypeOK, Places, ctlcpl # << >>, NEW k \in {"event", "ioctl"}, Head(ctlcpl).kind = k,
         ctlcpl' = Tail(ctlcpl), UNCHANGED << ctl, rxunpub, devbuf, rxcpl >>
  PROVE  LET h == Head(ctlcpl).id
         IN  /\ h \in PktIds /\ k \in Kinds /\ Once(ctlcpl')
             /\ h \in Posted(k) /\ Posted(k)' = Posted(k) \ {h} /\ rx_pktids[h] = k
             /\ Cardinality(Posted(k)') = Cardinality(Posted(k)) - 1
             /\ \A q \in Kinds : /\ Lent(q)' = Lent(q) /\ InCtl(q)' = InCtl(q)
                                 /\ InCpl(q)' = IF q = k THEN InCpl(q) \ {h} ELSE InCpl(q)
                                 /\ q # k => Posted(q)' = Posted(q) /\ h \notin Posted(q)
<1> DEFINE h == Head(ctlcpl).id
<1>1. k \in Kinds /\ k # "data" /\ k # "request" /\ ctlcpl \in Seq(Messages) /\ Once(ctlcpl)
  BY DEF TypeOK, Kinds, Places
<1>2. h \in PktIds
  <2>1. Head(ctlcpl) \in Messages
    BY <1>1, Taken
  <2>2. QED
    BY <2>1 DEF Messages
<1>3. /\ \A q \in Kinds : Kin(ctlcpl, q) = Kin(Tail(ctlcpl), q) \cup (IF k = q THEN {h} ELSE {})
      /\ Once(Tail(ctlcpl)) /\ h \notin Kin(Tail(ctlcpl), k)
  <2>1. \A q \in Kinds :
          Kin(ctlcpl, q) = Kin(Tail(ctlcpl), q) \cup (IF Head(ctlcpl).kind = q THEN {Head(ctlcpl).id} ELSE {})
    BY <1>1, KinTaken
  <2>2. /\ Once(Tail(ctlcpl))
        /\ Head(ctlcpl).kind # "request" => Head(ctlcpl).id \notin Kin(Tail(ctlcpl), Head(ctlcpl).kind)
    BY <1>1, KinTaken
  <2>3. QED
    BY <1>1, <2>1, <2>2
<1> HIDE DEF h
<1>4. Once(ctlcpl')
  <2>1. Once(Tail(ctlcpl))
    BY <1>3
  <2>2. QED
    BY <2>1
<1>5. \A q \in Kinds : Lent(q)' = Lent(q) /\ InCtl(q)' = InCtl(q)
  BY DEF Lent, InCtl
<1>6. ASSUME NEW q \in Kinds PROVE InCpl(q)' = IF q = k THEN InCpl(q) \ {h} ELSE InCpl(q)
  <2>1. InCpl(q) = IF q = "data" THEN Ids(rxcpl) ELSE Kin(ctlcpl, q)
    BY DEF InCpl, Ids, Kin
  <2>2. InCpl(q)' = IF q = "data" THEN Ids(rxcpl) ELSE Kin(Tail(ctlcpl), q)
    BY DEF InCpl, Ids, Kin
  <2>3. CASE q = k
    <3>1. InCpl(q) = Kin(Tail(ctlcpl), k) \cup {h} /\ h \notin Kin(Tail(ctlcpl), k)
      BY <1>1, <1>3, <2>1, <2>3
    <3>2. InCpl(q)' = Kin(Tail(ctlcpl), k)
      BY <1>1, <2>2, <2>3
    <3>3. QED
      BY <2>3, <3>1, <3>2
  <2>4. CASE q # k
    <3>1. Kin(ctlcpl, q) = Kin(Tail(ctlcpl), q)
      BY <1>3, <2>4
    <3>2. QED
      BY <2>1, <2>2, <2>4, <3>1
  <2>5. QED
    BY <2>3, <2>4
<1>7. h \in InCpl(k) /\ h \notin Lent(k)
  <2>1. InCpl(k) = Kin(ctlcpl, k) /\ h \in Kin(ctlcpl, k)
    BY <1>1, <1>3 DEF InCpl, Kin
  <2>2. QED
    BY <1>1, <2>1 DEF Places
<1>8. h \in Posted(k) /\ Posted(k)' = Posted(k) \ {h} /\ rx_pktids[h] = k
  BY <1>1, <1>5, <1>6, <1>7 DEF Posted, Places
<1>9. Cardinality(Posted(k)') = Cardinality(Posted(k)) - 1
  <2>1. IsFiniteSet(Posted(k))
    BY <1>1, PostedIs
  <2>2. Cardinality(Posted(k) \ {h}) = Cardinality(Posted(k)) - 1
    BY <1>8, <2>1, FS_RemoveElement
  <2>3. QED
    BY <1>8, <2>2
<1>10. ASSUME NEW q \in Kinds, q # k PROVE Posted(q)' = Posted(q) /\ h \notin Posted(q)
  BY <1>5, <1>6, <1>8, <1>10 DEF Posted, Places
<1>11. QED
  BY <1>1, <1>2, <1>4, <1>5, <1>6, <1>8, <1>9, <1>10 DEF h

LEMMA TakeEventOrder ==
  ASSUME Basic, InOrder, TakeEvent
  PROVE  InOrder'
<1> DEFINE h == Head(ctlcpl).id
<1> TypeOK /\ Controls /\ Places /\ Counts /\ Command /\ NoneLost
  BY DEF InOrder, Basic
<1>1. /\ ctlcpl # << >> /\ Head(ctlcpl).kind = "event" /\ ctlcpl' = Tail(ctlcpl) /\ ipc = "event" /\ ipc' = "idle"
      /\ rx_pktids' = [rx_pktids EXCEPT ![h] = "free"]
      /\ UNCHANGED << cur, ctl, rxunpub, devbuf, rxcpl, devreq, filled, resp, qpc, reqid, err, got >>
  BY DEF TakeEvent, Controls, Released, ring, device, caller
<1>2. /\ h \in PktIds /\ "event" \in Kinds /\ Once(ctlcpl') /\ h \in Posted("event")
      /\ Posted("event")' = Posted("event") \ {h} /\ rx_pktids[h] = "event"
      /\ Cardinality(Posted("event")') = Cardinality(Posted("event")) - 1
      /\ \A q \in Kinds : /\ Lent(q)' = Lent(q) /\ InCtl(q)' = InCtl(q)
                          /\ InCpl(q)' = IF q = "event" THEN InCpl(q) \ {h} ELSE InCpl(q)
                          /\ q # "event" => Posted(q)' = Posted(q) /\ h \notin Posted(q)
  BY <1>1, FirstBack
<1> HIDE DEF h
<1>3. rx_pktids'[h] = "free" /\ \A i \in PktIds : i # h => rx_pktids'[i] = rx_pktids[i]
  BY <1>1, <1>2 DEF TypeOK
<1>4. Places'
  <2>1. ASSUME NEW q \in Kinds
        PROVE  /\ (devbuf[q] \cap InCtl(q) = {})' /\ (Lent(q) \cap InCpl(q) = {})'
               /\ \A i \in Posted(q)' : rx_pktids'[i] = q
    <3>1. devbuf[q] \cap InCtl(q) = {} /\ Lent(q) \cap InCpl(q) = {} /\ \A i \in Posted(q) : rx_pktids[i] = q
      BY DEF Places
    <3>2. Posted(q)' \subseteq Posted(q) /\ h \notin Posted(q)' /\ Posted(q) \subseteq PktIds
      BY <1>2, PostedIs
    <3>3. QED
      BY <1>1, <1>2, <1>3, <3>1, <3>2
  <2>2. Once(ctl)' /\ Distinct(rxcpl)' /\ (rxunpub \cap devbuf["data"] = {})'
    BY <1>1 DEF Places, Once, Distinct
  <2>3. QED
    BY <1>2, <2>1, <2>2 DEF Places, Once
<1>5. Counts'
  <2> SUFFICES ASSUME NEW q \in Kinds PROVE cur'[q] = Cardinality(Posted(q)') + CountOff(q)'
    BY DEF Counts
  <2>1. cur'[q] = cur[q] /\ cur[q] = Cardinality(Posted(q)) + CountOff(q) /\ Cardinality(Posted(q)) \in Nat
    BY <1>1, PostedIs DEF Counts
  <2>2. CASE q = "event"
    <3>1. CountOff(q) = -1 /\ CountOff(q)' = 0
      BY <1>1, <2>2 DEF CountOff
    <3>2. QED
      BY <1>2, <2>1, <2>2, <3>1
  <2>3. CASE q # "event"
    <3>1. CountOff(q)' = CountOff(q) /\ Posted(q)' = Posted(q)
      BY <1>1, <1>2, <2>3 DEF CountOff
    <3>2. QED
      BY <2>1, <3>1
  <2>4. QED
    BY <2>2, <2>3
<1>6. Command' /\ (InHand' <=> InHand)
  <2>1. NoRequest => NoRequest'
    BY <1>1 DEF NoRequest, None
  <2>2. NoReply => NoReply'
    <3>1. ctlcpl \in Seq(Messages)
      BY DEF TypeOK
    <3>2. None(ctlcpl, "ioctl") => None(Tail(ctlcpl), "ioctl")
      BY <1>1, <3>1, OneTaken
    <3>3. QED
      BY <1>1, <3>2 DEF NoReply, None
  <2>3. \A i \in PktIds : One(ctlcpl, "ioctl", reqid, i) => One(ctlcpl', "ioctl", reqid, i)
    <3>1. ctlcpl \in Seq(Messages) /\ Head(ctlcpl).kind # "ioctl"
      BY <1>1 DEF TypeOK
    <3>2. \A i \in PktIds : One(ctlcpl, "ioctl", reqid, i) => One(Tail(ctlcpl), "ioctl", reqid, i)
      BY <1>1, <3>1, OneTaken
    <3>3. QED
      BY <1>1, <3>2
  <2>4. \A i \in PktIds : Carries(i) => filled'[i] = reqid /\ rx_pktids'[i] = "ioctl"
    BY <1>1, <1>2, <1>3 DEF Carries
  <2>5. Noted => Noted'
    <3> SUFFICES ASSUME Noted PROVE Noted'
      OBVIOUS
    <3>1. ioctl_resp_pktid \in PktIds /\ UNCHANGED << ioctl_resp_status, ioctl_resp_pktid, reqid >>
      BY <1>1 DEF TypeOK, resp
    <3>2. filled'[ioctl_resp_pktid] = reqid /\ rx_pktids'[ioctl_resp_pktid] = "ioctl"
      BY <2>4, <3>1 DEF Noted
    <3>3. Posted("ioctl")' = Posted("ioctl")
      BY <1>2 DEF Kinds
    <3>4. QED
      BY <3>1, <3>2, <3>3 DEF Noted, Carries
  <2>6. \A i \in PktIds : One(ctl, "request", reqid, i) => One(ctl', "request", reqid, i)
    BY <1>1
  <2>7. QED
    BY <1>1, <2>1, <2>2, <2>3, <2>4, <2>5, <2>6, CommandKept
<1>7. NoneLost'
  <2> SUFFICES ASSUME NEW i \in PktIds, i # h
               PROVE  \/ rx_pktids'[i] = "free"
                      \/ \E q \in Kinds : rx_pktids'[i] = q /\ i \in Posted(q)'
                      \/ InHand' /\ i = ioctl_resp_pktid'
    BY <1>3 DEF NoneLost
  <2>1. rx_pktids'[i] = rx_pktids[i] /\ ioctl_resp_pktid' = ioctl_resp_pktid
    BY <1>1, <1>3 DEF resp
  <2>2. \A q \in Kinds : i \in Posted(q) => i \in Posted(q)'
    BY <1>2
  <2>3. QED
    BY <1>6, <2>1, <2>2 DEF NoneLost
<1>8. QED
  BY <1>4, <1>5, <1>6, <1>7 DEF InOrder

LEMMA NoteAnswerOrder ==
  ASSUME Basic, InOrder, NoteAnswer
  PROVE  InOrder'
<1> DEFINE h == Head(ctlcpl).id
<1> TypeOK /\ Places /\ Counts /\ Command /\ NoneLost
  BY DEF InOrder, Basic
<1>1. /\ ctlcpl # << >> /\ Head(ctlcpl).kind = "ioctl" /\ ctlcpl' = Tail(ctlcpl) /\ ipc = "idle" /\ ipc' = "wake"
      /\ ioctl_resp_status' = Head(ctlcpl).trans /\ ioctl_resp_pktid' = h
      /\ UNCHANGED << rx_pktids, cur, ctl, rxunpub, devbuf, rxcpl, devreq, filled, ctl_completed, qpc, reqid, err, got >>
  BY DEF NoteAnswer, NextCtl, ring, device, caller, pool
<1>2. /\ h \in PktIds /\ "ioctl" \in Kinds /\ Once(ctlcpl') /\ h \in Posted("ioctl")
      /\ Posted("ioctl")' = Posted("ioctl") \ {h} /\ rx_pktids[h] = "ioctl"
      /\ Cardinality(Posted("ioctl")') = Cardinality(Posted("ioctl")) - 1
      /\ \A q \in Kinds : /\ Lent(q)' = Lent(q) /\ InCtl(q)' = InCtl(q)
                          /\ InCpl(q)' = IF q = "ioctl" THEN InCpl(q) \ {h} ELSE InCpl(q)
                          /\ q # "ioctl" => Posted(q)' = Posted(q) /\ h \notin Posted(q)
  BY <1>1, FirstBack
<1>3. qpc = "wait" /\ Replying
  <2>1. ~NoReply
    <3>1. ctlcpl \in Seq(Messages)
      BY DEF TypeOK
    <3>2. QED
      BY <1>1, <3>1, OneTaken DEF NoReply
  <2>2. QED
    BY <2>1 DEF Command, Nowhere, Asking, Working, Noting, Known, TypeOK
<1>4. None(ctlcpl', "ioctl") /\ ioctl_resp_status' = reqid /\ Carries(h)
  <2>1. PICK i \in PktIds : One(ctlcpl, "ioctl", reqid, i) /\ Carries(i)
    BY <1>3 DEF Replying
  <2>2. ctlcpl \in Seq(Messages)
    BY DEF TypeOK
  <2>3. None(Tail(ctlcpl), "ioctl") /\ Head(ctlcpl).trans = reqid /\ h = i
    BY <1>1, <2>1, <2>2, OneTaken
  <2>4. QED
    BY <1>1, <2>1, <2>3
<1> HIDE DEF h
<1>5. Places'
  <2>1. ASSUME NEW q \in Kinds
        PROVE  /\ (devbuf[q] \cap InCtl(q) = {})' /\ (Lent(q) \cap InCpl(q) = {})'
               /\ \A i \in Posted(q)' : rx_pktids'[i] = q
    <3>1. devbuf[q] \cap InCtl(q) = {} /\ Lent(q) \cap InCpl(q) = {} /\ \A i \in Posted(q) : rx_pktids[i] = q
      BY DEF Places
    <3>2. Posted(q)' \subseteq Posted(q)
      BY <1>2
    <3>3. QED
      BY <1>1, <1>2, <3>1, <3>2
  <2>2. Once(ctl)' /\ Distinct(rxcpl)' /\ (rxunpub \cap devbuf["data"] = {})'
    BY <1>1 DEF Places, Once, Distinct
  <2>3. QED
    BY <1>2, <2>1, <2>2 DEF Places, Once
<1>6. Counts'
  <2> SUFFICES ASSUME NEW q \in Kinds PROVE cur'[q] = Cardinality(Posted(q)') + CountOff(q)'
    BY DEF Counts
  <2>1. cur'[q] = cur[q] /\ cur[q] = Cardinality(Posted(q)) + CountOff(q) /\ Cardinality(Posted(q)) \in Nat
    BY <1>1, PostedIs DEF Counts
  <2>2. CASE q = "ioctl"
    <3>1. CountOff(q) = 0 /\ CountOff(q)' = 1
      BY <1>1, <2>2 DEF CountOff
    <3>2. QED
      BY <1>2, <2>1, <2>2, <3>1
  <2>3. CASE q # "ioctl"
    <3>1. CountOff(q)' = CountOff(q) /\ Posted(q)' = Posted(q)
      BY <1>1, <1>2, <2>3 DEF CountOff
    <3>2. QED
      BY <2>1, <3>1
  <2>4. QED
    BY <2>2, <2>3
<1>7. Noting'
  <2>1. NoReply' /\ NoRequest' /\ devreq' = << >> /\ ~ctl_completed'
    BY <1>1, <1>3, <1>4 DEF Replying, NoReply, NoRequest, None
  <2>2. Noted'
    <3>1. filled'[h] = reqid' /\ rx_pktids'[h] = "ioctl"
      BY <1>1, <1>4 DEF Carries
    <3>2. h \notin Posted("ioctl")'
      BY <1>2
    <3>3. QED
      BY <1>1, <1>4, <3>1, <3>2 DEF Noted, Carries
  <2>3. QED
    BY <1>1, <2>1, <2>2 DEF Noting
<1>8. Command'
  BY <1>1, <1>3, <1>7 DEF Command
<1>9. NoneLost'
  <2> SUFFICES ASSUME NEW i \in PktIds
               PROVE  \/ rx_pktids'[i] = "free"
                      \/ \E q \in Kinds : rx_pktids'[i] = q /\ i \in Posted(q)'
                      \/ InHand' /\ i = ioctl_resp_pktid'
    BY DEF NoneLost
  <2>1. CASE i = h
    BY <1>1, <1>3, <2>1 DEF InHand
  <2>2. CASE i # h
    <3>1. ~InHand
      BY <1>1, <1>3 DEF InHand, Replying
    <3>2. rx_pktids'[i] = rx_pktids[i]
      BY <1>1
    <3>3. \A q \in Kinds : i \in Posted(q) => i \in Posted(q)'
      BY <1>2, <2>2
    <3>4. QED
      BY <3>1, <3>2, <3>3 DEF NoneLost
  <2>3. QED
    BY <2>1, <2>2
<1>10. QED
  BY <1>5, <1>6, <1>8, <1>9 DEF InOrder

LEMMA RespWakeOrder ==
  ASSUME InOrder, RespWake, TypeOK
  PROVE  InOrder'
<1> Places /\ Counts /\ Command /\ NoneLost
  BY DEF InOrder
<1>1. /\ ipc = "wake" /\ ipc' = "post" /\ ctl_completed'
      /\ UNCHANGED << rx_pktids, cur, ctl, rxunpub, devbuf, rxcpl, ctlcpl, devreq, filled,
                      ioctl_resp_status, ioctl_resp_pktid, qpc, reqid, err, got >>
  BY DEF RespWake, ring, device, caller, pool, cpl
<1>2. Places' /\ \A k \in Kinds : Posted(k)' = Posted(k)
  BY <1>1, SamePlaces
<1>3. Counts'
  BY <1>1, <1>2 DEF Counts, CountOff
<1>4. qpc = "wait" /\ Noting
  BY <1>1 DEF Command, Nowhere, Asking, Working, Replying, Known, TypeOK
<1>5. Known'
  BY <1>1, <1>2, <1>4 DEF Known, Noting, Noted, Carries, NoRequest, NoReply, None, Kinds
<1>6. Command'
  BY <1>1, <1>4, <1>5 DEF Command
<1>7. InHand' /\ InHand
  BY <1>1, <1>4 DEF InHand
<1>8. NoneLost'
  BY <1>1, <1>2, <1>7 DEF NoneLost
<1>9. QED
  BY <1>2, <1>3, <1>6, <1>8 DEF InOrder

(* The device takes a buffer or a command from the control ring,           *)
LEMMA DevControlOrder ==
  ASSUME Basic, InOrder, DevControl
  PROVE  InOrder'
<1> DEFINE m == Head(ctl)
           k == Head(ctl).kind
           h == Head(ctl).id
<1> TypeOK /\ Controls /\ Places /\ Counts /\ Command /\ NoneLost
  BY DEF InOrder, Basic
<1>1. /\ ctl \in Seq(Messages) /\ ctl # << >> /\ ctl' = Tail(ctl) /\ Once(ctl)
      /\ IF k = "request"
           THEN devreq' = Append(devreq, << m.trans, ioctbuf >>) /\ UNCHANGED devbuf
           ELSE devbuf' = [devbuf EXCEPT ![k] = @ \cup {h}] /\ UNCHANGED devreq
      /\ UNCHANGED << rx_pktids, cur, rxunpub, rxcpl, ctlcpl, filled, resp, ipc, qpc, reqid, err, got >>
  <2>1. ctl \in Seq(Messages) /\ Once(ctl)
    BY DEF TypeOK, Places
  <2>2. ctlpub > 0 /\ ctlpub \in 0 .. Len(ctl)
    BY DEF DevControl, TypeOK
  <2>3. ctl # << >>
    BY <2>1, <2>2
  <2>4. QED
    BY <2>1, <2>3 DEF DevControl, pool, cpl, caller
<1>2. h \in PktIds /\ k \in {"event", "ioctl", "request"} /\ devbuf \in [Kinds -> SUBSET PktIds]
  <2>1. m \in Messages /\ 1 \in DOMAIN ctl /\ m = ctl[1]
    BY <1>1, Taken, Elements
  <2>2. QED
    BY <2>1 DEF Messages, Controls, Kinds, TypeOK
<1>3. /\ Once(ctl') /\ (k # "request" => h \notin Kin(ctl', k))
      /\ \A q \in Kinds : Kin(ctl, q) = Kin(ctl', q) \cup (IF k = q THEN {h} ELSE {})
  <2>1. /\ \A q \in Kinds : Kin(ctl, q) = Kin(Tail(ctl), q) \cup (IF k = q THEN {h} ELSE {})
        /\ Once(Tail(ctl)) /\ (k # "request" => h \notin Kin(Tail(ctl), k))
    BY <1>1, KinTaken
  <2>2. QED
    BY <1>1, <2>1
<1>4. \A q \in Kinds : /\ InCtl(q) = Kin(ctl, q) /\ InCtl(q)' = Kin(ctl', q) /\ InCpl(q)' = InCpl(q)
  BY <1>1 DEF InCtl, InCpl, Kin
<1>5. \A q \in Kinds : /\ devbuf'[q] = devbuf[q] \cup (IF k = q THEN {h} ELSE {})
                       /\ Lent(q)' = Lent(q) /\ Posted(q)' = Posted(q)
  <2>1. \A q \in Kinds : devbuf'[q] = devbuf[q] \cup (IF k = q THEN {h} ELSE {})
    <3>1. CASE k = "request"
      <4>1. \A q \in Kinds : k # q
        BY <3>1 DEF Kinds
      <4>2. QED
        BY <1>1, <3>1, <4>1
    <3>2. CASE k # "request"
      BY <1>1, <1>2, <3>2
    <3>3. QED
      BY <3>1, <3>2
  <2>2. \A q \in Kinds : Lent(q)' = Lent(q)
    BY <1>1, <1>3, <1>4, <2>1 DEF Lent
  <2>3. QED
    BY <1>4, <2>1, <2>2 DEF Posted
<1> HIDE DEF h
<1>6. Command' /\ (InHand' <=> InHand)
  <2>1. CASE k = "request"
    <3>1. ~NoRequest
      BY <1>1, <2>1, OneTaken DEF NoRequest
    <3>2. qpc = "wait" /\ Asking
      BY <3>1 DEF Command, Nowhere, Working, Replying, Noting, Known, TypeOK
    <3>3. None(ctl', "request") /\ m.trans = reqid
      <4>1. PICK i \in PktIds : One(ctl, "request", reqid, i)
        BY <3>2 DEF Asking
      <4>2. None(Tail(ctl), "request") /\ m.trans = reqid
        BY <1>1, <2>1, <4>1, OneTaken
      <4>3. QED
        BY <1>1, <4>2
    <3>4. devreq' = << << reqid, reqid >> >>
      BY <1>1, <2>1, <3>2, <3>3 DEF Asking, TypeOK
    <3>5. Working'
      BY <1>1, <3>2, <3>3, <3>4 DEF Asking, Working, NoRequest, NoReply, None, resp
    <3>6. QED
      BY <1>1, <3>2, <3>5 DEF Command, InHand, resp
  <2>2. CASE k # "request"
    <3>1. NoRequest => NoRequest'
      <4>1. None(ctl, "request") => None(Tail(ctl), "request")
        BY <1>1, <2>2, OneTaken
      <4>2. QED
        BY <1>1, <4>1 DEF NoRequest, None
    <3>2. \A i \in PktIds : One(ctl, "request", reqid, i) => One(ctl', "request", reqid, i)
      <4>1. \A i \in PktIds : One(ctl, "request", reqid, i) => One(Tail(ctl), "request", reqid, i)
        BY <1>1, <2>2, OneTaken
      <4>2. QED
        BY <1>1, <4>1
    <3>3. NoReply => NoReply'
      BY <1>1 DEF NoReply, None
    <3>4. Noted => Noted'
      BY <1>1, <1>5 DEF Noted, Carries, resp, Kinds
    <3>5. \A i \in PktIds : Carries(i) => filled'[i] = reqid /\ rx_pktids'[i] = "ioctl"
      BY <1>1 DEF Carries
    <3>6. \A i \in PktIds : One(ctlcpl, "ioctl", reqid, i) => One(ctlcpl', "ioctl", reqid, i)
      BY <1>1
    <3>7. devreq' = devreq
      BY <1>1, <2>2
    <3>8. QED
      BY <1>1, <3>1, <3>2, <3>3, <3>4, <3>5, <3>6, <3>7, CommandKept
  <2>3. QED
    BY <2>1, <2>2
<1>7. Counts' /\ NoneLost' /\ \A q \in Kinds : \A i \in Posted(q)' : rx_pktids'[i] = q
  <2>1. ioctl_resp_pktid' = ioctl_resp_pktid
    BY <1>1 DEF resp
  <2>2. QED
    BY <1>1, <1>5, <1>6, <2>1, Moved
<1>8. Places'
  <2>1. ASSUME NEW q \in Kinds PROVE (devbuf[q] \cap InCtl(q) = {})' /\ (Lent(q) \cap InCpl(q) = {})'
    <3>1. devbuf[q] \cap InCtl(q) = {} /\ Lent(q) \cap InCpl(q) = {}
      BY DEF Places
    <3>2. k = q => h \notin Kin(ctl', q)
      <4>1. q # "request"
        BY DEF Kinds
      <4>2. QED
        BY <1>3, <4>1
    <3>3. devbuf'[q] \cap Kin(ctl', q) = {}
      BY <1>3, <1>4, <1>5, <3>1, <3>2
    <3>4. QED
      BY <1>4, <1>5, <3>1, <3>3
  <2>2. (rxunpub \cap devbuf["data"] = {})'
    <3>1. devbuf'["data"] = devbuf["data"]
      BY <1>2, <1>5 DEF Kinds
    <3>2. QED
      BY <1>1, <3>1 DEF Places
  <2>3. Once(ctlcpl)' /\ Distinct(rxcpl)'
    BY <1>1 DEF Places, Once, Distinct
  <2>4. QED
    BY <1>3, <1>7, <2>1, <2>2, <2>3 DEF Places, Once
<1>9. QED
  BY <1>6, <1>7, <1>8 DEF InOrder

(* delivers a packet or an event,                                          *)
LEMMA DevDeliverOrder ==
  ASSUME Basic, InOrder, DevDeliver
  PROVE  InOrder'
<1> TypeOK /\ Controls /\ Places /\ Counts /\ Command /\ NoneLost
  BY DEF InOrder, Basic
<1>a. PICK k \in {"data", "event"} : \E id \in devbuf[k] :
        /\ devbuf' = [devbuf EXCEPT ![k] = @ \ {id}]
        /\ IF k = "data" THEN rxcpl' = Append(rxcpl, id) /\ UNCHANGED ctlcpl
                         ELSE ctlcpl' = Append(ctlcpl, Message(k, id, 0)) /\ UNCHANGED rxcpl
  BY DEF DevDeliver
<1>1. PICK h \in devbuf[k] :
        /\ devbuf' = [devbuf EXCEPT ![k] = @ \ {h}]
        /\ IF k = "data" THEN rxcpl' = Append(rxcpl, h) /\ UNCHANGED ctlcpl
                         ELSE ctlcpl' = Append(ctlcpl, Message(k, h, 0)) /\ UNCHANGED rxcpl
  BY <1>a
<1>2. /\ UNCHANGED << rx_pktids, cur, rxunpub, ctl, filled, devreq, resp, ipc, qpc, reqid, err, got >>
      /\ ctlcpl \in Seq(Messages) /\ rxcpl \in Seq(PktIds) /\ devbuf \in [Kinds -> SUBSET PktIds]
      /\ k \in Kinds /\ h \in PktIds
  BY DEF DevDeliver, pool, ring, caller, TypeOK, Kinds
<1>3. h \notin InCtl(k) /\ h \notin InCpl(k) /\ (k = "data" => h \notin rxunpub) /\ h \in Lent(k)
  <2>1. devbuf[k] \cap InCtl(k) = {} /\ Lent(k) \cap InCpl(k) = {} /\ rxunpub \cap devbuf["data"] = {}
    BY <1>2 DEF Places
  <2>2. QED
    BY <2>1 DEF Lent
<1> DEFINE e == Message(k, h, 0)
<1>4. e \in Messages /\ e.kind = k /\ e.id = h
  BY <1>2 DEF Message, Messages
<1> HIDE DEF e
<1>5. \A q \in Kinds : InCtl(q)' = InCtl(q) /\ InCpl(q)' = InCpl(q) \cup (IF k = q THEN {h} ELSE {})
  <2>1. \A q \in Kinds : InCtl(q)' = InCtl(q)
    BY <1>2 DEF InCtl
  <2>2. ASSUME NEW q \in Kinds PROVE InCpl(q)' = InCpl(q) \cup (IF k = q THEN {h} ELSE {})
    <3>1. InCpl(q) = IF q = "data" THEN Ids(rxcpl) ELSE Kin(ctlcpl, q)
      BY DEF InCpl, Ids, Kin
    <3>2. InCpl(q)' = IF q = "data" THEN Ids(rxcpl') ELSE Kin(ctlcpl', q)
      BY DEF InCpl, Ids, Kin
    <3>3. Ids(Append(rxcpl, h)) = Ids(rxcpl) \cup {h}
      BY <1>2, IdsAppended
    <3>4. Kin(Append(ctlcpl, e), q) = Kin(ctlcpl, q) \cup (IF k = q THEN {h} ELSE {})
      BY <1>2, <1>4, KinAppended
    <3>5. CASE k = "data"
      <4>1. rxcpl' = Append(rxcpl, h) /\ ctlcpl' = ctlcpl
        BY <1>1, <3>5
      <4>2. QED
        BY <3>1, <3>2, <3>3, <3>5, <4>1
    <3>6. CASE k = "event"
      <4>1. ctlcpl' = Append(ctlcpl, e) /\ rxcpl' = rxcpl
        BY <1>1, <3>6 DEF e
      <4>2. QED
        BY <3>1, <3>2, <3>4, <3>6, <4>1
    <3>7. QED
      BY <3>5, <3>6
  <2>3. QED
    BY <2>1, <2>2
<1>6. Once(ctlcpl') /\ Distinct(rxcpl')
  <2>1. Once(ctlcpl) /\ Distinct(rxcpl)
    BY DEF Places
  <2>2. CASE k = "data"
    <3>1. h \notin Ids(rxcpl)
      BY <1>3, <2>2 DEF InCpl, Ids
    <3>2. Distinct(Append(rxcpl, h))
      BY <1>2, <2>1, <3>1, IdsAppended
    <3>3. QED
      BY <1>1, <2>1, <2>2, <3>2
  <2>3. CASE k = "event"
    <3>1. e.id \notin Kin(ctlcpl, e.kind)
      BY <1>3, <1>4, <2>3 DEF InCpl, Kin
    <3>2. Once(Append(ctlcpl, e))
      BY <1>2, <1>4, <2>1, <3>1, KinAppended
    <3>3. QED
      BY <1>1, <2>1, <2>3, <3>2 DEF e
  <2>4. QED
    BY <2>2, <2>3
<1>7. \A q \in Kinds : /\ devbuf'[q] = devbuf[q] \ (IF k = q THEN {h} ELSE {})
                       /\ Lent(q)' = Lent(q) \ (IF k = q THEN {h} ELSE {})
                       /\ Posted(q)' = Posted(q)
  <2>1. \A q \in Kinds : devbuf'[q] = devbuf[q] \ (IF k = q THEN {h} ELSE {})
    BY <1>1, <1>2
  <2>2. \A q \in Kinds : Lent(q)' = Lent(q) \ (IF k = q THEN {h} ELSE {})
    BY <1>2, <1>3, <1>5, <2>1 DEF Lent
  <2>3. \A q \in Kinds : Posted(q)' = Posted(q)
    BY <1>3, <1>5, <2>2 DEF Posted
  <2>4. QED
    BY <2>1, <2>2, <2>3
<1>8. Command' /\ (InHand' <=> InHand)
  <2>1. NoReply => NoReply'
    <3>1. e.kind # "ioctl" /\ None(ctlcpl, "ioctl") => None(Append(ctlcpl, e), "ioctl")
      BY <1>2, <1>4, OneAppended
    <3>2. CASE k = "event"
      BY <1>1, <1>4, <3>1, <3>2 DEF e, NoReply, None
    <3>3. CASE k = "data"
      BY <1>1, <3>3 DEF NoReply, None
    <3>4. QED
      BY <3>2, <3>3
  <2>2. \A i \in PktIds : One(ctlcpl, "ioctl", reqid, i) => One(ctlcpl', "ioctl", reqid, i)
    <3>1. CASE k = "event"
      <4>1. \A i \in PktIds : One(ctlcpl, "ioctl", reqid, i) => One(Append(ctlcpl, e), "ioctl", reqid, i)
        BY <1>2, <1>4, <3>1, OneAppended
      <4>2. ctlcpl' = Append(ctlcpl, e)
        BY <1>1, <3>1 DEF e
      <4>3. QED
        BY <4>1, <4>2
    <3>2. CASE k = "data"
      BY <1>1, <3>2
    <3>3. QED
      BY <3>1, <3>2
  <2>3. NoRequest => NoRequest'
    BY <1>2 DEF NoRequest, None
  <2>4. Noted => Noted'
    BY <1>2, <1>7 DEF Noted, Carries, resp, Kinds
  <2>5. \A i \in PktIds : Carries(i) => filled'[i] = reqid /\ rx_pktids'[i] = "ioctl"
    BY <1>2 DEF Carries
  <2>6. QED
    BY <1>2, <2>1, <2>2, <2>3, <2>4, <2>5, CommandKept
<1>9. Counts' /\ NoneLost' /\ \A q \in Kinds : \A i \in Posted(q)' : rx_pktids'[i] = q
  <2>1. ioctl_resp_pktid' = ioctl_resp_pktid
    BY <1>2 DEF resp
  <2>2. QED
    BY <1>2, <1>7, <1>8, <2>1, Moved
<1>10. Places'
  <2>1. ASSUME NEW q \in Kinds PROVE (devbuf[q] \cap InCtl(q) = {})' /\ (Lent(q) \cap InCpl(q) = {})'
    <3>1. devbuf[q] \cap InCtl(q) = {} /\ Lent(q) \cap InCpl(q) = {}
      BY DEF Places
    <3>2. QED
      BY <1>5, <1>7, <3>1
  <2>2. (rxunpub \cap devbuf["data"] = {})'
    <3>1. devbuf'["data"] \subseteq devbuf["data"]
      BY <1>7 DEF Kinds
    <3>2. QED
      BY <1>2, <3>1 DEF Places
  <2>3. Once(ctl)'
    BY <1>2 DEF Places, Once
  <2>4. QED
    BY <1>6, <1>9, <2>1, <2>2, <2>3 DEF Places, Once, Distinct
<1>11. QED
  BY <1>8, <1>9, <1>10 DEF InOrder

(* or answers the command it works on.                                     *)
LEMMA DevAnswerOrder ==
  ASSUME Basic, InOrder, DevAnswer
  PROVE  InOrder'
<1> TypeOK /\ Places /\ Counts /\ Command /\ NoneLost
  BY DEF InOrder, Basic
<1>1. PICK h \in devbuf["ioctl"] :
        /\ devbuf' = [devbuf EXCEPT !["ioctl"] = @ \ {h}]
        /\ filled' = [filled EXCEPT ![h] = Head(devreq)[1]]
        /\ ctlcpl' = Append(ctlcpl, Message("ioctl", h, Head(devreq)[1]))
  BY DEF DevAnswer
<1>2. /\ devreq # << >> /\ devreq' = Tail(devreq)
      /\ UNCHANGED << rx_pktids, cur, rxunpub, ctl, rxcpl, resp, ipc, qpc, reqid, err, got >>
      /\ ctlcpl \in Seq(Messages) /\ devbuf \in [Kinds -> SUBSET PktIds] /\ filled \in [PktIds -> Nat]
      /\ "ioctl" \in Kinds /\ "data" \in Kinds /\ h \in PktIds /\ reqid \in Nat
  <2>1. devreq # << >> /\ devreq' = Tail(devreq)
    BY DEF DevAnswer
  <2>2. UNCHANGED << rx_pktids, cur, rxunpub, ctl, rxcpl, resp, ipc, qpc, reqid, err, got >>
    BY DEF DevAnswer, pool, ring, caller
  <2>3. ctlcpl \in Seq(Messages) /\ devbuf \in [Kinds -> SUBSET PktIds] /\ filled \in [PktIds -> Nat]
    BY DEF TypeOK
  <2>4. "ioctl" \in Kinds /\ "data" \in Kinds
    BY DEF Kinds
  <2>5. h \in PktIds
    BY <2>3, <2>4
  <2>6. reqid \in Nat
    BY BoundAssumption DEF TypeOK
  <2>7. QED
    BY <2>1, <2>2, <2>3, <2>4, <2>5, <2>6
<1>3. qpc = "wait" /\ Working /\ Head(devreq)[1] = reqid /\ devreq' = << >>
  <2>1. qpc = "wait" /\ Working
    BY <1>2 DEF Command, Nowhere, Asking, Replying, Noting, Known, TypeOK
  <2>2. devreq = << << reqid, reqid >> >>
    BY <2>1 DEF Working
  <2>3. QED
    BY <1>2, <2>1, <2>2
<1> DEFINE e == Message("ioctl", h, reqid)
<1>4. e \in Messages /\ e.kind = "ioctl" /\ e.id = h /\ e.trans = reqid /\ ctlcpl' = Append(ctlcpl, e)
  BY <1>1, <1>2, <1>3 DEF Message, Messages
<1> HIDE DEF e
<1>5. h \notin InCtl("ioctl") /\ h \notin InCpl("ioctl") /\ h \in Lent("ioctl")
  <2>1. devbuf["ioctl"] \cap InCtl("ioctl") = {} /\ Lent("ioctl") \cap InCpl("ioctl") = {}
    BY <1>2 DEF Places
  <2>2. QED
    BY <2>1 DEF Lent
<1>6. \A q \in Kinds : InCtl(q)' = InCtl(q) /\ InCpl(q)' = InCpl(q) \cup (IF q = "ioctl" THEN {h} ELSE {})
  <2>1. \A q \in Kinds : InCtl(q)' = InCtl(q)
    BY <1>2 DEF InCtl
  <2>2. ASSUME NEW q \in Kinds PROVE InCpl(q)' = InCpl(q) \cup (IF q = "ioctl" THEN {h} ELSE {})
    <3>1. InCpl(q) = IF q = "data" THEN Ids(rxcpl) ELSE Kin(ctlcpl, q)
      BY DEF InCpl, Ids, Kin
    <3>2. InCpl(q)' = IF q = "data" THEN Ids(rxcpl) ELSE Kin(Append(ctlcpl, e), q)
      BY <1>2, <1>4 DEF InCpl, Ids, Kin
    <3>3. Kin(Append(ctlcpl, e), q) = Kin(ctlcpl, q) \cup (IF q = "ioctl" THEN {h} ELSE {})
      BY <1>2, <1>4, KinAppended
    <3>4. QED
      BY <3>1, <3>2, <3>3
  <2>3. QED
    BY <2>1, <2>2
<1>7. Once(ctlcpl')
  <2>1. e.id \notin Kin(ctlcpl, e.kind)
    BY <1>4, <1>5 DEF InCpl, Kin
  <2>2. Once(ctlcpl)
    BY DEF Places
  <2>3. Once(Append(ctlcpl, e))
    BY <1>2, <1>4, <2>1, <2>2, KinAppended
  <2>4. QED
    BY <1>4, <2>3
<1>8. \A q \in Kinds : /\ devbuf'[q] = devbuf[q] \ (IF q = "ioctl" THEN {h} ELSE {})
                       /\ Lent(q)' = Lent(q) \ (IF q = "ioctl" THEN {h} ELSE {})
                       /\ Posted(q)' = Posted(q)
  <2>1. \A q \in Kinds : devbuf'[q] = devbuf[q] \ (IF q = "ioctl" THEN {h} ELSE {})
    BY <1>1, <1>2
  <2>2. \A q \in Kinds : Lent(q)' = Lent(q) \ (IF q = "ioctl" THEN {h} ELSE {})
    BY <1>2, <1>5, <1>6, <2>1 DEF Lent
  <2>3. \A q \in Kinds : Posted(q)' = Posted(q)
    BY <1>5, <1>6, <2>2 DEF Posted
  <2>4. QED
    BY <2>1, <2>2, <2>3
<1>9. Replying'
  <2>1. One(ctlcpl', "ioctl", reqid', h)
    <3>1. None(ctlcpl, "ioctl")
      BY <1>3 DEF Working, NoReply
    <3>2. One(Append(ctlcpl, e), "ioctl", reqid, h)
      BY <1>2, <1>4, <3>1, OneAppended
    <3>3. QED
      BY <1>2, <1>4, <3>2
  <2>2. filled'[h] = reqid' /\ rx_pktids'[h] = "ioctl"
    <3>1. rx_pktids[h] = "ioctl"
      BY <1>2, <1>5 DEF Places, Posted
    <3>2. filled'[h] = reqid
      BY <1>1, <1>2, <1>3
    <3>3. QED
      BY <1>2, <3>1, <3>2
  <2>3. NoRequest' /\ ipc' # "wake" /\ ~ctl_completed'
    BY <1>2, <1>3 DEF Working, NoRequest, None, resp
  <2>4. QED
    BY <1>2, <1>3, <2>1, <2>2, <2>3 DEF Replying, One, Carries
<1>10. Command' /\ (InHand' <=> InHand)
  BY <1>2, <1>3, <1>9 DEF Command, InHand, resp
<1>11. Counts' /\ NoneLost' /\ \A q \in Kinds : \A i \in Posted(q)' : rx_pktids'[i] = q
  <2>1. ioctl_resp_pktid' = ioctl_resp_pktid
    BY <1>2 DEF resp
  <2>2. QED
    BY <1>2, <1>8, <1>10, <2>1, Moved
<1>12. Places'
  <2>1. ASSUME NEW q \in Kinds PROVE (devbuf[q] \cap InCtl(q) = {})' /\ (Lent(q) \cap InCpl(q) = {})'
    <3>1. devbuf[q] \cap InCtl(q) = {} /\ Lent(q) \cap InCpl(q) = {}
      BY DEF Places
    <3>2. QED
      BY <1>6, <1>8, <3>1
  <2>2. (rxunpub \cap devbuf["data"] = {})'
    BY <1>2, <1>8 DEF Places
  <2>3. Once(ctl)' /\ Distinct(rxcpl)'
    BY <1>2 DEF Places, Once, Distinct
  <2>4. QED
    BY <1>7, <1>11, <2>1, <2>2, <2>3 DEF Places, Once
<1>13. QED
  BY <1>10, <1>11, <1>12 DEF InOrder

-----------------------------------------------------------------------------
LEMMA InitIInv == Init => IInv
<1> SUFFICES ASSUME Init PROVE IInv
  OBVIOUS
<1> DEFINE First(n) == [data |-> 0, event |-> n["data"], ioctl |-> n["data"] + n["event"]]
<1>1. PICK n \in [Kinds -> 1 .. NPktIds] :
        /\ \A k \in Kinds : n[k] <= MaxPost[k]
        /\ First(n)["ioctl"] + n["ioctl"] <= NPktIds
        /\ cur = n
        /\ devbuf = [k \in Kinds |-> First(n)[k] .. First(n)[k] + n[k] - 1]
        /\ last_allocated_idx = First(n)["ioctl"] + n["ioctl"] - 1
  <2>1. PICK n \in [Kinds -> 1 .. NPktIds] :
          /\ \A k \in Kinds : n[k] \in (IF AllocFails THEN 1 ELSE MaxPost[k]) .. MaxPost[k]
          /\ First(n)["ioctl"] + n["ioctl"] <= NPktIds
          /\ cur = n
          /\ devbuf = [k \in Kinds |-> First(n)[k] .. First(n)[k] + n[k] - 1]
          /\ last_allocated_idx = First(n)["ioctl"] + n["ioctl"] - 1
    BY DEF Init
  <2>2. \A k \in Kinds : MaxPost[k] \in Nat
    BY PostAssumption
  <2>3. \A k \in Kinds : n[k] <= MaxPost[k]
    BY <2>1, <2>2
  <2>4. QED
    BY <2>1, <2>3
<1> DEFINE a == n["data"]
           b == n["event"]
           c == n["ioctl"]
<1>2. /\ a \in Nat /\ b \in Nat /\ c \in Nat /\ a > 0 /\ b > 0 /\ c > 0
      /\ a + b + c <= NPktIds /\ last_allocated_idx = a + b + c - 1
  BY <1>1, IdsFinite DEF Kinds
<1>3. /\ devbuf["data"] = 0 .. a - 1
      /\ devbuf["event"] = a .. a + b - 1
      /\ devbuf["ioctl"] = a + b .. a + b + c - 1
      /\ DOMAIN devbuf = Kinds
  BY <1>1 DEF Kinds
<1>4. cur["data"] = a /\ cur["event"] = b /\ cur["ioctl"] = c
  BY <1>1
<1> HIDE DEF a, b, c
<1>5. cur \in [Kinds -> Nat] /\ \A k \in Kinds : cur[k] <= MaxPost[k]
  BY <1>1, IdsFinite
<1>6. devbuf \in [Kinds -> SUBSET PktIds] /\ last_allocated_idx \in PktIds
  <2>1. devbuf["data"] \subseteq PktIds /\ devbuf["event"] \subseteq PktIds /\ devbuf["ioctl"] \subseteq PktIds
    BY <1>2, <1>3, IdsFinite DEF PktIds
  <2>2. devbuf = [k \in Kinds |-> devbuf[k]]
    BY <1>1
  <2>3. \A k \in Kinds : devbuf[k] \subseteq PktIds
    BY <2>1 DEF Kinds
  <2>4. last_allocated_idx \in PktIds
    BY <1>2, IdsFinite DEF PktIds
  <2>5. QED
    BY <2>2, <2>3, <2>4
<1>7. \A k, q \in Kinds : k # q => devbuf[k] \cap devbuf[q] = {}
  <2>1. /\ devbuf["data"] \cap devbuf["event"] = {} /\ devbuf["data"] \cap devbuf["ioctl"] = {}
        /\ devbuf["event"] \cap devbuf["ioctl"] = {}
    BY <1>2, <1>3
  <2>2. QED
    BY <2>1 DEF Kinds
<1>8. \A k \in Kinds : cur[k] = Cardinality(devbuf[k])
  <2>1. /\ Cardinality(devbuf["data"]) = a /\ Cardinality(devbuf["event"]) = b /\ Cardinality(devbuf["ioctl"]) = c
    <3>1. ASSUME NEW x \in Nat, NEW y \in Nat, y > 0 PROVE Cardinality(x .. x + y - 1) = y
      <4>1. x \in Int /\ x + y - 1 \in Int /\ ~(x > x + y - 1) /\ (x + y - 1) - x + 1 = y
        BY <3>1
      <4>2. Cardinality(x .. x + y - 1) = IF x > x + y - 1 THEN 0 ELSE (x + y - 1) - x + 1
        BY <4>1, FS_Interval
      <4>3. QED
        BY <4>1, <4>2
    <3>2. Cardinality(0 .. 0 + a - 1) = a /\ Cardinality(a .. a + b - 1) = b
          /\ Cardinality((a + b) .. (a + b) + c - 1) = c
      <4>1. 0 \in Nat /\ a + b \in Nat
        BY <1>2
      <4>2. Cardinality(0 .. 0 + a - 1) = a
        BY <1>2, <3>1, <4>1
      <4>3. Cardinality(a .. a + b - 1) = b
        BY <1>2, <3>1
      <4>4. Cardinality((a + b) .. (a + b) + c - 1) = c
        BY <1>2, <3>1, <4>1
      <4>5. QED
        BY <4>2, <4>3, <4>4
    <3>3. 0 .. a - 1 = 0 .. 0 + a - 1
      BY <1>2
    <3>4. QED
      BY <1>3, <3>2, <3>3
  <2>2. QED
    BY <1>4, <2>1 DEF Kinds
<1>9. /\ rx_pktids = [i \in PktIds |-> IF \E k \in Kinds : i \in devbuf[k]
                                        THEN CHOOSE k \in Kinds : i \in devbuf[k] ELSE "free"]
      /\ ctl = << >> /\ ctlpub = 0 /\ rxunpub = {} /\ up = TRUE
      /\ qpc = "idle" /\ reqid = 0 /\ err = "0" /\ gaveUp = FALSE /\ ioctbuf = 0 /\ got = << 0, 0 >>
      /\ ctl_completed = FALSE /\ ioctl_resp_status = 0 /\ ioctl_resp_pktid = 0
      /\ ipc = "idle" /\ devreq = << >> /\ filled = [i \in PktIds |-> 0]
      /\ rxcpl = << >> /\ ctlcpl = << >>
  BY DEF Init
<1>10. \A k \in Kinds : \A i \in devbuf[k] : i \in PktIds /\ rx_pktids[i] = k
  <2> SUFFICES ASSUME NEW k \in Kinds, NEW i \in devbuf[k] PROVE i \in PktIds /\ rx_pktids[i] = k
    OBVIOUS
  <2>1. i \in PktIds
    BY <1>6
  <2>2. rx_pktids[i] = CHOOSE q \in Kinds : i \in devbuf[q]
    BY <1>9, <2>1
  <2>3. (CHOOSE q \in Kinds : i \in devbuf[q]) \in Kinds /\ i \in devbuf[CHOOSE q \in Kinds : i \in devbuf[q]]
    OBVIOUS
  <2>4. QED
    BY <1>7, <2>1, <2>2, <2>3
<1>11. \A i \in PktIds : rx_pktids[i] = "free" \/ \E k \in Kinds : rx_pktids[i] = k /\ i \in devbuf[k]
  BY <1>9, <1>10
<1>12. \A k \in Kinds : InCtl(k) = {} /\ InCpl(k) = {} /\ Lent(k) = devbuf[k] /\ Posted(k) = devbuf[k]
  <2>1. \A k \in Kinds : InCtl(k) = {} /\ InCpl(k) = {}
    BY <1>9 DEF InCtl, InCpl
  <2>2. QED
    BY <1>9, <2>1 DEF Lent, Posted
<1>13. TypeOK
  <2>1. rx_pktids \in [PktIds -> Kinds \cup {"free"}]
    <3>1. \A i \in PktIds : rx_pktids[i] \in Kinds \cup {"free"}
      BY <1>11
    <3>2. rx_pktids = [i \in PktIds |-> rx_pktids[i]]
      BY <1>9
    <3>3. QED
      BY <3>1, <3>2
  <2>2. /\ ctl \in Seq(Messages) /\ Len(ctl) <= CtlSlots /\ ctlpub \in 0 .. Len(ctl)
        /\ devreq \in Seq(Nat \X Nat) /\ rxcpl \in Seq(PktIds) /\ ctlcpl \in Seq(Messages)
    BY <1>9, BoundAssumption
  <2>3. reqid \in 0 .. MaxQueries /\ got \in Nat \X Nat /\ filled \in [PktIds -> Nat] /\ 0 \in PktIds
    BY <1>9, BoundAssumption, IdsFinite
  <2>4. QED
    BY <1>5, <1>6, <1>9, <2>1, <2>2, <2>3 DEF TypeOK
<1>14. DataCounted
  <2>1. Cardinality(rxunpub) = 0 /\ Len(rxcpl) = 0
    BY <1>9, FS_EmptySet
  <2>2. cur["data"] = Cardinality(devbuf["data"]) /\ cur["data"] \in Nat
    BY <1>5, <1>8 DEF Kinds
  <2>3. QED
    BY <2>1, <2>2 DEF DataCounted
<1>15. Controls
  BY <1>9 DEF Controls
<1>16. InOrder
  <2>1. Places
    BY <1>9, <1>10, <1>12 DEF Places, Once, Distinct
  <2>2. Counts
    <3> SUFFICES ASSUME NEW k \in Kinds PROVE cur[k] = Cardinality(Posted(k)) + CountOff(k)
      BY DEF Counts
    <3>1. CountOff(k) = 0 /\ Posted(k) = devbuf[k] /\ cur[k] = Cardinality(devbuf[k]) /\ cur[k] \in Nat
      BY <1>5, <1>8, <1>9, <1>12 DEF CountOff
    <3>2. QED
      BY <3>1
  <2>3. Command
    BY <1>9 DEF Command, Nowhere, NoRequest, NoReply, None
  <2>4. NoneLost
    BY <1>11, <1>12 DEF NoneLost
  <2>5. QED
    BY <2>1, <2>2, <2>3, <2>4 DEF InOrder
<1>17. QED
  BY <1>13, <1>14, <1>15, <1>16 DEF IInv

(* The order lasts until a command fails with -EIO, and none is undone.    *)
LEMMA StepIInv == IInv /\ [Next]_vars => IInv'
<1> SUFFICES ASSUME IInv, [Next]_vars PROVE IInv'
  OBVIOUS
<1>1. Basic /\ Basic' /\ TypeOK
  BY StepBasic DEF IInv, Basic
<1>2. ASSUME ~gaveUp' PROVE InOrder /\ TypeOK
  <2>1. ~gaveUp
    <3>1. CASE UNCHANGED vars
      BY <1>2, <3>1 DEF vars, caller
    <3>2. CASE Next
      BY <1>2, <3>2 DEF Next, CallerStep, ControlStep, QueryDcmd, TxIoctlNoRoom, TxIoctl, RespWait, TakeAnswer,
           NoAnswer, ReadStatus, RespTimeout, ProcessRxComplete, ProcessEvent, TakeEvent, NoteAnswer, RespWake,
           IoctlrespPost, DevControl, DevDeliver, DevAnswer, BusDownUp, caller
    <3>3. QED
      BY <3>1, <3>2
  <2>2. QED
    BY <2>1 DEF IInv
<1>3. ASSUME ~gaveUp' PROVE InOrder'
  <2>1. InOrder /\ TypeOK /\ Basic
    BY <1>1, <1>2, <1>3
  <2>2. CASE UNCHANGED vars \/ BusDownUp
    <3>1. UNCHANGED << pool, ring, caller, resp, ipc, device, cpl >>
      BY <2>2 DEF BusDownUp, vars
    <3>2. /\ UNCHANGED << ctl, rxunpub, devbuf, rxcpl, ctlcpl, rx_pktids, cur, ipc, filled, devreq, ctl_completed >>
          /\ UNCHANGED << ioctl_resp_status, ioctl_resp_pktid, qpc, reqid, err, got, resp >>
      BY <3>1 DEF pool, ring, caller, resp, device, cpl
    <3>3. Places' /\ Counts' /\ \A k \in Kinds : Posted(k)' = Posted(k)
      BY <2>1, <3>2, SamePlaces DEF InOrder
    <3>4. Command' /\ (InHand' <=> InHand)
      <4>1. (NoRequest => NoRequest') /\ (NoReply => NoReply')
        BY <3>2 DEF NoRequest, NoReply, None
      <4>2. Noted => Noted'
        BY <3>2, <3>3 DEF Noted, Carries, Kinds
      <4>3. \A i \in PktIds : Carries(i) => filled'[i] = reqid /\ rx_pktids'[i] = "ioctl"
        BY <3>2 DEF Carries
      <4>4. Command
        BY <2>1 DEF InOrder
      <4>5. QED
        BY <3>2, <4>1, <4>2, <4>3, <4>4, CommandKept
    <3>5. NoneLost'
      BY <2>1, <3>2, <3>3, <3>4 DEF InOrder, NoneLost
    <3>6. QED
      BY <3>3, <3>4, <3>5 DEF InOrder
  <2>3. CASE CallerStep \/ RespTimeout
    BY <1>3, <2>1, <2>3, CallerOrder
  <2>4. CASE ProcessRxComplete
    BY <2>1, <2>4, RxOrder
  <2>5. CASE ControlStep
    <3>1. CASE ProcessEvent
      BY <2>1, <3>1, PostOrder DEF ProcessEvent
    <3>2. CASE TakeEvent
      BY <2>1, <3>2, TakeEventOrder
    <3>3. CASE NoteAnswer
      BY <2>1, <3>3, NoteAnswerOrder
    <3>4. CASE RespWake
      BY <2>1, <3>4, RespWakeOrder
    <3>5. CASE IoctlrespPost
      BY <2>1, <3>5, PostOrder DEF IoctlrespPost
    <3>6. QED
      BY <2>5, <3>1, <3>2, <3>3, <3>4, <3>5 DEF ControlStep
  <2>6. CASE DevControl \/ DevDeliver \/ DevAnswer
    BY <2>1, <2>6, DevControlOrder, DevDeliverOrder, DevAnswerOrder
  <2>7. QED
    BY <2>2, <2>3, <2>4, <2>5, <2>6 DEF Next
<1>4. QED
  BY <1>1, <1>3 DEF IInv, Basic

(* The whole invariant, of which the properties below are consequences.    *)
THEOREM Safety == Spec => []IInv
BY InitIInv, StepIInv, PTL DEF Spec

(* Every variable stays in its type; the control ring never overflows and  *)
(* no kind has more buffers posted than attach agreed with the firmware,   *)
(* whatever becomes of the commands.                                       *)
THEOREM TypeCorrect == Spec => []TypeOK
<1>1. IInv => TypeOK
  BY DEF IInv
<1>2. QED
  BY <1>1, Safety, PTL

(* The counters by which brcmf_msgbuf_rxbuf_ctrl_post and                  *)
(* rxbuf_data_fill decide how much to post are the numbers of buffers      *)
(* posted, and no packet id is lost.                                       *)
THEOREM Accounted == Spec => []BuffersAccounted
<1>1. IInv => BuffersAccounted
  <2> SUFFICES ASSUME IInv, ~gaveUp
               PROVE  /\ \A k \in Kinds : cur[k] = Cardinality(Posted(k)) + CountOff(k)
                      /\ qpc = "idle" /\ ipc = "idle" =>
                           \A i \in PktIds : rx_pktids[i] = "free" \/ i \in Posted(rx_pktids[i])
    BY DEF BuffersAccounted
  <2>1. Counts /\ NoneLost
    BY DEF IInv, InOrder
  <2>2. qpc = "idle" => ~InHand
    BY DEF InHand
  <2>3. QED
    BY <2>1, <2>2 DEF Counts, NoneLost
<1>2. QED
  BY <1>1, Safety, PTL

(* brcmf_msgbuf_query_dcmd returns the status and the data of the answer   *)
(* to its own command, and the device never fetches another payload from   *)
(* the shared buffer than that of the command it is at.                    *)
THEOREM Matched == Spec => []AnswersMatch
<1>1. IInv => AnswersMatch
  <2> SUFFICES ASSUME IInv, ~gaveUp
               PROVE  /\ qpc = "idle" /\ err = "0" => got = << reqid, reqid >>
                      /\ \A j \in DOMAIN devreq : devreq[j][1] = devreq[j][2]
    BY DEF AnswersMatch
  <2>1. Command /\ TypeOK
    BY DEF IInv, InOrder
  <2>2. devreq = << >> \/ devreq = << << reqid, reqid >> >>
    BY <2>1 DEF Command, Nowhere, Asking, Working, Replying, Noting, Known, TypeOK
  <2>3. QED
    BY <2>1, <2>2 DEF Command
<1>2. QED
  BY <1>1, Safety, PTL

(* No buffer the device may still fill is taken back by the host: its      *)
(* packet id stays allocated, with its kind.                               *)
THEOREM Kept == Spec => []LentBuffersKept
<1>1. IInv => LentBuffersKept
  BY DEF IInv, InOrder, Places, Posted, LentBuffersKept
<1>2. QED
  BY <1>1, Safety, PTL

(* A caller in brcmf_msgbuf_ioctl_resp_wait whose answer has left the      *)
(* rings finds the flag set or is about to be woken.                       *)
THEOREM Woken == Spec => []WakeNotLost
<1>1. IInv => WakeNotLost
  <2> SUFFICES ASSUME IInv, ~gaveUp, qpc = "wait"
               PROVE  reqid \in Underway \/ ctl_completed \/ ipc = "wake"
    BY DEF WakeNotLost
  <2>1. Asking \/ Working \/ Replying \/ Noting \/ Known
    BY DEF IInv, InOrder, Command
  <2>2. Asking => reqid \in Requested
    BY DEF Asking, One, Requested
  <2>3. Working => reqid \in Requested
    <3>1. ASSUME Working PROVE 1 \in DOMAIN devreq /\ devreq[1][1] = reqid
      BY <3>1 DEF Working
    <3>2. QED
      BY <3>1 DEF Requested
  <2>4. Replying => reqid \in Underway
    BY DEF Replying, One, Underway
  <2>5. (Noting => ipc = "wake") /\ (Known => ctl_completed)
    BY DEF Noting, Known
  <2>6. QED
    BY <2>1, <2>2, <2>3, <2>4, <2>5 DEF Underway
<1>2. QED
  BY <1>1, Safety, PTL
=============================================================================
