--------------------------- MODULE PVFS2DSDProofs ---------------------------
(***************************************************************************)
(* Proofs about the daemon of a data server, for every configuration,      *)
(* number of exchanges, size of requests, of sub-requests and of packets,  *)
(* and choice of processing times: its books agree, reads come back byte   *)
(* for byte and writes are finished when all of them is written.           *)
(***************************************************************************)
EXTENDS PVFS2DSD, ListLemmas

-----------------------------------------------------------------------------
(* The inductive invariant, as a predicate of what the daemon keeps: e, rs and ws are the   *)
(* record of exchange x, its replies and what is written of it.                            *)

\* The identifiers between two requests are enough for the data packets of a write.
RoomForPackets ==
  \A x \in Exchanges : \A size \in config.sizes[x] : PacketCount(size) < RidOffset

\* The jobs of a queue in the order of their arrival, but for those that left.
All(q) == q.osQ \o q.waitQ

Kinds   == {"SELF_PFS_R_REQ", "SELF_PFS_W_REQ", "SELF_PFS_W_DATA", "SELF_PFS_W_DATA_LAST",
            "LFILE_REQ"}
Packet  == [id : Nat, kind : Kinds, read : BOOLEAN, loff : Nat, size : Nat]
Answers == {"PFS_W_RESP", "PFS_W_FIN", "PFS_R_DATA", "PFS_R_DATA_LAST"}
Packets == [kind : Answers, loff : Nat, size : Nat]
Spans   == [loff : Nat, size : Nat]
Queues  == [waitQ : Seq(Packet), osQ : Seq(Packet)]
Asking  == [asked : BOOLEAN, read : BOOLEAN, size : Nat, toCome : Nat]
Infos   == [decision : BOOLEAN, lub : Nat]

Types(rq, sq, im, tm, ab, ex, rp, wr) ==
  /\ rq \in Queues /\ sq \in Queues /\ tm \in Seq(Packet)
  /\ im \in [DOMAIN im -> Infos] /\ DOMAIN im \subseteq Nat
  /\ ab \in BOOLEAN
  /\ ex \in [Exchanges -> Asking]
  /\ rp \in [Exchanges -> Seq(Packets)]
  /\ wr \in [Exchanges -> Seq(Spans)]

\* A small write that does not wait.
Small(e) == /\ ~e.read /\ e.size < SmallIO
            /\ Delays \cap {"write_data", "write_metadata"} = {}

\* The history of an exchange: nothing before it is asked; a read in order; a small write
\* that does not wait in one piece; another write packet by packet once it is granted.
History(e, rs, ws) ==
  LET n == PacketCount(e.size)
  IN  /\ ~e.asked => rs = <<>> /\ ws = <<>> /\ e.toCome = 0
      /\ e.read =>
           /\ e.toCome = 0 /\ ws = <<>>
           /\ Contiguous(rs) /\ Reached(rs) <= e.size
           /\ \A k \in DOMAIN rs : rs[k].kind = "PFS_R_DATA_LAST" <=> EndOf(rs[k]) = e.size
      /\ e.asked /\ Small(e) =>
           /\ e.toCome = 0 /\ rs = <<>>
           /\ ws \in {<<>>, <<[loff |-> 0, size |-> e.size]>>}
      /\ ~e.read /\ rs = <<>> => e.toCome = 0 /\ (~Small(e) => ws = <<>>)
      /\ ~e.read /\ rs # <<>> =>
           /\ e.toCome <= n /\ Len(ws) <= n - e.toCome
           /\ \A k \in DOMAIN ws :
                ws[k] = [loff |-> (k-1) * PacketSizeLimit, size |-> PacketSize(e.size, k)]
           /\ rs[1].kind = "PFS_W_RESP"
           /\ Len(rs) = IF Len(ws) = n THEN 2 ELSE 1

\* The data packets of a granted write that have arrived and are not written.
Pending(e, ws) == Len(ws) + 1 .. PacketCount(e.size) - e.toCome

\* What a packet that waits for its processing time is: a request, or data of a write.
TimerOK(p, x, e, rs, ws) ==
  /\ e.asked
  /\ \/ /\ p.id = x * RidOffset
        /\ p.kind = IF e.read THEN "SELF_PFS_R_REQ" ELSE "SELF_PFS_W_REQ"
        /\ ~Small(e) /\ rs = <<>>
     \/ /\ ~e.read /\ rs # <<>> /\ "write_data" \in Delays
        /\ \E k \in Pending(e, ws) : p = DataPacket(x, e.size, k)

\* What a job of the file system is: a part of a read, data of a write, a small write.
ReadJob(j, x, e, rs, im) ==
  /\ e.read /\ j.read
  /\ j.id \in x * RidOffset .. x * RidOffset + RidOffset - 1
  /\ j.loff = Reached(rs) /\ j.size > 0 /\ EndOf(j) <= e.size
  /\ j.id = x * RidOffset <=> EndOf(j) = e.size
  /\ x * RidOffset \in DOMAIN im /\ im[x * RidOffset].lub = e.size

DataJob(j, x, e, rs, ws, im) ==
  /\ ~e.read /\ rs # <<>>
  /\ \E k \in Pending(e, ws) :
       /\ j = [DataPacket(x, e.size, k) EXCEPT !.kind = "LFILE_REQ"]
       /\ j.id \in DOMAIN im /\ im[j.id].decision = (k = PacketCount(e.size))

SmallJob(j, x, e, ws, im) ==
  /\ Small(e) /\ ws = <<>> /\ ~j.read
  /\ j.id = x * RidOffset /\ j.loff = 0 /\ j.size = e.size
  /\ j.id \in DOMAIN im /\ ~im[j.id].decision

JobOK(j, x, e, rs, ws, im) ==
  /\ e.asked
  /\ ReadJob(j, x, e, rs, im) \/ DataJob(j, x, e, rs, ws, im) \/ SmallJob(j, x, e, ws, im)

Ids(s) == {j.id : j \in ToSet(s)}

\* No data packet of a granted write is lost.
NoneLost(x, e, rs, ws, ids) ==
  ~e.read /\ rs # <<>> => \A k \in Pending(e, ws) : x * RidOffset + k \in ids

\* Of one exchange only data packets of a write are in a list together, in order.
Before(p, q) == ExchangeOf(p.id) = ExchangeOf(q.id) => ~p.read /\ p.id < q.id

InOrder(jobs, tm) ==
  /\ \A i, k \in DOMAIN jobs : i < k => Before(jobs[i], jobs[k])
  /\ \A i, k \in DOMAIN tm : i < k => Before(tm[i], tm[k])
  /\ \A i \in DOMAIN jobs, k \in DOMAIN tm : Before(jobs[i], tm[k])

\* The request that a job belongs to.
RequestID(j) == IF j.read THEN OrigID(j.id) ELSE j.id

OneEach(s) == \A i, k \in DOMAIN s : s[i].id = s[k].id => i = k

Records(rq, sq, im) ==
  /\ DOMAIN im = Ids(All(rq))
  /\ Ids(All(rq)) = {RequestID(j) : j \in ToSet(All(sq))}
  /\ OneEach(All(rq))
  /\ Len(sq.osQ) <= 1 /\ (sq.osQ = <<>> => sq.waitQ = <<>>)

Exchanged(jobs, im, tm, ex, rp, wr) ==
  /\ \A x \in Exchanges :
       /\ ex[x].asked => ex[x].size \in config.sizes[x]
       /\ History(ex[x], rp[x], wr[x])
       /\ NoneLost(x, ex[x], rp[x], wr[x], Ids(jobs) \cup Ids(tm))
  /\ \A k \in DOMAIN tm : LET x == ExchangeOf(tm[k].id)
                          IN  x \in Exchanges /\ TimerOK(tm[k], x, ex[x], rp[x], wr[x])
  /\ \A k \in DOMAIN jobs : LET x == ExchangeOf(jobs[k].id)
                            IN  x \in Exchanges /\ JobOK(jobs[k], x, ex[x], rp[x], wr[x], im)

InvOf(rq, sq, im, tm, ab, ex, rp, wr) ==
  /\ Types(rq, sq, im, tm, ab, ex, rp, wr)
  /\ ab => rq.waitQ # <<>>
  /\ Exchanged(All(sq), im, tm, ex, rp, wr)
  /\ InOrder(All(sq), tm)
  /\ Records(rq, sq, im)

Inv ==
  /\ config \in Configurations
  /\ InvOf(reqQ, subreqQ, infoMap, timers, aborted, exchange, replies, written)
-----------------------------------------------------------------------------
(* Numbers of packets and identifiers. *)

\* Arithmetic.
LEMMA TimesMonotonic ==
  ASSUME NEW a \in Nat, NEW b \in Nat, NEW c \in Nat, a <= b
  PROVE  a * c <= b * c /\ a * c \in Nat /\ b * c \in Nat
OBVIOUS

\* Division with remainder.
LEMMA DivBounds ==
  ASSUME NEW a \in Nat, NEW b \in Nat \ {0}
  PROVE  a \div b \in Nat /\ b * (a \div b) <= a /\ a < b * (a \div b) + b
OBVIOUS

\* A number below r does not change the quotient by r of its multiples,
LEMMA DivOfSum ==
  ASSUME NEW r \in Nat, NEW x \in Nat, NEW k \in Nat, k < r
  PROVE  (x * r + k) \div r = x
<1> DEFINE a == x * r + k
           d == a \div r
<1>1. a \in Nat /\ r \in Nat \ {0} /\ x * r \in Nat
  OBVIOUS
<1>2. d \in Nat /\ r * d <= a /\ a < r * d + r
  BY <1>1, DivBounds
<1>3. a = x * r + k
  OBVIOUS
<1> HIDE DEF a, d
<1>4. ASSUME d < x PROVE FALSE
  <2>1. d + 1 <= x /\ d + 1 \in Nat
    BY <1>2, <1>4
  <2>2. (d + 1) * r <= x * r
    BY <2>1, TimesMonotonic
  <2>3. (d + 1) * r = r * d + r
    BY <1>2
  <2>4. QED
    BY <1>1, <1>2, <1>3, <2>2, <2>3
<1>5. ASSUME x < d PROVE FALSE
  <2>1. x + 1 <= d /\ x + 1 \in Nat
    BY <1>2, <1>5
  <2>2. (x + 1) * r <= d * r
    BY <1>2, <2>1, TimesMonotonic
  <2>3. (x + 1) * r = x * r + r /\ d * r = r * d
    BY <1>2
  <2>4. QED
    BY <1>1, <1>2, <1>3, <2>2, <2>3
<1>6. d = x
  BY <1>2, <1>4, <1>5
<1>7. QED
  BY <1>6 DEF d, a

\* and is the remainder.
LEMMA ModOfSum ==
  ASSUME NEW r \in Nat, NEW x \in Nat, NEW k \in Nat, k < r
  PROVE  (x * r + k) % r = k
<1> DEFINE a == x * r + k
<1>1. a \in Nat /\ r \in Nat \ {0} /\ x * r \in Nat
  OBVIOUS
<1>2. a \div r = x
  BY DivOfSum
<1>3. a = r * (a \div r) + (a % r)
  <2> HIDE DEF a
  <2> QED
    BY <1>1
<1>4. a = x * r + k
  OBVIOUS
<1>5. a % r \in Int
  <2> HIDE DEF a
  <2> QED
    BY <1>1
<1>6. r * x = x * r
  OBVIOUS
<1> HIDE DEF a
<1>7. a % r = k
  BY <1>1, <1>2, <1>3, <1>4, <1>5, <1>6
<1>8. QED
  BY <1>7 DEF a

\* The numbers of a configuration.
LEMMA ConfigFacts ==
  ASSUME config \in Configurations
  PROVE  /\ PacketSizeLimit \in Nat \ {0} /\ SubreqSize \in Nat \ {0} /\ SmallIO \in Nat
         /\ Degree \in Nat \ {0} /\ RidOffset \in Nat /\ RidOffset > 2
         /\ \A x \in Exchanges : x \in Nat \ {0} /\ config.sizes[x] \subseteq Nat \ {0}
BY PVFS2DSDAssumption
   DEF PacketSizeLimit, SubreqSize, SmallIO, Degree, RidOffset, Exchanges

\* All packets but the last are full, and that one has the rest.
LEMMA PacketCountFacts ==
  ASSUME config \in Configurations, NEW n \in Nat \ {0}
  PROVE  /\ PacketCount(n) \in Nat \ {0}
         /\ (PacketCount(n) - 1) * PacketSizeLimit < n
         /\ n - (PacketCount(n) - 1) * PacketSizeLimit <= PacketSizeLimit
         /\ \A k \in 1 .. PacketCount(n) - 1 : k * PacketSizeLimit < n
<1> DEFINE P == PacketSizeLimit
           a == n + P - 1
           c == PacketCount(n)
<1>1. P \in Nat \ {0}
  BY ConfigFacts
<1>2. c = a \div P
  BY DEF PacketCount
<1> HIDE DEF P, c
<1>3. a \in Nat /\ a = n + P - 1
  BY <1>1
<1>4. c \in Nat /\ P * c <= a /\ a < P * c + P
  <2> HIDE DEF a
  <2> QED
    BY <1>1, <1>2, <1>3, DivBounds
<1> HIDE DEF a
<1>5. c # 0
  <2> SUFFICES ASSUME c = 0 PROVE FALSE
    OBVIOUS
  <2>1. P * c = 0
    BY <1>1
  <2>2. QED
    BY <1>1, <1>3, <1>4, <2>1
<1>6. (c - 1) * P = P * c - P /\ P * c \in Nat
  BY <1>1, <1>4
<1>7. ASSUME NEW k \in 1 .. c - 1 PROVE k * P < n
  <2>1. k * P <= (c - 1) * P
    BY <1>1, <1>4, TimesMonotonic
  <2>2. k * P \in Nat
    BY <1>1
  <2>3. QED
    BY <1>1, <1>3, <1>4, <1>6, <2>1, <2>2
<1>8. c \in Nat \ {0} /\ (c - 1) * P < n /\ n - (c - 1) * P <= P
  BY <1>1, <1>3, <1>4, <1>5, <1>6
<1>9. QED
  BY <1>7, <1>8 DEF P, c

\* The k-th packet begins where the one before ends; the last ends with the request.
LEMMA PacketFacts ==
  ASSUME config \in Configurations, NEW n \in Nat \ {0}, NEW k \in 1 .. PacketCount(n)
  PROVE  /\ (k - 1) * PacketSizeLimit \in Nat
         /\ PacketSize(n, k) \in Nat \ {0}
         /\ k = PacketCount(n) => (k - 1) * PacketSizeLimit + PacketSize(n, k) = n
         /\ k # PacketCount(n) =>
              /\ (k - 1) * PacketSizeLimit + PacketSize(n, k) = k * PacketSizeLimit
              /\ k * PacketSizeLimit < n
<1> DEFINE P == PacketSizeLimit
           c == PacketCount(n)
           b == (k - 1) * P
<1>1. P \in Nat \ {0}
  BY ConfigFacts
<1>2. c \in Nat \ {0} /\ (c - 1) * P < n /\ \A m \in 1 .. c - 1 : m * P < n
  BY PacketCountFacts
<1>3. PacketSize(n, k) = IF k = c THEN n - b ELSE P
  BY DEF PacketSize
<1> HIDE DEF P, c
<1>4. b \in Nat /\ k * P = b + P
  BY <1>1, <1>2 DEF c
<1>5. k # c => k * P < n
  BY <1>2 DEF c
<1>6. k = c => b < n
  BY <1>2
<1>7. b = (k - 1) * P
  OBVIOUS
<1> HIDE DEF b
<1>8. /\ PacketSize(n, k) \in Nat \ {0}
      /\ k = c => b + PacketSize(n, k) = n
      /\ k # c => b + PacketSize(n, k) = k * P
  BY <1>1, <1>3, <1>4, <1>6
<1>9. QED
  BY <1>4, <1>5, <1>8 DEF P, c, b

\* Identifiers tell which exchange and which packet.
LEMMA IdFacts ==
  ASSUME config \in Configurations, NEW x \in Exchanges, NEW k \in 0 .. RidOffset - 1
  PROVE  /\ x * RidOffset \in Nat /\ x * RidOffset + k \in Nat
         /\ ExchangeOf(x * RidOffset + k) = x
         /\ OrigID(x * RidOffset + k) = x * RidOffset
         /\ (x * RidOffset + k) % RidOffset = k
<1>1. RidOffset \in Nat /\ RidOffset > 2 /\ x \in Nat
  BY ConfigFacts
<1>2. k \in Nat /\ k < RidOffset
  BY <1>1
<1>3. x * RidOffset \in Nat /\ x * RidOffset + k \in Nat
  BY <1>1, <1>2
<1>4. (x * RidOffset + k) \div RidOffset = x
  BY <1>1, <1>2, DivOfSum
<1>5. (x * RidOffset + k) % RidOffset = k
  BY <1>1, <1>2, ModOfSum
<1>6. QED
  BY <1>3, <1>4, <1>5 DEF ExchangeOf, OrigID

\* The identifiers of an exchange are those up to the next one's.
LEMMA IdInRange ==
  ASSUME config \in Configurations, NEW x \in Exchanges,
         NEW i \in x * RidOffset .. x * RidOffset + RidOffset - 1
  PROVE  ExchangeOf(i) = x /\ OrigID(i) = x * RidOffset /\ i \in Nat
<1> DEFINE k == i - x * RidOffset
           b == x * RidOffset
<1>1. RidOffset \in Nat /\ RidOffset > 2 /\ b \in Nat
  BY ConfigFacts
<1>2. i \in b .. b + RidOffset - 1 /\ k = i - b
  OBVIOUS
<1> HIDE DEF b, k
<1>3. k \in 0 .. RidOffset - 1 /\ b + k = i
  BY <1>1, <1>2
<1>4. ExchangeOf(b + k) = x /\ OrigID(b + k) = b /\ b + k \in Nat
  BY <1>3, IdFacts DEF b
<1>5. QED
  BY <1>3, <1>4 DEF b

\* The identifiers of a write's data packets are those of its exchange.
LEMMA DataPacketFacts ==
  ASSUME config \in Configurations, RoomForPackets, NEW x \in Exchanges,
         NEW n \in config.sizes[x], NEW k \in 1 .. PacketCount(n)
  PROVE  /\ DataPacket(x, n, k) \in Packet
         /\ DataPacket(x, n, k).id = x * RidOffset + k
         /\ ExchangeOf(DataPacket(x, n, k).id) = x
         /\ k \in 1 .. RidOffset - 1
<1>1. RidOffset \in Nat /\ n \in Nat \ {0} /\ PacketCount(n) < RidOffset
  BY ConfigFacts DEF RoomForPackets
<1>2. PacketCount(n) \in Nat \ {0}
  BY <1>1, PacketCountFacts
<1>3. k \in 1 .. RidOffset - 1
  BY <1>1, <1>2
<1>4. k \in 0 .. RidOffset - 1
  BY <1>1, <1>3
<1>5. x * RidOffset + k \in Nat /\ ExchangeOf(x * RidOffset + k) = x
  BY <1>4, IdFacts
<1>6. (k - 1) * PacketSizeLimit \in Nat /\ PacketSize(n, k) \in Nat
  BY <1>1, PacketFacts
<1>7. DataPacket(x, n, k).id = x * RidOffset + k
  BY DEF DataPacket
<1>8. DataPacket(x, n, k) \in Packet
  BY <1>5, <1>6 DEF DataPacket, Packet, Kinds
<1>9. QED
  BY <1>3, <1>5, <1>7, <1>8

-----------------------------------------------------------------------------
(* What the operations of a queue do to the list of its jobs. *)

\* The elements of a list made of two.
LEMMA ConcatPlaces ==
  ASSUME NEW S, NEW s \in Seq(S), NEW t \in Seq(S)
  PROVE  /\ s \o t \in Seq(S)
         /\ Len(s) \in Nat /\ Len(t) \in Nat
         /\ Len(s \o t) = Len(s) + Len(t)
         /\ DOMAIN (s \o t) = 1 .. Len(s) + Len(t)
         /\ \A i \in 1 .. Len(s) + Len(t) :
              (s \o t)[i] = IF i <= Len(s) THEN s[i] ELSE t[i - Len(s)]
OBVIOUS

\* The two lists of a queue.
LEMMA QueueFields ==
  ASSUME NEW q \in Queues
  PROVE  /\ q.waitQ \in Seq(Packet) /\ q.osQ \in Seq(Packet)
         /\ q = [waitQ |-> q.waitQ, osQ |-> q.osQ]
         /\ All(q) \in Seq(Packet)
         /\ ToSet(All(q)) = ToSet(q.osQ) \cup ToSet(q.waitQ)
<1>1. q.waitQ \in Seq(Packet) /\ q.osQ \in Seq(Packet)
      /\ q = [waitQ |-> q.waitQ, osQ |-> q.osQ]
  BY DEF Queues
<1>2. QED
  BY <1>1, ConcatElements DEF All

\* What a queue holds is what its two lists hold.
LEMMA HeldIsIds ==
  ASSUME NEW q \in Queues
  PROVE  Held(q) = Ids(All(q))
BY QueueFields DEF Held, Ids

\* pushWaitQ puts the job last.
LEMMA PushedFacts ==
  ASSUME NEW q \in Queues, NEW j \in Packet
  PROVE  /\ PushedBack(q, j) \in Queues
         /\ PushedBack(q, j).osQ = q.osQ
         /\ PushedBack(q, j).waitQ = Append(q.waitQ, j)
         /\ All(PushedBack(q, j)) = Append(All(q), j)
<1> DEFINE s == q.osQ
           w == q.waitQ
<1>1. s \in Seq(Packet) /\ w \in Seq(Packet) /\ q = [waitQ |-> w, osQ |-> s]
  BY QueueFields
<1>2. PushedBack(q, j) = [q EXCEPT !.waitQ = Append(w, j)]
  BY DEF PushedBack
<1> HIDE DEF s, w
<1>6. PushedBack(q, j) = [waitQ |-> Append(w, j), osQ |-> s]
  BY <1>1, <1>2
<1>3. Append(w, j) \in Seq(Packet)
  BY <1>1
<1>4. s \o Append(w, j) = Append(s \o w, j)
  BY <1>1
<1>5. QED
  BY <1>1, <1>3, <1>4, <1>6 DEF All, s, w, Queues

\* dispatchNext moves a job from one list to the next, which changes no order.
LEMMA DispatchedFacts ==
  ASSUME NEW q \in Queues, NEW d
  PROVE  /\ DispatchedNext(q, d) \in Queues
         /\ All(DispatchedNext(q, d)) = All(q)
         /\ q.waitQ = <<>> => DispatchedNext(q, d) = q
         /\ d = 1 /\ Len(q.osQ) <= 1 =>
              /\ Len(DispatchedNext(q, d).osQ) <= 1
              /\ DispatchedNext(q, d).osQ = <<>> => DispatchedNext(q, d).waitQ = <<>>
<1> DEFINE s == q.osQ
           w == q.waitQ
           q2 == DispatchedNext(q, d)
<1>1. s \in Seq(Packet) /\ w \in Seq(Packet) /\ q = [waitQ |-> w, osQ |-> s]
  BY QueueFields
<1>2. w = <<>> => q2 = q
  BY DEF DispatchedNext, CanDispatch
<1>3. CASE ~CanDispatch(q, d)
  <2>1. q2 = q
    BY <1>3 DEF DispatchedNext
  <2>2. d = 1 /\ s = <<>> => w = <<>>
    BY <1>3 DEF CanDispatch
  <2>3. QED
    BY <1>2, <2>1, <2>2
<1>4. CASE CanDispatch(q, d)
  <2>1. q2 = [waitQ |-> Tail(w), osQ |-> Append(s, Head(w))]
    BY <1>4 DEF DispatchedNext, Dispatched
  <2>2. w # <<>> /\ (d = 1 => Len(s) < 1)
    BY <1>4 DEF CanDispatch
  <2> HIDE DEF s, w, q2
  <2>3. Head(w) \in Packet /\ Tail(w) \in Seq(Packet)
    BY <1>1, <2>2
  <2>4. Append(s, Head(w)) \in Seq(Packet) /\ Append(s, Head(w)) # <<>>
        /\ Len(Append(s, Head(w))) = Len(s) + 1
    <3>1. ASSUME NEW h \in Packet
          PROVE  Append(s, h) \in Seq(Packet) /\ Len(Append(s, h)) = Len(s) + 1
      BY <1>1
    <3>2. ASSUME NEW h \in Packet PROVE Append(s, h) # <<>>
      BY <1>1, AppendElements
    <3>3. QED
      BY <2>3, <3>1, <3>2
  <2>5. Append(s, Head(w)) \o Tail(w) = s \o w
    BY <1>1, <2>2
  <2>6. q2 \in Queues /\ All(q2) = s \o w
    BY <2>1, <2>3, <2>4, <2>5 DEF Queues, All
  <2>7. d = 1 => Len(q2.osQ) <= 1
    <3>1. Len(s) \in Nat
      BY <1>1
    <3>2. q2.osQ = Append(s, Head(w))
      BY <2>1
    <3>3. QED
      BY <2>2, <2>4, <3>1, <3>2
  <2>8. q2.osQ # <<>>
    BY <2>1, <2>4
  <2>9. QED
    BY <1>2, <2>6, <2>7, <2>8 DEF All, s, w, q2
<1>5. QED
  BY <1>3, <1>4

\* What SelectInSeq finds is the first job of the identifier.
LEMMA PositionFacts ==
  ASSUME NEW q \in Queues, NEW id
  PROVE  \/ Position(q, id) = 0 /\ \A i \in DOMAIN q.osQ : q.osQ[i].id # id
         \/ Position(q, id) \in DOMAIN q.osQ /\ q.osQ[Position(q, id)].id = id
            /\ Position(q, id) # 0
<1> DEFINE s == q.osQ
           n == Len(s)
           I == {i \in 1 .. n : s[i].id = id}
           k == Position(q, id)
<1>1. s \in Seq(Packet) /\ n \in Nat /\ DOMAIN s = 1 .. n
  BY QueueFields
<1>2. k = IF I # {} THEN Min(I) ELSE 0
  BY Zenon DEF Position, SelectInSeq
<1>3. I \in SUBSET (1 .. n)
  OBVIOUS
<1> HIDE DEF I, k
<1>4. \/ k = 0 /\ I = {}
      \/ k \in I /\ \A i \in 1 .. k - 1 : i \in 1 .. n /\ i \notin I
  BY <1>1, <1>2, <1>3, FirstOfKind
<1>5. QED
  BY <1>1, <1>4 DEF I, k

\* A job is outstanding if osQ has its identifier.
LEMMA OutstandingFacts ==
  ASSUME NEW q \in Queues, NEW id
  PROVE  IsOutstanding(q, id) <=> \E i \in DOMAIN q.osQ : q.osQ[i].id = id
BY PositionFacts DEF IsOutstanding

\* popOsQ takes one job with the identifier out of osQ.
LEMMA PoppedFacts ==
  ASSUME NEW q \in Queues, NEW id, \E i \in DOMAIN q.osQ : q.osQ[i].id = id
  PROVE  \E p \in DOMAIN q.osQ :
           /\ q.osQ[p].id = id
           /\ Popped(q, id) = [waitQ |-> q.waitQ, osQ |-> RemoveAt(q.osQ, p)]
<1> DEFINE p == Position(q, id)
<1>1. p \in DOMAIN q.osQ /\ q.osQ[p].id = id /\ p # 0
  BY PositionFacts
<1>2. q = [waitQ |-> q.waitQ, osQ |-> q.osQ]
  BY QueueFields
<1>3. Popped(q, id) = [q EXCEPT !.osQ = RemoveAt(q.osQ, p)]
  BY <1>1 DEF Popped, IsOutstanding
<1>4. Popped(q, id) = [waitQ |-> q.waitQ, osQ |-> RemoveAt(q.osQ, p)]
  BY <1>2, <1>3
<1>5. QED
  BY <1>1, <1>4

\* One more identifier.
LEMMA IdsPushed ==
  ASSUME NEW s \in Seq(Packet), NEW j \in Packet
  PROVE  /\ Append(s, j) \in Seq(Packet)
         /\ Ids(Append(s, j)) = Ids(s) \cup {j.id}
         /\ OneEach(s) /\ j.id \notin Ids(s) => OneEach(Append(s, j))
<1> DEFINE t == Append(s, j)
<1>1. t \in Seq(Packet) /\ ToSet(t) = ToSet(s) \cup {j}
  BY AppendElements
<1>2. Len(s) \in Nat /\ DOMAIN s = 1 .. Len(s) /\ DOMAIN t = 1 .. Len(s) + 1
      /\ \A i \in 1 .. Len(s) : t[i] = s[i]
  OBVIOUS
<1>3. t[Len(s) + 1] = j
  OBVIOUS
<1> HIDE DEF t
<1>4. Ids(t) = Ids(s) \cup {j.id}
  BY <1>1 DEF Ids
<1>5. ASSUME OneEach(s), j.id \notin Ids(s), NEW i \in DOMAIN t, NEW k \in DOMAIN t,
             t[i].id = t[k].id
      PROVE  i = k
  <2>1. \A m \in 1 .. Len(s) : t[m].id # j.id
    BY <1>2, <1>5 DEF Ids, ToSet
  <2>2. CASE i = Len(s) + 1
    BY <1>2, <1>3, <1>5, <2>1, <2>2
  <2>3. CASE k = Len(s) + 1
    BY <1>2, <1>3, <1>5, <2>1, <2>3
  <2>4. CASE i \in 1 .. Len(s) /\ k \in 1 .. Len(s)
    BY <1>2, <1>5, <2>4 DEF OneEach
  <2>5. QED
    BY <1>2, <1>5, <2>2, <2>3, <2>4
<1>6. OneEach(s) /\ j.id \notin Ids(s) => OneEach(t)
  BY <1>5 DEF OneEach
<1>7. QED
  BY <1>1, <1>4, <1>6 DEF t

\* One identifier less.
LEMMA IdsRemoved ==
  ASSUME NEW s \in Seq(Packet), OneEach(s), NEW k \in DOMAIN s
  PROVE  /\ RemoveAt(s, k) \in Seq(Packet)
         /\ Ids(RemoveAt(s, k)) = Ids(s) \ {s[k].id}
         /\ OneEach(RemoveAt(s, k))
<1> DEFINE t == RemoveAt(s, k)
           n == Len(s)
<1>1. /\ t \in Seq(Packet) /\ Len(t) = n - 1
      /\ \A i \in 1 .. n - 1 : t[i] = IF i < k THEN s[i] ELSE s[i+1]
  BY RemoveAtElements
<1>2. n \in Nat /\ DOMAIN s = 1 .. n /\ k \in 1 .. n
  OBVIOUS
<1>3. DOMAIN t = 1 .. n - 1
  BY <1>1
<1> HIDE DEF t, n
<1>4. ASSUME NEW id \in Ids(t) PROVE id \in Ids(s) /\ id # s[k].id
  <2>1. PICK i \in 1 .. n - 1 : id = t[i].id
    BY <1>3, <1>4 DEF Ids, ToSet
  <2>2. PICK m \in 1 .. n : t[i] = s[m] /\ m # k
    <3>1. CASE i < k
      BY <1>1, <1>2, <2>1, <3>1
    <3>2. CASE ~(i < k)
      <4>1. t[i] = s[i+1] /\ i + 1 \in 1 .. n /\ i + 1 # k
        BY <1>1, <1>2, <2>1, <3>2
      <4>2. QED
        BY <4>1
    <3>3. QED
      BY <3>1, <3>2
  <2>3. QED
    BY <1>2, <2>1, <2>2 DEF Ids, ToSet, OneEach
<1>5. ASSUME NEW id \in Ids(s), id # s[k].id PROVE id \in Ids(t)
  <2>1. PICK m \in 1 .. n : id = s[m].id
    BY <1>2, <1>5 DEF Ids, ToSet
  <2>2. m # k
    BY <1>5, <2>1
  <2>3. \E i \in 1 .. n - 1 : t[i] = s[m]
    <3>1. CASE m < k
      BY <1>1, <1>2, <2>1, <3>1
    <3>2. CASE m > k
      <4>1. m - 1 \in 1 .. n - 1 /\ t[m-1] = s[m-1+1] /\ m - 1 + 1 = m
        BY <1>1, <1>2, <2>1, <3>2
      <4>2. QED
        BY <4>1
    <3>3. QED
      BY <1>2, <2>1, <2>2, <3>1, <3>2
  <2>4. QED
    BY <1>3, <2>1, <2>3 DEF Ids, ToSet
<1>6. ASSUME NEW i \in 1 .. n - 1, NEW m \in 1 .. n - 1, t[i].id = t[m].id PROVE i = m
  <2> DEFINE f(a) == IF a < k THEN a ELSE a + 1
  <2>1. \A a \in 1 .. n - 1 : f(a) \in 1 .. n /\ t[a] = s[f(a)]
    BY <1>1, <1>2
  <2>2. f(i) = f(m)
    <3> HIDE DEF f
    <3> QED
      BY <1>2, <1>6, <2>1 DEF OneEach
  <2>3. QED
    BY <1>2, <2>2
<1>7. Ids(t) = Ids(s) \ {s[k].id} /\ OneEach(t)
  BY <1>3, <1>4, <1>5, <1>6 DEF OneEach
<1>8. QED
  BY <1>1, <1>7 DEF t

\* Removing from the first of two lists.
LEMMA RemovedFromFirst ==
  ASSUME NEW S, NEW s \in Seq(S), NEW w \in Seq(S), NEW k \in DOMAIN s
  PROVE  RemoveAt(s, k) \o w = RemoveAt(s \o w, k) /\ k \in DOMAIN (s \o w)
         /\ (s \o w)[k] = s[k]
<1> DEFINE t == RemoveAt(s, k)
           a == s \o w
           b == RemoveAt(a, k)
           n == Len(s)
           m == Len(w)
<1>1. /\ t \in Seq(S) /\ Len(t) = n - 1
      /\ \A i \in 1 .. n - 1 : t[i] = IF i < k THEN s[i] ELSE s[i+1]
  BY RemoveAtElements
<1>2. /\ a \in Seq(S) /\ n \in Nat /\ m \in Nat /\ Len(a) = n + m
      /\ \A i \in 1 .. n + m : a[i] = IF i <= n THEN s[i] ELSE w[i - n]
  BY ConcatPlaces
<1>3. k \in 1 .. n /\ k \in DOMAIN a /\ a[k] = s[k]
  BY <1>2
<1> HIDE DEF t, a, n, m
<1>10. /\ b \in Seq(S) /\ Len(b) = Len(a) - 1
       /\ \A i \in 1 .. Len(a) - 1 : b[i] = IF i < k THEN a[i] ELSE a[i+1]
  BY <1>2, <1>3, RemoveAtElements
<1> HIDE DEF b
<1>4. /\ b \in Seq(S) /\ Len(b) = n + m - 1
      /\ \A i \in 1 .. n + m - 1 : b[i] = IF i < k THEN a[i] ELSE a[i+1]
  BY <1>2, <1>10
<1>5. /\ t \o w \in Seq(S) /\ Len(t \o w) = n - 1 + m
      /\ \A i \in 1 .. n - 1 + m : (t \o w)[i] = IF i <= n - 1 THEN t[i] ELSE w[i - (n - 1)]
  BY <1>1, ConcatPlaces DEF m
<1> DEFINE c == t \o w
<1>6. c \in Seq(S) /\ Len(c) = n - 1 + m
      /\ \A i \in 1 .. n - 1 + m : c[i] = IF i <= n - 1 THEN t[i] ELSE w[i - (n - 1)]
  BY <1>5
<1> HIDE DEF c
<1>7. ASSUME NEW i \in 1 .. n + m - 1 PROVE c[i] = b[i]
  <2>1. CASE i < k
    <3>1. c[i] = t[i] /\ t[i] = s[i]
      BY <1>1, <1>2, <1>3, <1>6, <2>1
    <3>2. b[i] = a[i] /\ a[i] = s[i]
      BY <1>2, <1>3, <1>4, <2>1
    <3>3. QED
      BY <3>1, <3>2
  <2>2. CASE k <= i /\ i <= n - 1
    <3>1. c[i] = t[i] /\ t[i] = s[i+1]
      BY <1>1, <1>2, <1>3, <1>6, <2>2
    <3>2. b[i] = a[i+1] /\ a[i+1] = s[i+1]
      BY <1>2, <1>3, <1>4, <2>2
    <3>3. QED
      BY <3>1, <3>2
  <2>3. CASE n - 1 < i
    <3>1. c[i] = w[i - (n - 1)]
      BY <1>2, <1>6, <2>3
    <3>2. b[i] = a[i+1] /\ a[i+1] = w[i + 1 - n]
      BY <1>2, <1>3, <1>4, <2>3
    <3>3. i + 1 - n = i - (n - 1)
      BY <1>2
    <3>4. QED
      BY <3>1, <3>2, <3>3
  <2>4. QED
    BY <1>2, <1>3, <2>1, <2>2, <2>3
<1>8. c = b
  BY <1>2, <1>4, <1>6, <1>7
<1>9. QED
  BY <1>3, <1>8 DEF c, b, a, t

\* A request is popped.
LEMMA RequestLeaves ==
  ASSUME NEW q \in Queues, OneEach(All(q)), NEW id, IsOutstanding(q, id)
  PROVE  /\ Popped(q, id) \in Queues
         /\ Popped(q, id).waitQ = q.waitQ
         /\ Ids(All(Popped(q, id))) = Ids(All(q)) \ {id}
         /\ OneEach(All(Popped(q, id)))
<1>1. q.waitQ \in Seq(Packet) /\ q.osQ \in Seq(Packet) /\ All(q) \in Seq(Packet)
  BY QueueFields
<1>2. PICK p \in DOMAIN q.osQ :
        q.osQ[p].id = id /\ Popped(q, id) = [waitQ |-> q.waitQ, osQ |-> RemoveAt(q.osQ, p)]
  BY OutstandingFacts, PoppedFacts
<1>3. RemoveAt(q.osQ, p) \in Seq(Packet)
  BY <1>1, RemoveAtElements
<1>4. /\ RemoveAt(q.osQ, p) \o q.waitQ = RemoveAt(All(q), p) /\ p \in DOMAIN All(q)
      /\ All(q)[p] = q.osQ[p]
  BY <1>1, RemovedFromFirst DEF All
<1>5. All(Popped(q, id)) = RemoveAt(All(q), p)
  <2>1. Popped(q, id).waitQ = q.waitQ /\ Popped(q, id).osQ = RemoveAt(q.osQ, p)
    BY <1>2
  <2>2. All(Popped(q, id)) = RemoveAt(q.osQ, p) \o q.waitQ
    BY <2>1, Zenon DEF All
  <2>3. QED
    BY <1>4, <2>2
<1>6. Popped(q, id) \in Queues /\ Popped(q, id).waitQ = q.waitQ
  BY <1>1, <1>2, <1>3 DEF Queues
<1>7. Ids(RemoveAt(All(q), p)) = Ids(All(q)) \ {id} /\ OneEach(RemoveAt(All(q), p))
  BY <1>1, <1>2, <1>4, IdsRemoved
<1>8. QED
  BY <1>5, <1>6, <1>7

\* What the file system worked on is popped.
LEMMA JobLeaves ==
  ASSUME NEW q \in Queues, Len(q.osQ) <= 1, NEW job \in ToSet(q.osQ)
  PROVE  /\ Popped(q, job.id) \in Queues
         /\ All(Popped(q, job.id)) = Tail(All(q))
         /\ Len(Popped(q, job.id).osQ) <= 1
         /\ All(q) # <<>> /\ Head(All(q)) = job
<1> DEFINE s == q.osQ
           w == q.waitQ
           id == job.id
<1>1. w \in Seq(Packet) /\ s \in Seq(Packet) /\ Len(s) \in Nat /\ Len(s) <= 1
  BY QueueFields
<1>2. PICK i \in DOMAIN s : s[i] = job
  BY DEF ToSet
<1>3. PICK p \in DOMAIN s :
        s[p].id = id /\ Popped(q, id) = [waitQ |-> w, osQ |-> RemoveAt(s, p)]
  BY <1>2, PoppedFacts
<1>4. DOMAIN s = 1 .. Len(s)
  BY <1>1
<1> DEFINE r == RemoveAt(s, p)
<1>5. r \in Seq(Packet) /\ Len(r) = Len(s) - 1
  BY <1>1, RemoveAtElements
<1>7. Popped(q, id) = [waitQ |-> w, osQ |-> r]
  BY <1>3
<1> HIDE DEF r, s, w, id
<1>6. p = 1 /\ i = 1 /\ Len(s) = 1
  BY <1>1, <1>4
<1>8. r = <<>>
  BY <1>5, <1>6
<1>9. s \o w # <<>> /\ Head(s \o w) = s[1] /\ Tail(s \o w) = w
  <2>1. s = <<s[1]>>
    BY <1>1, <1>6
  <2>2. ASSUME NEW a \in Packet
        PROVE  <<a>> \o w # <<>> /\ Head(<<a>> \o w) = a /\ Tail(<<a>> \o w) = w
    BY <1>1
  <2>3. s[1] \in Packet
    <3>1. \A k \in 1 .. Len(s) : s[k] \in Packet
      BY <1>1
    <3>2. 1 \in 1 .. Len(s)
      BY <1>6
    <3>3. QED
      BY <3>1, <3>2
  <2>4. QED
    BY <2>1, <2>2, <2>3
<1>10. <<>> \o w = w
  BY <1>1
<1>11. Popped(q, id).waitQ = w /\ Popped(q, id).osQ = <<>>
  BY <1>7, <1>8
<1>12. Popped(q, id) \in Queues
  BY <1>1, <1>7, <1>5 DEF Queues
<1>13. All(Popped(q, id)) = w
  BY <1>10, <1>11 DEF All
<1>14. Len(Popped(q, id).osQ) <= 1
  BY <1>11
<1>15. All(q) # <<>> /\ Head(All(q)) = job /\ All(Popped(q, id)) = Tail(All(q))
  BY <1>2, <1>6, <1>9, <1>13 DEF All, s, w
<1>16. QED
  BY <1>12, <1>14, <1>15 DEF id

-----------------------------------------------------------------------------
(* The packets that answer a read, and what is written of a write. *)

\* Where a packet ends.
LEMMA EndInNat ==
  ASSUME NEW p, p.loff \in Nat, p.size \in Nat
  PROVE  EndOf(p) = p.loff + p.size /\ EndOf(p) \in Nat
BY DEF EndOf

\* The packets of a sub-request begin and end with it, without a gap, and only the
\* last one may say that it is the last.
LEMMA ReadDataRespFacts ==
  ASSUME config \in Configurations, NEW job, job.loff \in Nat, job.size \in Nat \ {0},
         NEW kind \in {"PFS_R_DATA", "PFS_R_DATA_LAST"},
         NEW r, r = ReadDataResp(job, kind), NEW n, n = PacketCount(job.size)
  PROVE  /\ r \in Seq(Packets) /\ n \in Nat \ {0} /\ Len(r) = n
         /\ r[1].loff = job.loff
         /\ \A k \in 2 .. n : r[k].loff = EndOf(r[k-1])
         /\ \A k \in 1 .. n - 1 : EndOf(r[k]) < EndOf(job) /\ r[k].kind = "PFS_R_DATA"
         /\ EndOf(r[n]) = EndOf(job) /\ r[n].kind = kind
<1> DEFINE size == job.size
           b(k) == (k - 1) * PacketSizeLimit
           s(k) == PacketSize(size, k)
<1>1. n \in Nat \ {0} /\ size \in Nat \ {0} /\ PacketSizeLimit \in Nat \ {0}
  BY PacketCountFacts, ConfigFacts
<1>2. ASSUME NEW k \in 1 .. n
      PROVE  /\ b(k) \in Nat /\ s(k) \in Nat \ {0}
             /\ k = n => b(k) + s(k) = size
             /\ k # n => b(k) + s(k) = b(k + 1) /\ b(k + 1) < size
  <2>1. k \in 1 .. PacketCount(size)
    OBVIOUS
  <2>2. k + 1 - 1 = k
    BY <1>1
  <2>3. QED
    BY <1>1, <2>1, <2>2, PacketFacts
<1>3. r = [k \in 1 .. n |-> [kind |-> IF k = n THEN kind ELSE "PFS_R_DATA",
                             loff |-> job.loff + b(k), size |-> s(k)]]
  BY DEF ReadDataResp
<1>4. b(1) = 0
  BY <1>1
<1> HIDE DEF b, s, size
<1>5. ASSUME NEW k \in 1 .. n
      PROVE  /\ r[k] \in Packets
             /\ r[k].loff = job.loff + b(k) /\ r[k].size = s(k)
             /\ EndOf(r[k]) = job.loff + (b(k) + s(k))
             /\ r[k].kind = IF k = n THEN kind ELSE "PFS_R_DATA"
  <2>1. r[k] = [kind |-> IF k = n THEN kind ELSE "PFS_R_DATA",
                loff |-> job.loff + b(k), size |-> s(k)]
    BY <1>3
  <2>2. b(k) \in Nat /\ s(k) \in Nat
    BY <1>2
  <2>3. r[k].loff = job.loff + b(k) /\ r[k].size = s(k)
        /\ r[k].kind = IF k = n THEN kind ELSE "PFS_R_DATA"
    BY <2>1
  <2>4. job.loff + b(k) \in Nat
    BY <2>2
  <2>5. r[k] \in Packets
    BY <2>1, <2>2, <2>4 DEF Packets, Answers
  <2>6. EndOf(r[k]) = job.loff + (b(k) + s(k))
    BY <2>2, <2>3 DEF EndOf
  <2>7. QED
    BY <2>3, <2>5, <2>6
<1>6. r \in Seq(Packets) /\ Len(r) = n
  BY <1>1, <1>3, <1>5
<1>7. 1 \in 1 .. n /\ n \in 1 .. n
  BY <1>1
<1>8. r[1].loff = job.loff
  BY <1>4, <1>5, <1>7
<1>9. EndOf(job) = job.loff + size /\ size \in Nat
  BY <1>1 DEF EndOf, size
<1>10. ASSUME NEW k \in 2 .. n PROVE r[k].loff = EndOf(r[k-1])
  <2>1. k - 1 \in 1 .. n /\ k - 1 # n /\ k \in 1 .. n /\ k - 1 + 1 = k
    BY <1>1
  <2>2. b(k-1) + s(k-1) = b(k)
    BY <1>2, <2>1
  <2>3. EndOf(r[k-1]) = job.loff + (b(k-1) + s(k-1)) /\ r[k].loff = job.loff + b(k)
    BY <1>5, <2>1
  <2>4. QED
    BY <2>2, <2>3
<1>11. ASSUME NEW k \in 1 .. n - 1
       PROVE  EndOf(r[k]) < EndOf(job) /\ r[k].kind = "PFS_R_DATA"
  <2>1. k \in 1 .. n /\ k # n /\ k + 1 \in 1 .. n
    BY <1>1
  <2>2. b(k) + s(k) = b(k+1) /\ b(k+1) < size /\ b(k+1) \in Nat
    BY <1>2, <2>1
  <2>3. EndOf(r[k]) = job.loff + (b(k) + s(k)) /\ r[k].kind = "PFS_R_DATA"
    BY <1>5, <2>1
  <2>4. QED
    BY <1>9, <2>2, <2>3
<1>12. EndOf(r[n]) = EndOf(job) /\ r[n].kind = kind
  BY <1>2, <1>5, <1>7, <1>9
<1>13. QED
  BY <1>1, <1>6, <1>8, <1>10, <1>11, <1>12

\* A sub-request that goes on where a read of so many bytes stopped, and the kind of its
\* last packet.
GoesOn(job, rs, total) ==
  /\ Contiguous(rs)
  /\ \A k \in DOMAIN rs : rs[k].kind = "PFS_R_DATA_LAST" <=> EndOf(rs[k]) = total
  /\ job.loff = Reached(rs) /\ job.loff \in Nat /\ job.size \in Nat \ {0}
  /\ EndOf(job) <= total

\* The packets that went back then.
ReadUpTo(rs, end, total) ==
  /\ rs \in Seq(Packets) /\ rs # <<>>
  /\ Contiguous(rs) /\ Reached(rs) = end
  /\ \A k \in DOMAIN rs : rs[k].kind = "PFS_R_DATA_LAST" <=> EndOf(rs[k]) = total

KindAt(job, total) == IF EndOf(job) = total THEN "PFS_R_DATA_LAST" ELSE "PFS_R_DATA"

\* A read that has come back up to the job's beginning has come back up to its end.
LEMMA ReadContinues ==
  ASSUME config \in Configurations, NEW rs \in Seq(Packets), NEW total \in Nat,
         NEW job, GoesOn(job, rs, total)
  PROVE  ReadUpTo(rs \o ReadDataResp(job, KindAt(job, total)), EndOf(job), total)
<1> DEFINE kind == KindAt(job, total)
           r == ReadDataResp(job, kind)
           t == rs \o r
           n == PacketCount(job.size)
           m == Len(rs)
<1>1. /\ Contiguous(rs)
      /\ \A k \in DOMAIN rs : rs[k].kind = "PFS_R_DATA_LAST" <=> EndOf(rs[k]) = total
      /\ job.loff = Reached(rs) /\ job.loff \in Nat /\ job.size \in Nat \ {0}
      /\ EndOf(job) <= total
  BY DEF GoesOn
<1>2. kind = IF EndOf(job) = total THEN "PFS_R_DATA_LAST" ELSE "PFS_R_DATA"
  BY DEF KindAt
<1> HIDE DEF kind
<1>3. /\ r \in Seq(Packets) /\ n \in Nat \ {0} /\ Len(r) = n
      /\ r[1].loff = job.loff
      /\ \A k \in 2 .. n : r[k].loff = EndOf(r[k-1])
      /\ \A k \in 1 .. n - 1 : EndOf(r[k]) < EndOf(job) /\ r[k].kind = "PFS_R_DATA"
      /\ EndOf(r[n]) = EndOf(job) /\ r[n].kind = kind
  BY <1>1, <1>2, ReadDataRespFacts
<1>4. t = rs \o r
  OBVIOUS
<1>5. EndOf(job) \in Nat
  BY <1>1, EndInNat
<1> HIDE DEF r, n, t
<1>6. /\ t \in Seq(Packets) /\ m \in Nat /\ Len(t) = m + n /\ DOMAIN t = 1 .. m + n
      /\ \A i \in 1 .. m + n : t[i] = IF i <= m THEN rs[i] ELSE r[i - m]
  <2>1. /\ rs \o r \in Seq(Packets) /\ Len(rs) \in Nat
        /\ Len(rs \o r) = Len(rs) + Len(r)
        /\ DOMAIN (rs \o r) = 1 .. Len(rs) + Len(r)
        /\ \A i \in 1 .. Len(rs) + Len(r) :
             (rs \o r)[i] = IF i <= Len(rs) THEN rs[i] ELSE r[i - Len(rs)]
    BY <1>3, ConcatPlaces
  <2>2. QED
    BY <1>3, <1>4, <2>1, Zenon
<1>7. DOMAIN rs = 1 .. m
  OBVIOUS
<1>8. rs # <<>> => job.loff = EndOf(rs[m])
  BY <1>1 DEF Reached, Last
<1>9. rs = <<>> => job.loff = 0 /\ m = 0
  BY <1>1 DEF Reached
<1>10. rs # <<>> => m \in 1 .. m
  BY <1>6
<1> HIDE DEF m
<1>11. t # <<>> /\ t[Len(t)] = r[n]
  <2>1. m + n \in 1 .. m + n /\ ~(m + n <= m) /\ m + n - m = n
    BY <1>3, <1>6
  <2>2. t[m + n] = r[n]
    <3>1. ASSUME NEW k \in 1 .. m + n, k = m + n PROVE t[k] = r[n]
      <4>1. ~(k <= m) /\ k - m = n
        BY <1>3, <1>6, <3>1
      <4>2. QED
        BY <1>6, <4>1
    <3>2. QED
      BY <2>1, <3>1
  <2>3. Len(t) # Len(<<>>)
    BY <1>3, <1>6
  <2>4. t # <<>>
    BY <2>3, Zenon
  <2>5. QED
    BY <1>6, <2>2, <2>4
<1>12. Reached(t) = EndOf(job)
  BY <1>3, <1>11, Zenon DEF Reached, Last
<1>13. ASSUME NEW k \in 1 .. m + n
       PROVE  t[k].loff = IF k = 1 THEN 0 ELSE EndOf(t[k-1])
  <2>1. CASE k <= m
    <3>1. k \in DOMAIN rs /\ t[k] = rs[k]
      BY <1>3, <1>6, <1>7, <2>1
    <3>2. k # 1 => t[k-1] = rs[k-1]
      <4>1. k # 1 => k - 1 \in 1 .. m + n /\ k - 1 <= m
        BY <1>3, <1>6, <2>1
      <4>2. QED
        BY <1>6, <4>1
    <3>3. rs[k].loff = IF k = 1 THEN 0 ELSE EndOf(rs[k-1])
      BY <1>1, <3>1 DEF Contiguous
    <3>4. QED
      BY <3>1, <3>2, <3>3
  <2>2. CASE k = m + 1
    <3>1. ~(k <= m) /\ k - m = 1
      BY <1>6, <2>2
    <3>2. t[k] = r[1]
      BY <1>6, <3>1
    <3>3. CASE rs = <<>>
      <4>1. k = 1
        BY <1>9, <2>2, <3>3
      <4>2. QED
        BY <1>3, <1>9, <3>2, <3>3, <4>1
    <3>4. CASE rs # <<>>
      <4>1. m \in 1 .. m + n /\ m <= m /\ k - 1 = m /\ k # 1
        BY <1>3, <1>6, <1>10, <2>2, <3>4
      <4>2. t[m] = rs[m]
        BY <1>6, <4>1
      <4>3. t[k].loff = EndOf(rs[m])
        BY <1>3, <1>8, <3>2, <3>4, Zenon
      <4>4. t[k-1] = t[m]
        BY <4>1, Zenon
      <4>5. QED
        BY <4>1, <4>2, <4>3, <4>4, Zenon
    <3>5. QED
      BY <3>3, <3>4
  <2>3. CASE k > m + 1
    <3>1. /\ k - 1 \in 1 .. m + n /\ ~(k <= m) /\ ~(k - 1 <= m) /\ k # 1
          /\ k - m \in 2 .. n /\ k - 1 - m = k - m - 1
      BY <1>3, <1>6, <2>3
    <3>2. t[k] = r[k - m] /\ t[k-1] = r[k - m - 1]
      BY <1>6, <3>1
    <3>3. r[k - m].loff = EndOf(r[k - m - 1])
      BY <1>3, <3>1
    <3>4. QED
      BY <3>1, <3>2, <3>3
  <2>4. k <= m \/ k = m + 1 \/ k > m + 1
    BY <1>3, <1>6
  <2>5. QED
    BY <2>1, <2>2, <2>3, <2>4, Zenon
<1>14. ASSUME NEW k \in 1 .. m + n
       PROVE  t[k].kind = "PFS_R_DATA_LAST" <=> EndOf(t[k]) = total
  <2>1. CASE k <= m
    <3>1. k \in DOMAIN rs /\ t[k] = rs[k]
      BY <1>3, <1>6, <1>7, <2>1
    <3>2. QED
      BY <1>1, <3>1
  <2>2. CASE k = m + n
    <3>1. ~(k <= m) /\ k - m = n
      BY <1>3, <1>6, <2>2
    <3>2. t[k] = r[n]
      BY <1>6, <3>1
    <3>3. QED
      BY <1>2, <1>3, <3>2
  <2>3. CASE k > m /\ k # m + n
    <3>1. ~(k <= m) /\ k - m \in 1 .. n - 1
      BY <1>3, <1>6, <2>3
    <3>2. t[k] = r[k - m]
      BY <1>6, <3>1
    <3> DEFINE a == EndOf(r[k-m])
    <3>3. a < EndOf(job) /\ r[k-m].kind = "PFS_R_DATA"
      BY <1>3, <3>1
    <3>4. a \in Nat
      <4>1. k - m \in 1 .. Len(r)
        BY <1>3, <3>1
      <4>2. r[k-m] \in Packets
        BY <1>3, <4>1
      <4>3. QED
        BY <4>2 DEF Packets, EndOf
    <3> HIDE DEF a
    <3>5. a # total
      BY <1>1, <1>5, <3>3, <3>4
    <3>6. QED
      BY <3>2, <3>3, <3>5 DEF a
  <2>4. QED
    BY <1>6, <2>1, <2>2, <2>3
<1>15. Contiguous(t)
  BY <1>6, <1>13 DEF Contiguous
<1>16. ReadUpTo(t, EndOf(job), total)
  BY <1>6, <1>11, <1>12, <1>14, <1>15 DEF ReadUpTo
<1>17. QED
  BY <1>16 DEF t, r, kind

\* Data packets written in order make a write, and all of it when they are all there.
LEMMA WrittenFacts ==
  ASSUME config \in Configurations, NEW n \in Nat \ {0}, NEW ws \in Seq(Spans),
         Len(ws) <= PacketCount(n),
         \A k \in DOMAIN ws :
           ws[k] = [loff |-> (k-1) * PacketSizeLimit, size |-> PacketSize(n, k)]
  PROVE  Contiguous(ws) /\ (Reached(ws) = n <=> Len(ws) = PacketCount(n))
<1> DEFINE c == PacketCount(n)
           m == Len(ws)
           b(k) == (k - 1) * PacketSizeLimit
           s(k) == PacketSize(n, k)
<1>1. c \in Nat \ {0} /\ m \in Nat /\ DOMAIN ws = 1 .. m /\ m <= c
      /\ PacketSizeLimit \in Nat \ {0}
  BY PacketCountFacts, ConfigFacts
<1>2. ASSUME NEW k \in 1 .. m
      PROVE  /\ ws[k].loff = b(k)
             /\ EndOf(ws[k]) = b(k) + s(k)
             /\ k = c => b(k) + s(k) = n
             /\ k # c => b(k) + s(k) = b(k + 1) /\ b(k + 1) # n
  <2>1. k \in 1 .. c
    BY <1>1
  <2>2. /\ b(k) \in Nat /\ s(k) \in Nat
        /\ k = c => b(k) + s(k) = n
        /\ k # c => b(k) + s(k) = k * PacketSizeLimit /\ k * PacketSizeLimit < n
    BY <2>1, PacketFacts
  <2>3. k + 1 - 1 = k /\ k * PacketSizeLimit \in Nat
    BY <1>1
  <2>4. ws[k] = [loff |-> b(k), size |-> s(k)]
    BY <1>1
  <2>5. ws[k].loff = b(k) /\ ws[k].size = s(k)
    BY <2>4
  <2>6. EndOf(ws[k]) = b(k) + s(k)
    BY <2>5 DEF EndOf
  <2> HIDE DEF s, c
  <2>7. k # c => b(k) + s(k) = b(k + 1) /\ b(k + 1) # n
    BY <2>2, <2>3
  <2>8. QED
    BY <2>2, <2>5, <2>6, <2>7
<1>3. b(1) = 0
  BY <1>1
<1> HIDE DEF c, b, s
<1>4. Contiguous(ws)
  <2>1. ASSUME NEW k \in 1 .. m PROVE ws[k].loff = IF k = 1 THEN 0 ELSE EndOf(ws[k-1])
    <3>1. CASE k = 1
      BY <1>2, <1>3, <3>1
    <3>2. CASE k # 1
      <4>1. k - 1 \in 1 .. m /\ k - 1 # c /\ k - 1 + 1 = k
        BY <1>1, <3>2
      <4>2. QED
        BY <1>2, <3>2, <4>1
    <3>3. QED
      BY <3>1, <3>2
  <2>2. QED
    BY <1>1, <2>1 DEF Contiguous
<1>5. CASE ws = <<>>
  <2>1. Reached(ws) = 0 /\ m = 0
    BY <1>5 DEF Reached
  <2>2. QED
    BY <1>1, <1>4, <2>1 DEF c
<1>6. CASE ws # <<>>
  <2>1. m \in 1 .. m
    BY <1>1, <1>6
  <2>2. Reached(ws) = EndOf(ws[m])
    BY <1>6 DEF Reached, Last
  <2>3. QED
    BY <1>2, <1>4, <2>1, <2>2 DEF c
<1>7. QED
  BY <1>5, <1>6

-----------------------------------------------------------------------------
(* What the invariant says of one exchange and of one job. *)

\* The packets of a granted write that are not written are packets of the write.
LEMMA PendingFacts ==
  ASSUME config \in Configurations, NEW x \in Exchanges, NEW e \in Asking,
         e.size \in config.sizes[x], NEW rs, NEW ws \in Seq(Spans),
         History(e, rs, ws), ~e.read, rs # <<>>
  PROVE  /\ e.size \in Nat \ {0} /\ PacketCount(e.size) \in Nat \ {0}
         /\ Len(ws) \in Nat /\ e.toCome \in Nat
         /\ e.toCome <= PacketCount(e.size) /\ Len(ws) <= PacketCount(e.size) - e.toCome
         /\ Pending(e, ws) \subseteq 1 .. PacketCount(e.size)
<1> DEFINE n == PacketCount(e.size)
           m == Len(ws)
<1>1. e.size \in Nat \ {0}
  BY ConfigFacts
<1>2. n \in Nat \ {0}
  BY <1>1, PacketCountFacts
<1>3. m \in Nat /\ e.toCome \in Nat
  BY DEF Asking
<1>4. e.toCome <= n /\ m <= n - e.toCome
  BY DEF History
<1>5. Pending(e, ws) = m + 1 .. n - e.toCome
  BY DEF Pending
<1> HIDE DEF n, m
<1>6. Pending(e, ws) \subseteq 1 .. n
  BY <1>2, <1>3, <1>4, <1>5
<1>7. QED
  BY <1>1, <1>2, <1>3, <1>4, <1>6 DEF n, m

\* The identifier of the request of an exchange.
LEMMA BaseFacts ==
  ASSUME config \in Configurations, NEW x \in Exchanges
  PROVE  /\ x * RidOffset \in Nat /\ ExchangeOf(x * RidOffset) = x
         /\ x * RidOffset \in x * RidOffset .. x * RidOffset + RidOffset - 1
         /\ OrigID(x * RidOffset) = x * RidOffset
<1> DEFINE b == x * RidOffset
<1>1. RidOffset \in Nat /\ RidOffset > 2
  BY ConfigFacts
<1>2. 0 \in 0 .. RidOffset - 1
  BY <1>1
<1>3. b \in Nat /\ ExchangeOf(b + 0) = x /\ OrigID(b + 0) = b
  BY <1>2, IdFacts
<1> HIDE DEF b
<1>4. b + 0 = b /\ b \in b .. b + RidOffset - 1
  BY <1>1, <1>3
<1>5. QED
  BY <1>3, <1>4 DEF b

\* A job belongs to a request of its exchange that has a record.
LEMMA JobFacts ==
  ASSUME config \in Configurations, NEW j \in Packet, NEW x \in Exchanges,
         x = ExchangeOf(j.id), NEW e \in Asking, NEW rs, NEW ws, NEW im,
         JobOK(j, x, e, rs, ws, im)
  PROVE  /\ e.asked /\ j.read = e.read
         /\ j.read => ReadJob(j, x, e, rs, im)
         /\ RequestID(j) = IF j.read THEN x * RidOffset ELSE j.id
         /\ ExchangeOf(RequestID(j)) = x /\ RequestID(j) \in DOMAIN im
<1>1. /\ e.asked
      /\ ReadJob(j, x, e, rs, im) \/ DataJob(j, x, e, rs, ws, im) \/ SmallJob(j, x, e, ws, im)
  BY DEF JobOK
<1>2. CASE ReadJob(j, x, e, rs, im)
  <2>1. /\ e.read /\ j.read /\ x * RidOffset \in DOMAIN im
        /\ j.id \in x * RidOffset .. x * RidOffset + RidOffset - 1
    BY <1>2 DEF ReadJob
  <2>2. OrigID(j.id) = x * RidOffset
    BY <2>1, IdInRange
  <2>3. ExchangeOf(x * RidOffset) = x
    BY BaseFacts
  <2>4. j.read \in BOOLEAN /\ e.read \in BOOLEAN
    BY DEF Packet, Asking
  <2>5. QED
    BY <1>1, <1>2, <2>1, <2>2, <2>3, <2>4 DEF RequestID
<1>3. CASE DataJob(j, x, e, rs, ws, im)
  <2>1. ~e.read /\ j.id \in DOMAIN im
    BY <1>3 DEF DataJob
  <2>2. ~j.read
    <3>1. PICK k \in Pending(e, ws) : j = [DataPacket(x, e.size, k) EXCEPT !.kind = "LFILE_REQ"]
      BY <1>3 DEF DataJob
    <3>2. QED
      BY <3>1 DEF DataPacket
  <2>3. j.read \in BOOLEAN /\ e.read \in BOOLEAN
    BY DEF Packet, Asking
  <2>4. QED
    BY <1>1, <2>1, <2>2, <2>3 DEF RequestID
<1>4. CASE SmallJob(j, x, e, ws, im)
  <2>1. ~e.read /\ ~j.read /\ j.id \in DOMAIN im
    BY <1>4 DEF SmallJob, Small
  <2>2. j.read \in BOOLEAN /\ e.read \in BOOLEAN
    BY DEF Packet, Asking
  <2>3. QED
    BY <1>1, <2>1, <2>2 DEF RequestID
<1>5. QED
  BY <1>1, <1>2, <1>3, <1>4

\* What the invariant says of a job for the file system.
LEMMA QueuedJob ==
  ASSUME config \in Configurations, NEW rq, NEW sq, NEW im, NEW tm, NEW ab, NEW ex, NEW rp,
         NEW wr, InvOf(rq, sq, im, tm, ab, ex, rp, wr), NEW k \in DOMAIN All(sq)
  PROVE  LET j == All(sq)[k]
             x == ExchangeOf(j.id)
         IN  /\ j \in Packet /\ x \in Exchanges /\ ex[x].asked /\ ex[x] \in Asking
             /\ j.read = ex[x].read
             /\ JobOK(j, x, ex[x], rp[x], wr[x], im)
             /\ j.read => ReadJob(j, x, ex[x], rp[x], im)
             /\ RequestID(j) = IF j.read THEN x * RidOffset ELSE j.id
             /\ ExchangeOf(RequestID(j)) = x /\ RequestID(j) \in DOMAIN im
<1> DEFINE j == All(sq)[k]
           x == ExchangeOf(j.id)
<1>1. All(sq) \in Seq(Packet) /\ ex \in [Exchanges -> Asking]
  BY QueueFields DEF InvOf, Types
<1>2. x \in Exchanges /\ JobOK(j, x, ex[x], rp[x], wr[x], im)
  BY DEF InvOf, Exchanged
<1>3. j \in Packet
  BY <1>1
<1> HIDE DEF j
<1>4. x = ExchangeOf(j.id)
  OBVIOUS
<1> HIDE DEF x
<1>5. ex[x] \in Asking
  BY <1>1, <1>2
<1>6. /\ ex[x].asked /\ j.read = ex[x].read
      /\ j.read => ReadJob(j, x, ex[x], rp[x], im)
      /\ RequestID(j) = IF j.read THEN x * RidOffset ELSE j.id
      /\ ExchangeOf(RequestID(j)) = x /\ RequestID(j) \in DOMAIN im
  BY <1>2, <1>3, <1>4, <1>5, JobFacts
<1>7. QED
  BY <1>2, <1>3, <1>5, <1>6 DEF j, x

\* A small write that does not wait.
LEMMA UnansweredIsSmall ==
  ASSUME NEW x
  PROVE  Unanswered(x) <=> Small(exchange[x])
BY DEF Unanswered, Small

-----------------------------------------------------------------------------
(* The properties follow from the invariant. *)

\* What History says of reads is that they come back exactly,
LEMMA HistoryGivesReads ==
  ASSUME Inv
  PROVE  ReadsReturnedExactly
<1>1. \A x \in Exchanges : History(exchange[x], replies[x], written[x])
  BY DEF Inv, InvOf, Exchanged
<1>2. ASSUME NEW x \in Exchanges, exchange[x].read
      PROVE  /\ Contiguous(replies[x]) /\ Reached(replies[x]) <= exchange[x].size
             /\ \A k \in DOMAIN replies[x] :
                  replies[x][k].kind = "PFS_R_DATA_LAST"
                    <=> EndOf(replies[x][k]) = exchange[x].size
  <2>1. History(exchange[x], replies[x], written[x])
    BY <1>1
  <2>2. QED
    BY <1>2, <2>1, Zenon DEF History
<1>3. QED
  BY <1>2 DEF ReadsReturnedExactly

\* and of writes, that they are finished exactly.
LEMMA HistoryGivesWrites ==
  ASSUME Inv
  PROVE  WritesFinishedExactly
<1> SUFFICES ASSUME NEW x \in Exchanges, exchange[x].asked, ~exchange[x].read
             PROVE  /\ Contiguous(written[x])
                    /\ replies[x] # <<>> => replies[x][1].kind = "PFS_W_RESP"
                    /\ Len(replies[x]) <= 2
                    /\ ~Unanswered(x) =>
                         (Len(replies[x]) = 2 <=> Reached(written[x]) = exchange[x].size)
  BY DEF WritesFinishedExactly
<1> DEFINE e == exchange[x]
           rs == replies[x]
           ws == written[x]
           n == PacketCount(e.size)
<1>1. config \in Configurations /\ History(e, rs, ws) /\ e.size \in config.sizes[x]
      /\ exchange \in [Exchanges -> Asking] /\ replies \in [Exchanges -> Seq(Packets)]
      /\ written \in [Exchanges -> Seq(Spans)]
  BY DEF Inv, InvOf, Exchanged, Types
<1>2. e \in Asking /\ rs \in Seq(Packets) /\ ws \in Seq(Spans)
  BY <1>1
<1>3. Unanswered(x) <=> Small(e)
  BY UnansweredIsSmall
<1>4. e.asked /\ ~e.read /\ e.size \in Nat \ {0}
  BY <1>1, ConfigFacts
<1> HIDE DEF e, rs, ws
<1>5. CASE rs = <<>>
  <2>1. \/ ws = <<>>
        \/ Small(e) /\ ws = <<[loff |-> 0, size |-> e.size]>>
    BY <1>1, <1>4, <1>5 DEF History
  <2>2. Contiguous(ws)
    BY <2>1 DEF Contiguous
  <2>3. ~Small(e) => Reached(ws) # e.size
    BY <1>4, <2>1 DEF Reached
  <2>4. Len(rs) = 0
    BY <1>5
  <2>5. QED
    BY <1>3, <1>5, <2>2, <2>3, <2>4 DEF rs, ws, e
<1>6. CASE rs # <<>>
  <2>1. /\ \A k \in DOMAIN ws :
             ws[k] = [loff |-> (k-1) * PacketSizeLimit, size |-> PacketSize(e.size, k)]
        /\ rs[1].kind = "PFS_W_RESP" /\ Len(rs) = IF Len(ws) = n THEN 2 ELSE 1
    BY <1>1, <1>4, <1>6, Zenon DEF History
  <2>2. /\ n \in Nat \ {0} /\ Len(ws) \in Nat /\ e.toCome \in Nat
        /\ e.toCome <= n /\ Len(ws) <= n - e.toCome
    BY <1>1, <1>2, <1>4, <1>6, PendingFacts
  <2>3. Len(ws) <= n
    <3> HIDE DEF n
    <3> QED
      BY <2>2
  <2>4. Contiguous(ws) /\ (Reached(ws) = e.size <=> Len(ws) = n)
    BY <1>1, <1>2, <1>4, <2>1, <2>3, WrittenFacts
  <2> HIDE DEF n
  <2>5. Len(rs) <= 2 /\ (Len(rs) = 2 <=> Len(ws) = n)
    BY <2>1
  <2>6. QED
    BY <2>1, <2>4, <2>5 DEF rs, ws, e
<1>7. QED
  BY <1>5, <1>6

-----------------------------------------------------------------------------
(* The order of the jobs and of the packets that wait, and the records, as lists change. *)

\* The elements of a list are at its places.
LEMMA ElementsAt ==
  ASSUME NEW s \in Seq(Packet)
  PROVE  /\ Len(s) \in Nat /\ DOMAIN s = 1 .. Len(s)
         /\ \A p : p \in ToSet(s) <=> \E k \in DOMAIN s : s[k] = p
BY DEF ToSet

\* The elements of a list with one more.
LEMMA AppendPlaces ==
  ASSUME NEW s \in Seq(Packet), NEW j \in Packet
  PROVE  /\ Append(s, j) \in Seq(Packet)
         /\ \A i \in DOMAIN Append(s, j) :
              \/ i \in DOMAIN s /\ Append(s, j)[i] = s[i]
              \/ i = Len(s) + 1 /\ Append(s, j)[i] = j
<1> DEFINE t == Append(s, j)
<1>1. t \in Seq(Packet) /\ Len(s) \in Nat /\ DOMAIN s = 1 .. Len(s)
      /\ DOMAIN t = 1 .. Len(s) + 1
  OBVIOUS
<1>2. ASSUME NEW i \in 1 .. Len(s) + 1
      PROVE  \/ i \in 1 .. Len(s) /\ t[i] = s[i]
             \/ i = Len(s) + 1 /\ t[i] = j
  OBVIOUS
<1>3. QED
  BY <1>1, <1>2

\* A job that comes after the others for its exchange keeps the order,
LEMMA OrderAppendedJob ==
  ASSUME NEW jobs \in Seq(Packet), NEW tm \in Seq(Packet), InOrder(jobs, tm),
         NEW j \in Packet,
         \A p \in ToSet(jobs) : Before(p, j), \A p \in ToSet(tm) : Before(j, p)
  PROVE  InOrder(Append(jobs, j), tm)
<1> DEFINE t == Append(jobs, j)
<1>1. /\ \A i \in DOMAIN t : \/ i \in DOMAIN jobs /\ t[i] = jobs[i]
                             \/ i = Len(jobs) + 1 /\ t[i] = j
      /\ Len(jobs) \in Nat /\ DOMAIN jobs = 1 .. Len(jobs) /\ DOMAIN t = 1 .. Len(jobs) + 1
  BY AppendPlaces
<1>2. /\ \A i \in DOMAIN jobs : Before(jobs[i], j)
      /\ \A i \in DOMAIN tm : Before(j, tm[i])
  BY ElementsAt
<1> HIDE DEF t
<1>3. ASSUME NEW i \in DOMAIN t, NEW k \in DOMAIN t, i < k PROVE Before(t[i], t[k])
  <2>1. i \in DOMAIN jobs /\ t[i] = jobs[i]
    BY <1>1, <1>3
  <2>2. CASE k \in DOMAIN jobs /\ t[k] = jobs[k]
    BY <1>3, <2>1, <2>2 DEF InOrder
  <2>3. CASE t[k] = j
    BY <1>2, <2>1, <2>3
  <2>4. QED
    BY <1>1, <2>2, <2>3
<1>4. ASSUME NEW i \in DOMAIN t, NEW k \in DOMAIN tm PROVE Before(t[i], tm[k])
  <2>1. CASE i \in DOMAIN jobs /\ t[i] = jobs[i]
    BY <2>1 DEF InOrder
  <2>2. CASE t[i] = j
    BY <1>2, <2>2
  <2>3. QED
    BY <1>1, <2>1, <2>2
<1>5. \A i, k \in DOMAIN tm : i < k => Before(tm[i], tm[k])
  BY DEF InOrder
<1>6. InOrder(t, tm)
  BY <1>3, <1>4, <1>5 DEF InOrder
<1>7. QED
  BY <1>6 DEF t

\* so does a packet that waits,
LEMMA OrderAppendedTimer ==
  ASSUME NEW jobs \in Seq(Packet), NEW tm \in Seq(Packet), InOrder(jobs, tm),
         NEW j \in Packet,
         \A p \in ToSet(jobs) : Before(p, j), \A p \in ToSet(tm) : Before(p, j)
  PROVE  InOrder(jobs, Append(tm, j))
<1> DEFINE t == Append(tm, j)
<1>1. /\ \A i \in DOMAIN t : \/ i \in DOMAIN tm /\ t[i] = tm[i]
                             \/ i = Len(tm) + 1 /\ t[i] = j
      /\ Len(tm) \in Nat /\ DOMAIN tm = 1 .. Len(tm) /\ DOMAIN t = 1 .. Len(tm) + 1
  BY AppendPlaces
<1>2. /\ \A i \in DOMAIN jobs : Before(jobs[i], j)
      /\ \A i \in DOMAIN tm : Before(tm[i], j)
  BY ElementsAt
<1> HIDE DEF t
<1>3. ASSUME NEW i \in DOMAIN t, NEW k \in DOMAIN t, i < k PROVE Before(t[i], t[k])
  <2>1. i \in DOMAIN tm /\ t[i] = tm[i]
    BY <1>1, <1>3
  <2>2. CASE k \in DOMAIN tm /\ t[k] = tm[k]
    BY <1>3, <2>1, <2>2 DEF InOrder
  <2>3. CASE t[k] = j
    BY <1>2, <2>1, <2>3
  <2>4. QED
    BY <1>1, <2>2, <2>3
<1>4. ASSUME NEW i \in DOMAIN jobs, NEW k \in DOMAIN t PROVE Before(jobs[i], t[k])
  <2>1. CASE k \in DOMAIN tm /\ t[k] = tm[k]
    BY <2>1 DEF InOrder
  <2>2. CASE t[k] = j
    BY <1>2, <2>2
  <2>3. QED
    BY <1>1, <2>1, <2>2
<1>5. \A i, k \in DOMAIN jobs : i < k => Before(jobs[i], jobs[k])
  BY DEF InOrder
<1>6. InOrder(jobs, t)
  BY <1>3, <1>4, <1>5 DEF InOrder
<1>7. QED
  BY <1>6 DEF t

\* the first job that leaves,
LEMMA OrderTail ==
  ASSUME NEW jobs \in Seq(Packet), NEW tm \in Seq(Packet), InOrder(jobs, tm), jobs # <<>>
  PROVE  /\ InOrder(Tail(jobs), tm) /\ Tail(jobs) \in Seq(Packet)
         /\ \A p \in ToSet(Tail(jobs)) \cup ToSet(tm) : Before(Head(jobs), p)
         /\ ToSet(jobs) = {Head(jobs)} \cup ToSet(Tail(jobs))
<1> DEFINE t == Tail(jobs)
           n == Len(jobs)
<1>1. t \in Seq(Packet) /\ ToSet(jobs) = {Head(jobs)} \cup ToSet(t)
  BY HeadTailElements
<1>2. /\ n \in Nat \ {0} /\ DOMAIN jobs = 1 .. n /\ DOMAIN t = 1 .. n - 1
      /\ \A i \in 1 .. n - 1 : t[i] = jobs[i+1]
  OBVIOUS
<1>3. Head(jobs) = jobs[1]
  OBVIOUS
<1> HIDE DEF t, n
<1>4. ASSUME NEW i \in DOMAIN t
      PROVE  i \in Int /\ i + 1 \in DOMAIN jobs /\ t[i] = jobs[i+1] /\ 1 < i + 1
  BY <1>2
<1>5. 1 \in DOMAIN jobs
  BY <1>2
<1>6. ASSUME NEW i \in DOMAIN t, NEW k \in DOMAIN t, i < k PROVE Before(t[i], t[k])
  <2>1. i + 1 < k + 1
    BY <1>4, <1>6
  <2>2. QED
    BY <1>4, <2>1 DEF InOrder
<1>7. ASSUME NEW i \in DOMAIN t, NEW k \in DOMAIN tm PROVE Before(t[i], tm[k])
  BY <1>4 DEF InOrder
<1>8. \A i, k \in DOMAIN tm : i < k => Before(tm[i], tm[k])
  BY DEF InOrder
<1>9. InOrder(t, tm)
  BY <1>6, <1>7, <1>8 DEF InOrder
<1>10. ASSUME NEW p \in ToSet(t) PROVE Before(jobs[1], p)
  <2>1. PICK i \in DOMAIN t : t[i] = p
    BY <1>1, ElementsAt
  <2>2. QED
    BY <1>4, <1>5, <2>1 DEF InOrder
<1>11. ASSUME NEW p \in ToSet(tm) PROVE Before(jobs[1], p)
  <2>1. PICK i \in DOMAIN tm : tm[i] = p
    BY ElementsAt
  <2>2. QED
    BY <1>5, <2>1 DEF InOrder
<1>12. QED
  BY <1>1, <1>3, <1>9, <1>10, <1>11 DEF t

\* and a packet that has waited, even from between others.
LEMMA OrderRemovedTimer ==
  ASSUME NEW jobs \in Seq(Packet), NEW tm \in Seq(Packet), InOrder(jobs, tm),
         NEW k \in DOMAIN tm, NEW s, s = RemoveAt(tm, k)
  PROVE  /\ InOrder(jobs, s) /\ s \in Seq(Packet)
         /\ \A i \in DOMAIN s : \E m \in DOMAIN tm :
              /\ s[i] = tm[m] /\ m # k
              /\ Before(tm[m], tm[k]) \/ Before(tm[k], tm[m])
              /\ m \in 1 .. k - 1 \/ Before(tm[k], tm[m])
         /\ \A m \in DOMAIN tm : m # k => tm[m] \in ToSet(s)
<1> DEFINE n == Len(tm)
           f(i) == IF i < k THEN i ELSE i + 1
<1>1. /\ s \in Seq(Packet) /\ Len(s) = n - 1
      /\ \A i \in 1 .. n - 1 : s[i] = IF i < k THEN tm[i] ELSE tm[i+1]
  BY RemoveAtElements
<1>2. n \in Nat /\ DOMAIN tm = 1 .. n /\ k \in 1 .. n
  OBVIOUS
<1> HIDE DEF n
<1>3. DOMAIN s = 1 .. n - 1
  BY <1>1
<1>4. ASSUME NEW i \in DOMAIN s
      PROVE  /\ i \in Int /\ f(i) \in DOMAIN tm /\ s[i] = tm[f(i)] /\ f(i) # k
             /\ f(i) \in 1 .. k - 1 \/ k < f(i)
  BY <1>1, <1>2, <1>3
<1>5. \A i, m \in DOMAIN s : i < m => f(i) < f(m)
  BY <1>2, <1>3
<1> HIDE DEF f
<1>6. \A i, m \in DOMAIN s : i < m => Before(s[i], s[m])
  BY <1>4, <1>5 DEF InOrder
<1>7. \A i \in DOMAIN jobs, m \in DOMAIN s : Before(jobs[i], s[m])
  BY <1>4 DEF InOrder
<1>8. \A i, m \in DOMAIN jobs : i < m => Before(jobs[i], jobs[m])
  BY DEF InOrder
<1>9. InOrder(jobs, s)
  BY <1>6, <1>7, <1>8 DEF InOrder
<1>10. ASSUME NEW i \in DOMAIN s
       PROVE  \E m \in DOMAIN tm :
                /\ s[i] = tm[m] /\ m # k
                /\ Before(tm[m], tm[k]) \/ Before(tm[k], tm[m])
                /\ m \in 1 .. k - 1 \/ Before(tm[k], tm[m])
  <2> DEFINE m == f(i)
  <2>1. m \in DOMAIN tm /\ s[i] = tm[m] /\ m # k /\ (m \in 1 .. k - 1 \/ k < m)
    BY <1>4
  <2> HIDE DEF m
  <2>2. CASE m \in 1 .. k - 1
    <3>1. m < k
      BY <1>2, <2>2
    <3>2. Before(tm[m], tm[k])
      BY <2>1, <3>1 DEF InOrder
    <3>3. QED
      BY <2>1, <2>2, <3>2
  <2>3. CASE k < m
    <3>1. Before(tm[k], tm[m])
      BY <2>1, <2>3 DEF InOrder
    <3>2. QED
      BY <2>1, <3>1
  <2>4. QED
    BY <2>1, <2>2, <2>3
<1>11. ASSUME NEW m \in DOMAIN tm, m # k PROVE tm[m] \in ToSet(s)
  <2>1. \E i \in DOMAIN s : s[i] = tm[m]
    <3>1. CASE m < k
      <4>1. m \in DOMAIN s /\ s[m] = tm[m]
        BY <1>1, <1>2, <1>3, <3>1
      <4>2. QED
        BY <4>1
    <3>2. CASE m > k
      <4>1. m - 1 \in DOMAIN s /\ s[m-1] = tm[m-1+1] /\ m - 1 + 1 = m
        BY <1>1, <1>2, <1>3, <3>2
      <4>2. QED
        BY <4>1
    <3>3. QED
      BY <1>2, <1>11, <3>1, <3>2
  <2>2. QED
    BY <1>1, <2>1, ElementsAt
<1>12. QED
  BY <1>1, <1>9, <1>10, <1>11

\* A request and its last job leave the books together.
Finished(rq, sq, im, job, id, rq2, sq2, im2) ==
  /\ job \in ToSet(sq.osQ) /\ id = RequestID(job) /\ IsOutstanding(rq, id)
  /\ \A j \in ToSet(Tail(All(sq))) : RequestID(j) # id
  /\ DOMAIN im2 = DOMAIN im \ {id}
  /\ rq2 = Popped(rq, id)
  /\ sq2 = DispatchedNext(Popped(sq, job.id), 1)

\* The books agree when a request leaves with its job,
LEMMA RecordsFinished ==
  ASSUME NEW rq \in Queues, NEW sq \in Queues, NEW im, Records(rq, sq, im),
         NEW job, NEW id, NEW rq2, NEW sq2, NEW im2,
         Finished(rq, sq, im, job, id, rq2, sq2, im2)
  PROVE  /\ rq2 \in Queues /\ sq2 \in Queues /\ All(sq2) = Tail(All(sq))
         /\ Records(rq2, sq2, im2)
<1> DEFINE sp == Popped(sq, job.id)
           jobs == All(sq)
           rest == Tail(jobs)
<1>1. /\ job \in ToSet(sq.osQ) /\ id = RequestID(job) /\ IsOutstanding(rq, id)
      /\ \A j \in ToSet(Tail(All(sq))) : RequestID(j) # id
      /\ DOMAIN im2 = DOMAIN im \ {id}
      /\ rq2 = Popped(rq, id) /\ sq2 = DispatchedNext(Popped(sq, job.id), 1)
  BY DEF Finished
<1>2. /\ DOMAIN im = Ids(All(rq))
      /\ Ids(All(rq)) = {RequestID(j) : j \in ToSet(jobs)}
      /\ OneEach(All(rq)) /\ Len(sq.osQ) <= 1
  BY DEF Records
<1>3. /\ sp \in Queues /\ All(sp) = rest /\ Len(sp.osQ) <= 1
      /\ jobs # <<>> /\ Head(jobs) = job /\ jobs \in Seq(Packet)
  BY <1>2, <1>1, JobLeaves, QueueFields
<1>4. /\ rq2 \in Queues /\ Ids(All(rq2)) = Ids(All(rq)) \ {id} /\ OneEach(All(rq2))
  BY <1>2, <1>1, RequestLeaves
<1>5. sq2 = DispatchedNext(sp, 1)
  BY <1>1
<1> HIDE DEF sp
<1>6. /\ sq2 \in Queues /\ All(sq2) = All(sp)
      /\ Len(sq2.osQ) <= 1 /\ (sq2.osQ = <<>> => sq2.waitQ = <<>>)
  BY <1>3, <1>5, DispatchedFacts
<1> HIDE DEF jobs
<1>7. ToSet(jobs) = {job} \cup ToSet(rest)
  BY <1>3, HeadTailElements
<1>8. \A j \in ToSet(rest) : RequestID(j) # id
  BY <1>1 DEF jobs
<1> HIDE DEF rest
<1>9. Ids(All(rq)) \ {id} = {RequestID(j) : j \in ToSet(rest)}
  BY <1>2, <1>7, <1>8, <1>1
<1>10. All(sq2) = rest
  BY <1>3, <1>6
<1>11. Ids(All(rq2)) = {RequestID(j) : j \in ToSet(All(sq2))}
  BY <1>4, <1>9, <1>10
<1>12. DOMAIN im2 = Ids(All(rq2))
  BY <1>2, <1>4, <1>1
<1>13. QED
  BY <1>4, <1>6, <1>10, <1>11, <1>12 DEF Records, rest, jobs

\* A job is followed by the next one of its request.
Continued(sq, job, nj, sq2) ==
  /\ job \in ToSet(sq.osQ) /\ RequestID(nj) = RequestID(job)
  /\ sq2 = DispatchedNext(PushedBack(Popped(sq, job.id), nj), 1)

\* and when the next job of a request replaces one.
LEMMA RecordsContinued ==
  ASSUME NEW rq \in Queues, NEW sq \in Queues, NEW im, Records(rq, sq, im),
         NEW job, NEW nj \in Packet, NEW sq2, Continued(sq, job, nj, sq2)
  PROVE  /\ sq2 \in Queues /\ All(sq2) = Append(Tail(All(sq)), nj)
         /\ Records(rq, sq2, im)
<1> DEFINE sp == Popped(sq, job.id)
           su == PushedBack(sp, nj)
           jobs == All(sq)
           rest == Tail(jobs)
           jobs2 == Append(rest, nj)
<1>1. /\ job \in ToSet(sq.osQ) /\ RequestID(nj) = RequestID(job)
      /\ sq2 = DispatchedNext(PushedBack(Popped(sq, job.id), nj), 1)
  BY DEF Continued
<1>2. /\ DOMAIN im = Ids(All(rq))
      /\ Ids(All(rq)) = {RequestID(j) : j \in ToSet(jobs)}
      /\ OneEach(All(rq)) /\ Len(sq.osQ) <= 1
  BY DEF Records
<1>3. /\ sp \in Queues /\ All(sp) = rest /\ Len(sp.osQ) <= 1
      /\ jobs # <<>> /\ Head(jobs) = job /\ jobs \in Seq(Packet)
  BY <1>2, <1>1, JobLeaves, QueueFields
<1> HIDE DEF sp
<1>4. su \in Queues /\ su.osQ = sp.osQ /\ All(su) = Append(All(sp), nj)
  BY <1>3, PushedFacts
<1>5. sq2 = DispatchedNext(su, 1)
  BY <1>1 DEF sp
<1> HIDE DEF su
<1>6. Len(su.osQ) <= 1
  BY <1>3, <1>4
<1>7. /\ sq2 \in Queues /\ All(sq2) = All(su)
      /\ Len(sq2.osQ) <= 1 /\ (sq2.osQ = <<>> => sq2.waitQ = <<>>)
  BY <1>4, <1>5, <1>6, DispatchedFacts
<1> HIDE DEF jobs
<1>8. ToSet(jobs) = {job} \cup ToSet(rest) /\ rest \in Seq(Packet)
  BY <1>3, HeadTailElements
<1> HIDE DEF rest
<1>9. ToSet(jobs2) = ToSet(rest) \cup {nj}
  BY <1>8, AppendElements
<1>10. {RequestID(j) : j \in ToSet(jobs)} = {RequestID(j) : j \in ToSet(jobs2)}
  BY <1>8, <1>9, <1>1
<1>11. All(sq2) = jobs2
  BY <1>3, <1>4, <1>7
<1>12. Ids(All(rq)) = {RequestID(j) : j \in ToSet(All(sq2))}
  BY <1>2, <1>10, <1>11
<1>13. QED
  BY <1>2, <1>7, <1>11, <1>12 DEF Records, rest, jobs


-----------------------------------------------------------------------------
(* A step is about one exchange x; what it does not touch is as it was. *)

\* The job of another exchange, or one of x whose books did not change.
LEMMA JobKept ==
  ASSUME config \in Configurations, NEW j \in Packet, NEW x \in Exchanges,
         x = ExchangeOf(j.id), NEW e \in Asking, NEW rs, NEW ws, NEW im,
         JobOK(j, x, e, rs, ws, im), NEW im2,
         RequestID(j) \in DOMAIN im2, im2[RequestID(j)] = im[RequestID(j)]
  PROVE  JobOK(j, x, e, rs, ws, im2)
<1>1. /\ RequestID(j) = IF j.read THEN x * RidOffset ELSE j.id
      /\ e.asked /\ j.read = e.read
      /\ j.read => ReadJob(j, x, e, rs, im)
  BY JobFacts
<1>2. CASE j.read
  <2>1. ReadJob(j, x, e, rs, im2)
    BY <1>1, <1>2 DEF ReadJob
  <2>2. QED
    BY <1>1, <2>1 DEF JobOK
<1>3. CASE ~j.read
  <2>1. j.id \in DOMAIN im2 /\ im2[j.id] = im[j.id]
    BY <1>1, <1>3
  <2>2. DataJob(j, x, e, rs, ws, im) => DataJob(j, x, e, rs, ws, im2)
    BY <2>1 DEF DataJob
  <2>3. SmallJob(j, x, e, ws, im) => SmallJob(j, x, e, ws, im2)
    BY <2>1 DEF SmallJob
  <2>4. ~ReadJob(j, x, e, rs, im)
    BY <1>3 DEF ReadJob
  <2>5. QED
    BY <2>2, <2>3, <2>4 DEF JobOK
<1>4. QED
  BY <1>2, <1>3

Untouched(x, ex, rp, wr, ex2, rp2, wr2) ==
  \A y \in Exchanges : y # x => ex2[y] = ex[y] /\ rp2[y] = rp[y] /\ wr2[y] = wr[y]

OthersKept(x, jobs, im, tm, jobs2, im2, tm2) ==
  /\ \A j \in ToSet(jobs2) : ExchangeOf(j.id) # x =>
       j \in ToSet(jobs) /\ RequestID(j) \in DOMAIN im2
       /\ im2[RequestID(j)] = im[RequestID(j)]
  /\ \A p \in ToSet(tm2) : ExchangeOf(p.id) # x => p \in ToSet(tm)
  /\ \A id \in Ids(jobs) \cup Ids(tm) :
       ExchangeOf(id) # x => id \in Ids(jobs2) \cup Ids(tm2)

BooksOf(x, jobs, im, tm, e, rs, ws) ==
  /\ e.asked => e.size \in config.sizes[x]
  /\ History(e, rs, ws)
  /\ NoneLost(x, e, rs, ws, Ids(jobs) \cup Ids(tm))
  /\ \A p \in ToSet(tm) : ExchangeOf(p.id) = x => TimerOK(p, x, e, rs, ws)
  /\ \A j \in ToSet(jobs) : ExchangeOf(j.id) = x => JobOK(j, x, e, rs, ws, im)

\* What is to be shown of a step.
LEMMA FrameInv ==
  ASSUME config \in Configurations,
         NEW rq, NEW sq, NEW im, NEW tm, NEW ab, NEW ex, NEW rp, NEW wr,
         InvOf(rq, sq, im, tm, ab, ex, rp, wr),
         NEW rq2, NEW sq2, NEW im2, NEW tm2, NEW ex2, NEW rp2, NEW wr2,
         NEW x \in Exchanges,
         Types(rq2, sq2, im2, tm2, FALSE, ex2, rp2, wr2),
         Untouched(x, ex, rp, wr, ex2, rp2, wr2),
         OthersKept(x, All(sq), im, tm, All(sq2), im2, tm2),
         BooksOf(x, All(sq2), im2, tm2, ex2[x], rp2[x], wr2[x]),
         InOrder(All(sq2), tm2),
         Records(rq2, sq2, im2),
         RoomForPackets
  PROVE  InvOf(rq2, sq2, im2, tm2, FALSE, ex2, rp2, wr2)
<1> DEFINE ids == Ids(All(sq)) \cup Ids(tm)
           ids2 == Ids(All(sq2)) \cup Ids(tm2)
<1>1. /\ ex \in [Exchanges -> Asking] /\ rp \in [Exchanges -> Seq(Packets)]
      /\ wr \in [Exchanges -> Seq(Spans)] /\ sq \in Queues /\ tm \in Seq(Packet)
      /\ Exchanged(All(sq), im, tm, ex, rp, wr)
  BY DEF InvOf, Types
<1>2. sq2 \in Queues /\ tm2 \in Seq(Packet) /\ All(sq) \in Seq(Packet)
      /\ All(sq2) \in Seq(Packet)
  BY <1>1, QueueFields DEF Types
<1>3. /\ \A y \in Exchanges : y # x => ex2[y] = ex[y] /\ rp2[y] = rp[y] /\ wr2[y] = wr[y]
      /\ \A j \in ToSet(All(sq2)) : ExchangeOf(j.id) # x =>
           j \in ToSet(All(sq)) /\ RequestID(j) \in DOMAIN im2
           /\ im2[RequestID(j)] = im[RequestID(j)]
      /\ \A p \in ToSet(tm2) : ExchangeOf(p.id) # x => p \in ToSet(tm)
      /\ \A id \in ids : ExchangeOf(id) # x => id \in ids2
  BY Zenon DEF Untouched, OthersKept
<1>4. /\ ex2[x].asked => ex2[x].size \in config.sizes[x]
      /\ History(ex2[x], rp2[x], wr2[x])
      /\ NoneLost(x, ex2[x], rp2[x], wr2[x], ids2)
      /\ \A p \in ToSet(tm2) :
           ExchangeOf(p.id) = x => TimerOK(p, x, ex2[x], rp2[x], wr2[x])
      /\ \A j \in ToSet(All(sq2)) :
           ExchangeOf(j.id) = x => JobOK(j, x, ex2[x], rp2[x], wr2[x], im2)
  BY Zenon DEF BooksOf
<1>5. ASSUME NEW y \in Exchanges
      PROVE  /\ ex2[y].asked => ex2[y].size \in config.sizes[y]
             /\ History(ex2[y], rp2[y], wr2[y])
             /\ NoneLost(y, ex2[y], rp2[y], wr2[y], ids2)
  <2>1. CASE y = x
    BY <1>4, <2>1
  <2>2. CASE y # x
    <3>1. /\ ex[y].asked => ex[y].size \in config.sizes[y]
          /\ History(ex[y], rp[y], wr[y])
          /\ NoneLost(y, ex[y], rp[y], wr[y], ids)
      BY <1>1 DEF Exchanged
    <3>2. ex2[y] = ex[y] /\ rp2[y] = rp[y] /\ wr2[y] = wr[y]
      BY <1>3, <2>2
    <3>3. NoneLost(y, ex[y], rp[y], wr[y], ids2)
      <4> HIDE DEF ids2
      <4> SUFFICES ASSUME ~ex[y].read, rp[y] # <<>>, NEW k \in Pending(ex[y], wr[y])
                   PROVE  y * RidOffset + k \in ids2
        BY DEF NoneLost
      <4>1. y * RidOffset + k \in ids
        BY <3>1 DEF NoneLost
      <4>2. ex[y].asked
        <5>1. History(ex[y], rp[y], wr[y])
          BY <3>1
        <5>2. QED
          BY <5>1 DEF History
      <4>3. ex[y] \in Asking /\ wr[y] \in Seq(Spans)
        BY <1>1
      <4>4. k \in 1 .. PacketCount(ex[y].size)
        <5>1. Pending(ex[y], wr[y]) \subseteq 1 .. PacketCount(ex[y].size)
          BY <3>1, <4>2, <4>3, PendingFacts
        <5>2. QED
          BY <5>1
      <4>5. ex[y].size \in config.sizes[y]
        BY <3>1, <4>2
      <4>6. ExchangeOf(DataPacket(y, ex[y].size, k).id) = y
            /\ DataPacket(y, ex[y].size, k).id = y * RidOffset + k
        BY <4>4, <4>5, DataPacketFacts
      <4>7. ExchangeOf(y * RidOffset + k) # x
        BY <2>2, <4>6
      <4>8. QED
        BY <1>3, <4>1, <4>7
    <3> HIDE DEF ids2
    <3>4. QED
      BY <3>1, <3>2, <3>3
  <2>3. QED
    BY <2>1, <2>2
<1>6. ASSUME NEW k \in DOMAIN tm2
      PROVE  LET y == ExchangeOf(tm2[k].id)
             IN  y \in Exchanges /\ TimerOK(tm2[k], y, ex2[y], rp2[y], wr2[y])
  <2> DEFINE p == tm2[k]
             y == ExchangeOf(p.id)
  <2>1. p \in ToSet(tm2)
    BY DEF ToSet
  <2>2. CASE y = x
    BY <1>4, <2>1, <2>2
  <2>3. CASE y # x
    <3>1. PICK m \in DOMAIN tm : tm[m] = p
      BY <1>1, <1>3, <2>1, <2>3, ElementsAt
    <3>2. y \in Exchanges /\ TimerOK(p, y, ex[y], rp[y], wr[y])
      BY <1>1, <3>1 DEF Exchanged
    <3> HIDE DEF p, y
    <3>3. ex2[y] = ex[y] /\ rp2[y] = rp[y] /\ wr2[y] = wr[y]
      BY <1>3, <2>3, <3>2
    <3>4. TimerOK(p, y, ex2[y], rp2[y], wr2[y])
      BY <3>2, <3>3
    <3>5. QED
      BY <3>2, <3>4 DEF p, y
  <2>4. QED
    BY <2>2, <2>3
<1>7. ASSUME NEW k \in DOMAIN All(sq2)
      PROVE  LET y == ExchangeOf(All(sq2)[k].id)
             IN  y \in Exchanges /\ JobOK(All(sq2)[k], y, ex2[y], rp2[y], wr2[y], im2)
  <2> DEFINE j == All(sq2)[k]
             y == ExchangeOf(j.id)
  <2>1. j \in ToSet(All(sq2)) /\ j \in Packet
    BY <1>2 DEF ToSet
  <2>2. CASE y = x
    BY <1>4, <2>1, <2>2
  <2>3. CASE y # x
    <3>1. /\ j \in ToSet(All(sq)) /\ RequestID(j) \in DOMAIN im2
          /\ im2[RequestID(j)] = im[RequestID(j)]
      BY <1>3, <2>1, <2>3
    <3>2. PICK m \in DOMAIN All(sq) : All(sq)[m] = j
      BY <1>2, <3>1, ElementsAt
    <3>3. y \in Exchanges /\ JobOK(j, y, ex[y], rp[y], wr[y], im)
      BY <1>1, <3>2 DEF Exchanged
    <3> HIDE DEF j
    <3>4. ex2[y] = ex[y] /\ rp2[y] = rp[y] /\ wr2[y] = wr[y] /\ ex[y] \in Asking
      BY <1>1, <1>3, <2>3, <3>3
    <3>5. JobOK(j, y, ex[y], rp[y], wr[y], im2)
      BY <2>1, <3>1, <3>3, <3>4, JobKept
    <3> HIDE DEF y
    <3>6. JobOK(j, y, ex2[y], rp2[y], wr2[y], im2)
      BY <3>4, <3>5
    <3>7. QED
      BY <3>3, <3>6 DEF j, y
  <2>4. QED
    BY <2>2, <2>3
<1>8. Exchanged(All(sq2), im2, tm2, ex2, rp2, wr2)
  BY <1>5, <1>6, <1>7 DEF Exchanged
<1>9. QED
  BY <1>8 DEF InvOf

-----------------------------------------------------------------------------
(* A packet is scheduled or enqueued. *)

\* Every record is that of a job of its exchange.
LEMMA RecordOfJob ==
  ASSUME config \in Configurations, NEW rq, NEW sq, NEW im, NEW tm, NEW ab, NEW ex, NEW rp,
         NEW wr, InvOf(rq, sq, im, tm, ab, ex, rp, wr), NEW id \in DOMAIN im
  PROVE  \E j \in ToSet(All(sq)) : RequestID(j) = id /\ ExchangeOf(j.id) = ExchangeOf(id)
<1>1. id \in {RequestID(j) : j \in ToSet(All(sq))} /\ All(sq) \in Seq(Packet)
  BY QueueFields DEF InvOf, Records, Types
<1>2. PICK j \in ToSet(All(sq)) : RequestID(j) = id
  BY <1>1
<1>3. PICK k \in DOMAIN All(sq) : All(sq)[k] = j
  BY <1>1, ElementsAt
<1>4. ExchangeOf(RequestID(j)) = ExchangeOf(j.id)
  BY <1>3, QueuedJob
<1>5. QED
  BY <1>2, <1>4

\* Before it is asked nothing is about an exchange.
LEMMA NothingOfNew ==
  ASSUME config \in Configurations, NEW rq, NEW sq, NEW im, NEW tm, NEW ab, NEW ex, NEW rp,
         NEW wr, InvOf(rq, sq, im, tm, ab, ex, rp, wr), NEW x \in Exchanges, ~ex[x].asked
  PROVE  /\ \A p \in ToSet(All(sq)) \cup ToSet(tm) : ExchangeOf(p.id) # x
         /\ \A id \in DOMAIN im : ExchangeOf(id) # x
         /\ rp[x] = <<>> /\ wr[x] = <<>>
<1>1. sq \in Queues /\ tm \in Seq(Packet) /\ All(sq) \in Seq(Packet)
  BY QueueFields DEF InvOf, Types
<1>2. ASSUME NEW p \in ToSet(All(sq)) PROVE ExchangeOf(p.id) # x
  <2>1. PICK k \in DOMAIN All(sq) : All(sq)[k] = p
    BY <1>1, ElementsAt
  <2>2. QED
    BY <2>1, QueuedJob
<1>3. ASSUME NEW p \in ToSet(tm) PROVE ExchangeOf(p.id) # x
  <2>1. PICK k \in DOMAIN tm : tm[k] = p
    BY <1>1, ElementsAt
  <2> DEFINE y == ExchangeOf(p.id)
  <2>2. TimerOK(p, y, ex[y], rp[y], wr[y])
    BY <2>1 DEF InvOf, Exchanged
  <2>3. ex[y].asked
    BY <2>2 DEF TimerOK
  <2>4. QED
    BY <2>3
<1>4. \A id \in DOMAIN im : ExchangeOf(id) # x
  BY <1>2, RecordOfJob
<1>5. History(ex[x], rp[x], wr[x])
  BY DEF InvOf, Exchanged
<1>6. QED
  BY <1>2, <1>3, <1>4, <1>5 DEF History

\* What is known of an exchange when one of its packets begins to wait.
ScheduledBooks(x, e, rs, ws, jobs, im, tm, pkt) ==
  /\ e.asked => e.size \in config.sizes[x]
  /\ History(e, rs, ws)
  /\ NoneLost(x, e, rs, ws, Ids(jobs) \cup Ids(tm) \cup {pkt.id})
  /\ TimerOK(pkt, x, e, rs, ws)
  /\ \A p \in ToSet(tm) : ExchangeOf(p.id) = x =>
       TimerOK(p, x, e, rs, ws) /\ ~p.read /\ p.id < pkt.id
  /\ \A j \in ToSet(jobs) : ExchangeOf(j.id) = x =>
       JobOK(j, x, e, rs, ws, im) /\ ~j.read /\ j.id < pkt.id

\* A packet begins to wait for its processing time.
LEMMA ScheduledInv ==
  ASSUME config \in Configurations, RoomForPackets,
         NEW rq, NEW sq, NEW im, NEW tm, NEW ab, NEW ex, NEW rp, NEW wr,
         InvOf(rq, sq, im, tm, ab, ex, rp, wr),
         NEW x \in Exchanges, NEW e \in Asking, NEW ex2, ex2 = [ex EXCEPT ![x] = e],
         NEW pkt \in Packet, ExchangeOf(pkt.id) = x,
         ScheduledBooks(x, e, rp[x], wr[x], All(sq), im, tm, pkt)
  PROVE  InvOf(rq, sq, im, Append(tm, pkt), FALSE, ex2, rp, wr)
<1>0. /\ e.asked => e.size \in config.sizes[x]
      /\ History(e, rp[x], wr[x])
      /\ NoneLost(x, e, rp[x], wr[x], Ids(All(sq)) \cup Ids(tm) \cup {pkt.id})
      /\ TimerOK(pkt, x, e, rp[x], wr[x])
      /\ \A p \in ToSet(tm) : ExchangeOf(p.id) = x =>
           TimerOK(p, x, e, rp[x], wr[x]) /\ ~p.read /\ p.id < pkt.id
      /\ \A j \in ToSet(All(sq)) : ExchangeOf(j.id) = x =>
           JobOK(j, x, e, rp[x], wr[x], im) /\ ~j.read /\ j.id < pkt.id
  BY DEF ScheduledBooks
<1> USE <1>0
<1> DEFINE tm2 == Append(tm, pkt)
           jobs == All(sq)
<1>1. /\ sq \in Queues /\ tm \in Seq(Packet) /\ jobs \in Seq(Packet)
      /\ Types(rq, sq, im, tm, ab, ex, rp, wr) /\ ex \in [Exchanges -> Asking]
      /\ InOrder(jobs, tm) /\ Records(rq, sq, im)
  BY QueueFields DEF InvOf, Types
<1>2. tm2 \in Seq(Packet) /\ ToSet(tm2) = ToSet(tm) \cup {pkt}
  BY <1>1, AppendElements
<1>3. Ids(tm2) = Ids(tm) \cup {pkt.id}
  BY <1>2 DEF Ids
<1>4. ex2 \in [Exchanges -> Asking] /\ ex2[x] = e /\ \A y \in Exchanges : y # x => ex2[y] = ex[y]
  BY <1>1
<1>5. InOrder(jobs, tm2)
  <2>1. \A p \in ToSet(jobs) : Before(p, pkt)
    BY DEF Before
  <2>2. \A p \in ToSet(tm) : Before(p, pkt)
    BY DEF Before
  <2>3. QED
    BY <1>1, <2>1, <2>2, OrderAppendedTimer
<1>6. ASSUME NEW j \in ToSet(jobs)
      PROVE  RequestID(j) \in DOMAIN im
  <2>1. RequestID(j) \in Ids(All(rq)) /\ DOMAIN im = Ids(All(rq))
    BY <1>1 DEF Records
  <2>2. QED
    BY <2>1
<1> HIDE DEF tm2, jobs
<1>7. Types(rq, sq, im, tm2, FALSE, ex2, rp, wr)
  BY <1>1, <1>2, <1>4 DEF Types
<1>8. Untouched(x, ex, rp, wr, ex2, rp, wr)
  BY <1>4 DEF Untouched
<1>9. OthersKept(x, jobs, im, tm, jobs, im, tm2)
  <2>1. \A p \in ToSet(tm2) : ExchangeOf(p.id) # x => p \in ToSet(tm)
    BY <1>2
  <2>2. \A id \in Ids(jobs) \cup Ids(tm) : id \in Ids(jobs) \cup Ids(tm2)
    BY <1>3
  <2>3. QED
    BY <1>6, <2>1, <2>2, Zenon DEF OthersKept
<1>10. BooksOf(x, jobs, im, tm2, ex2[x], rp[x], wr[x])
  <2>1. Ids(jobs) \cup Ids(tm2) = Ids(jobs) \cup Ids(tm) \cup {pkt.id}
    BY <1>3
  <2>2. NoneLost(x, e, rp[x], wr[x], Ids(jobs) \cup Ids(tm2))
    BY <2>1 DEF jobs
  <2>3. \A p \in ToSet(tm2) : ExchangeOf(p.id) = x => TimerOK(p, x, e, rp[x], wr[x])
    BY <1>2
  <2>4. \A j \in ToSet(jobs) : ExchangeOf(j.id) = x => JobOK(j, x, e, rp[x], wr[x], im)
    BY DEF jobs
  <2>5. BooksOf(x, jobs, im, tm2, e, rp[x], wr[x])
    BY <2>2, <2>3, <2>4, Zenon DEF BooksOf
  <2>6. QED
    BY <1>4, <2>5
<1>11. QED
  BY <1>1, <1>5, <1>7, <1>8, <1>9, <1>10, FrameInv, Zenon DEF jobs, tm2

\* What enqueueDispatchVFSReqs does with a packet, fs the sub-request it makes.
EnqueuedTo(rq, sq, im, pkt, fs, rq2, sq2, im2) ==
  /\ rq2 = DispatchedNext(PushedBack(rq, pkt), Degree)
  /\ sq2 = DispatchedNext(PushedBack(sq, fs), 1)
  /\ im2 = [id \in DOMAIN im \cup {pkt.id} |-> IF id \in DOMAIN im THEN im[id] ELSE Info(pkt)]

\* A request is enqueued with its first job: there is one more record,
LEMMA EnqueuedFacts ==
  ASSUME NEW rq \in Queues, NEW sq \in Queues, NEW im, Records(rq, sq, im),
         im \in [DOMAIN im -> Infos], DOMAIN im \subseteq Nat,
         NEW pkt \in Packet, NEW fs \in Packet, RequestID(fs) = pkt.id,
         pkt.id \notin DOMAIN im,
         NEW rq2, NEW sq2, NEW im2, EnqueuedTo(rq, sq, im, pkt, fs, rq2, sq2, im2)
  PROVE  /\ rq2 \in Queues /\ sq2 \in Queues
         /\ All(sq2) = Append(All(sq), fs)
         /\ Records(rq2, sq2, im2)
         /\ \A id \in DOMAIN im : id \in DOMAIN im2 /\ im2[id] = im[id]
         /\ pkt.id \in DOMAIN im2 /\ im2[pkt.id] = Info(pkt)
         /\ im2 \in [DOMAIN im2 -> Infos] /\ DOMAIN im2 \subseteq Nat
<1> DEFINE rp == PushedBack(rq, pkt)
           sp == PushedBack(sq, fs)
           r == Info(pkt)
<1>1. rp \in Queues /\ All(rp) = Append(All(rq), pkt)
  BY PushedFacts
<1>2. sp \in Queues /\ All(sp) = Append(All(sq), fs) /\ sp.osQ = sq.osQ
  BY PushedFacts
<1>3. /\ im2 = [id \in DOMAIN im \cup {pkt.id} |-> IF id \in DOMAIN im THEN im[id] ELSE r]
      /\ rq2 = DispatchedNext(rp, Degree)
      /\ sq2 = DispatchedNext(sp, 1)
  BY Zenon DEF EnqueuedTo
<1>4. pkt.id \in Nat /\ r \in Infos
  BY DEF Packet, Info, Infos
<1>5. /\ DOMAIN im = Ids(All(rq)) /\ OneEach(All(rq)) /\ Len(sq.osQ) <= 1
      /\ Ids(All(rq)) = {RequestID(j) : j \in ToSet(All(sq))}
      /\ All(rq) \in Seq(Packet) /\ All(sq) \in Seq(Packet)
  BY QueueFields DEF Records
<1> HIDE DEF rp, sp, r
<1>6. rq2 \in Queues /\ All(rq2) = All(rp)
  BY <1>1, <1>3, DispatchedFacts
<1>7. sq2 \in Queues /\ All(sq2) = All(sp) /\ Len(sq2.osQ) <= 1
      /\ (sq2.osQ = <<>> => sq2.waitQ = <<>>)
  <2>1. sq2 = DispatchedNext(sp, 1) /\ Len(sp.osQ) <= 1
    BY <1>2, <1>3, <1>5
  <2>2. QED
    BY <1>2, <2>1, DispatchedFacts
<1>8. Ids(All(rq2)) = Ids(All(rq)) \cup {pkt.id} /\ OneEach(All(rq2))
  BY <1>1, <1>5, <1>6, IdsPushed
<1>9. ToSet(All(sq2)) = ToSet(All(sq)) \cup {fs}
  <2>1. ToSet(Append(All(sq), fs)) = ToSet(All(sq)) \cup {fs}
    BY <1>5, AppendElements
  <2>2. All(sq2) = Append(All(sq), fs)
    BY <1>2, <1>7
  <2>3. QED
    BY <2>1, <2>2, Zenon
<1>10. Ids(All(rq2)) = {RequestID(j) : j \in ToSet(All(sq2))}
  BY <1>5, <1>8, <1>9
<1>11. DOMAIN im2 = Ids(All(rq2))
  <2>1. DOMAIN im2 = DOMAIN im \cup {pkt.id}
    BY <1>3
  <2>2. QED
    BY <1>5, <1>8, <2>1
<1>12. Records(rq2, sq2, im2) /\ All(sq2) = Append(All(sq), fs)
  BY <1>2, <1>6, <1>7, <1>8, <1>10, <1>11 DEF Records
<1>13. \A id \in DOMAIN im : id \in DOMAIN im2 /\ im2[id] = im[id]
  BY <1>3
<1>14. pkt.id \in DOMAIN im2 /\ im2[pkt.id] = r
  BY <1>3
<1>15. im2 \in [DOMAIN im2 -> Infos] /\ DOMAIN im2 \subseteq Nat
  BY <1>3, <1>4
<1>16. QED
  BY <1>6, <1>7, <1>12, <1>13, <1>14, <1>15 DEF r

EnqueuedBooks(x, e, rs, ws, jobs, im, tm, fs, im2, tm2) ==
  /\ \A p \in ToSet(tm2) : p \in ToSet(tm)
  /\ \A id \in Ids(tm) : ExchangeOf(id) # x => id \in Ids(tm2)
  /\ e.asked => e.size \in config.sizes[x]
  /\ History(e, rs, ws)
  /\ NoneLost(x, e, rs, ws, Ids(jobs) \cup {fs.id} \cup Ids(tm2))
  /\ JobOK(fs, x, e, rs, ws, im2)
  /\ \A p \in ToSet(tm2) : ExchangeOf(p.id) = x =>
       TimerOK(p, x, e, rs, ws) /\ ~fs.read /\ fs.id < p.id
  /\ \A j \in ToSet(jobs) : ExchangeOf(j.id) = x =>
       JobOK(j, x, e, rs, ws, im) /\ ~j.read /\ j.id < fs.id

\* and the rest of the invariant holds if it does for the request's exchange.
LEMMA EnqueuedInv ==
  ASSUME config \in Configurations, RoomForPackets,
         NEW rq, NEW sq, NEW im, NEW tm, NEW ab, NEW ex, NEW rp, NEW wr,
         InvOf(rq, sq, im, tm, ab, ex, rp, wr),
         NEW x \in Exchanges, NEW e \in Asking, NEW ex2, ex2 = [ex EXCEPT ![x] = e],
         NEW pkt \in Packet, pkt.id \notin DOMAIN im,
         NEW fs \in Packet, RequestID(fs) = pkt.id, ExchangeOf(fs.id) = x,
         NEW rq2, NEW sq2, NEW im2, EnqueuedTo(rq, sq, im, pkt, fs, rq2, sq2, im2),
         NEW tm2 \in Seq(Packet), InOrder(All(sq), tm2),
         EnqueuedBooks(x, e, rp[x], wr[x], All(sq), im, tm, fs, im2, tm2)
  PROVE  InvOf(rq2, sq2, im2, tm2, FALSE, ex2, rp, wr)
<1> DEFINE jobs == All(sq)
           jobs2 == All(sq2)
<1>1. /\ \A p \in ToSet(tm2) : p \in ToSet(tm)
      /\ \A id \in Ids(tm) : ExchangeOf(id) # x => id \in Ids(tm2)
      /\ e.asked => e.size \in config.sizes[x]
      /\ History(e, rp[x], wr[x])
      /\ NoneLost(x, e, rp[x], wr[x], Ids(jobs) \cup {fs.id} \cup Ids(tm2))
      /\ JobOK(fs, x, e, rp[x], wr[x], im2)
      /\ \A p \in ToSet(tm2) : ExchangeOf(p.id) = x =>
           TimerOK(p, x, e, rp[x], wr[x]) /\ ~fs.read /\ fs.id < p.id
      /\ \A j \in ToSet(jobs) : ExchangeOf(j.id) = x =>
           JobOK(j, x, e, rp[x], wr[x], im) /\ ~j.read /\ j.id < fs.id
  BY Zenon DEF EnqueuedBooks
<1>2. /\ sq \in Queues /\ rq \in Queues /\ tm \in Seq(Packet) /\ jobs \in Seq(Packet)
      /\ Types(rq, sq, im, tm, ab, ex, rp, wr) /\ ex \in [Exchanges -> Asking]
      /\ Records(rq, sq, im) /\ im \in [DOMAIN im -> Infos] /\ DOMAIN im \subseteq Nat
  BY QueueFields DEF InvOf, Types
<1>3. /\ rq2 \in Queues /\ sq2 \in Queues /\ jobs2 = Append(jobs, fs)
      /\ Records(rq2, sq2, im2)
      /\ \A id \in DOMAIN im : id \in DOMAIN im2 /\ im2[id] = im[id]
      /\ im2 \in [DOMAIN im2 -> Infos] /\ DOMAIN im2 \subseteq Nat
  BY <1>2, EnqueuedFacts
<1>4. ToSet(jobs2) = ToSet(jobs) \cup {fs}
  <2>1. ToSet(Append(jobs, fs)) = ToSet(jobs) \cup {fs}
    BY <1>2, AppendElements
  <2>2. QED
    BY <1>3, <2>1, Zenon
<1>5. Ids(jobs2) = Ids(jobs) \cup {fs.id}
  BY <1>4 DEF Ids
<1>6. ex2 \in [Exchanges -> Asking] /\ ex2[x] = e /\ \A y \in Exchanges : y # x => ex2[y] = ex[y]
  BY <1>2
<1>7. InOrder(jobs2, tm2)
  <2>1. \A p \in ToSet(jobs) : Before(p, fs)
    BY <1>1 DEF Before
  <2>2. \A p \in ToSet(tm2) : Before(fs, p)
    BY <1>1 DEF Before
  <2>3. InOrder(Append(jobs, fs), tm2)
    BY <1>2, <2>1, <2>2, OrderAppendedJob
  <2>4. QED
    BY <1>3, <2>3
<1>8. \A id \in DOMAIN im : id \in DOMAIN im2 /\ im2[id] = im[id]
  BY <1>3
<1>9. ASSUME NEW j \in ToSet(jobs)
      PROVE  /\ RequestID(j) \in DOMAIN im2 /\ im2[RequestID(j)] = im[RequestID(j)]
             /\ j \in Packet
  <2>1. RequestID(j) \in Ids(All(rq)) /\ DOMAIN im = Ids(All(rq))
    BY <1>2 DEF Records
  <2>2. PICK k \in DOMAIN jobs : jobs[k] = j
    BY <1>2, ElementsAt
  <2>3. QED
    BY <1>2, <1>8, <2>1, <2>2
<1>10. ASSUME NEW j \in ToSet(jobs2), ExchangeOf(j.id) = x
       PROVE  JobOK(j, x, e, rp[x], wr[x], im2)
  <2>1. CASE j = fs
    BY <1>1, <2>1
  <2>2. CASE j # fs
    <3>1. j \in ToSet(jobs)
      BY <1>4, <2>2
    <3>2. JobOK(j, x, e, rp[x], wr[x], im)
      BY <1>1, <1>10, <3>1
    <3>3. QED
      BY <1>9, <1>10, <3>1, <3>2, JobKept
  <2>3. QED
    BY <2>1, <2>2
<1> HIDE DEF jobs, jobs2
<1>11. Types(rq2, sq2, im2, tm2, FALSE, ex2, rp, wr)
  BY <1>2, <1>3, <1>6 DEF Types
<1>12. Untouched(x, ex, rp, wr, ex2, rp, wr)
  BY <1>6 DEF Untouched
<1>13. OthersKept(x, jobs, im, tm, jobs2, im2, tm2)
  <2>1. ASSUME NEW j \in ToSet(jobs2), ExchangeOf(j.id) # x
        PROVE  /\ j \in ToSet(jobs) /\ RequestID(j) \in DOMAIN im2
               /\ im2[RequestID(j)] = im[RequestID(j)]
    <3>1. j \in ToSet(jobs)
      BY <1>4, <2>1
    <3>2. QED
      BY <1>9, <3>1
  <2>2. \A id \in Ids(jobs) \cup Ids(tm) :
          ExchangeOf(id) # x => id \in Ids(jobs2) \cup Ids(tm2)
    BY <1>1, <1>5
  <2>3. QED
    BY <1>1, <2>1, <2>2, Zenon DEF OthersKept
<1>14. BooksOf(x, jobs2, im2, tm2, ex2[x], rp[x], wr[x])
  <2>1. Ids(jobs2) \cup Ids(tm2) = Ids(jobs) \cup {fs.id} \cup Ids(tm2)
    BY <1>5
  <2>2. NoneLost(x, e, rp[x], wr[x], Ids(jobs2) \cup Ids(tm2))
    BY <1>1, <2>1
  <2>3. BooksOf(x, jobs2, im2, tm2, e, rp[x], wr[x])
    BY <1>1, <1>10, <2>2, Zenon DEF BooksOf
  <2>4. QED
    BY <1>6, <2>3
<1>15. Records(rq2, sq2, im2)
  BY <1>3
<1>16. QED
  BY <1>7, <1>11, <1>12, <1>13, <1>14, <1>15, FrameInv DEF jobs, jobs2

-----------------------------------------------------------------------------
(* A new request. *)

\* The invariant of what the daemon keeps after the step.
StepInv == InvOf(reqQ', subreqQ', infoMap', timers', aborted', exchange', replies', written')

\* The invariant, taken apart.
LEMMA NotAborted ==
  ASSUME Inv, ~aborted
  PROVE  /\ config \in Configurations
         /\ InvOf(reqQ, subreqQ, infoMap, timers, aborted, exchange, replies, written)
         /\ aborted = FALSE
<1>1. /\ config \in Configurations
      /\ InvOf(reqQ, subreqQ, infoMap, timers, aborted, exchange, replies, written)
  BY Zenon DEF Inv
<1>2. aborted \in BOOLEAN
  BY <1>1 DEF InvOf, Types
<1>3. aborted = FALSE
  BY <1>2
<1>4. QED
  BY <1>1, <1>3

\* Nothing of an exchange is there before it is asked.
LEMMA NothingNew ==
  ASSUME Inv, NEW x \in Exchanges, ~exchange[x].asked
  PROVE  /\ \A p \in ToSet(All(subreqQ)) \cup ToSet(timers) : ExchangeOf(p.id) # x
         /\ \A id \in DOMAIN infoMap : ExchangeOf(id) # x
         /\ replies[x] = <<>> /\ written[x] = <<>>
<1>1. /\ config \in Configurations
      /\ InvOf(reqQ, subreqQ, infoMap, timers, aborted, exchange, replies, written)
  BY Zenon DEF Inv
<1>2. QED
  BY <1>1, NothingOfNew

\* It waits for its processing time.
LEMMA NewScheduled ==
  ASSUME Inv, RoomForPackets, ~aborted, NEW x \in Exchanges, ~exchange[x].asked,
         NEW e \in Asking, e.size \in config.sizes[x], History(e, <<>>, <<>>),
         NEW pkt \in Packet, ExchangeOf(pkt.id) = x, TimerOK(pkt, x, e, <<>>, <<>>),
         exchange' = [exchange EXCEPT ![x] = e], timers' = Append(timers, pkt),
         UNCHANGED <<reqQ, subreqQ, infoMap, aborted, replies, written>>
  PROVE  StepInv
<1>1. /\ config \in Configurations /\ aborted = FALSE
      /\ InvOf(reqQ, subreqQ, infoMap, timers, aborted, exchange, replies, written)
  BY NotAborted
<1>2. /\ \A p \in ToSet(All(subreqQ)) \cup ToSet(timers) : ExchangeOf(p.id) # x
      /\ replies[x] = <<>> /\ written[x] = <<>>
  BY NothingNew
<1>3. NoneLost(x, e, replies[x], written[x],
               Ids(All(subreqQ)) \cup Ids(timers) \cup {pkt.id})
  BY <1>2 DEF NoneLost
<1>4. InvOf(reqQ, subreqQ, infoMap, Append(timers, pkt), FALSE, exchange', replies, written)
  <2>1. History(e, replies[x], written[x]) /\ TimerOK(pkt, x, e, replies[x], written[x])
    BY <1>2
  <2>2. ScheduledBooks(x, e, replies[x], written[x], All(subreqQ), infoMap, timers, pkt)
    BY <1>2, <1>3, <2>1, Zenon DEF ScheduledBooks
  <2>3. QED
    BY <1>1, <2>2, ScheduledInv
<1>5. QED
  BY <1>1, <1>4 DEF StepInv

\* It goes to the file system.
LEMMA NewEnqueued ==
  ASSUME Inv, RoomForPackets, ~aborted, NEW x \in Exchanges, ~exchange[x].asked,
         NEW e \in Asking, e.size \in config.sizes[x], History(e, <<>>, <<>>),
         NEW pkt \in Packet, ExchangeOf(pkt.id) = x,
         FirstSubreq(pkt) \in Packet, RequestID(FirstSubreq(pkt)) = pkt.id,
         ExchangeOf(FirstSubreq(pkt).id) = x,
         \A im2 : pkt.id \in DOMAIN im2 /\ im2[pkt.id] = Info(pkt) =>
                    JobOK(FirstSubreq(pkt), x, e, <<>>, <<>>, im2),
         exchange' = [exchange EXCEPT ![x] = e], EnqueueDispatchVFSReqs(pkt),
         UNCHANGED <<timers, aborted, replies, written>>
  PROVE  StepInv
<1> DEFINE fs == FirstSubreq(pkt)
<1>1. /\ config \in Configurations /\ aborted = FALSE
      /\ InvOf(reqQ, subreqQ, infoMap, timers, aborted, exchange, replies, written)
  BY NotAborted
<1>2. /\ \A p \in ToSet(All(subreqQ)) \cup ToSet(timers) : ExchangeOf(p.id) # x
      /\ \A id \in DOMAIN infoMap : ExchangeOf(id) # x
      /\ replies[x] = <<>> /\ written[x] = <<>>
  BY NothingNew
<1>3. /\ reqQ \in Queues /\ subreqQ \in Queues /\ Records(reqQ, subreqQ, infoMap)
      /\ infoMap \in [DOMAIN infoMap -> Infos] /\ DOMAIN infoMap \subseteq Nat
      /\ timers \in Seq(Packet) /\ InOrder(All(subreqQ), timers)
  BY <1>1 DEF InvOf, Types
<1>4. EnqueuedTo(reqQ, subreqQ, infoMap, pkt, fs, reqQ', subreqQ', infoMap')
  BY Zenon DEF EnqueuedTo, EnqueueDispatchVFSReqs, Remember
<1>5. pkt.id \notin DOMAIN infoMap
  BY <1>2
<1>6. NoneLost(x, e, replies[x], written[x],
               Ids(All(subreqQ)) \cup {fs.id} \cup Ids(timers))
  BY <1>2 DEF NoneLost
<1>7. fs \in Packet /\ RequestID(fs) = pkt.id /\ ExchangeOf(fs.id) = x
  OBVIOUS
<1>8. JobOK(fs, x, e, replies[x], written[x], infoMap')
  <2>1. pkt.id \in DOMAIN infoMap' /\ infoMap'[pkt.id] = Info(pkt)
    <3> HIDE DEF fs
    <3>1. QED
      BY <1>3, <1>4, <1>5, <1>7, EnqueuedFacts
  <2>2. QED
    BY <1>2, <2>1
<1> HIDE DEF fs
<1>9. EnqueuedBooks(x, e, replies[x], written[x], All(subreqQ), infoMap, timers, fs,
                   infoMap', timers)
  <2>1. History(e, replies[x], written[x])
    BY <1>2
  <2>2. QED
    BY <1>2, <1>6, <1>8, <2>1, Zenon DEF EnqueuedBooks
<1>10. InvOf(reqQ', subreqQ', infoMap', timers, FALSE, exchange', replies, written)
  BY <1>1, <1>3, <1>4, <1>5, <1>7, <1>9, EnqueuedInv
<1>11. QED
  BY <1>1, <1>10 DEF StepInv

\* handleReadWriteReq: a read,
LEMMA ReadRequested ==
  ASSUME Inv, RoomForPackets, NEW x \in Exchanges, NEW size \in config.sizes[x],
         HandleReadRequest(x, size)
  PROVE  StepInv
<1> DEFINE pkt == [id |-> x * RidOffset, kind |-> "SELF_PFS_R_REQ", read |-> TRUE,
                   loff |-> 0, size |-> size]
           e == [asked |-> TRUE, read |-> TRUE, size |-> size, toCome |-> 0]
           fs == FirstSubreq(pkt)
           R == x * RidOffset
<1>1. config \in Configurations /\ size \in Nat \ {0}
  BY ConfigFacts DEF Inv
<1>2. R \in Nat /\ ExchangeOf(R) = x /\ OrigID(R) = R
  BY <1>1, BaseFacts
<1>3. R + 1 \in Nat /\ ExchangeOf(R + 1) = x /\ OrigID(R + 1) = R
      /\ RidOffset \in Nat /\ RidOffset > 2 /\ SubreqSize \in Nat \ {0}
  <2>1. RidOffset \in Nat /\ RidOffset > 2 /\ SubreqSize \in Nat \ {0}
    BY <1>1, ConfigFacts
  <2>2. 1 \in 0 .. RidOffset - 1
    BY <2>1
  <2>3. QED
    BY <1>1, <2>1, <2>2, IdFacts
<1> HIDE DEF R
<1>4. pkt \in Packet /\ pkt.id = R
  BY <1>1, <1>2 DEF Packet, Kinds, R
<1>5. e \in Asking /\ e.size \in config.sizes[x]
  BY <1>1 DEF Asking
<1>6. History(e, <<>>, <<>>)
  BY <1>1 DEF History, Contiguous, Reached, Small
<1>7. /\ ~aborted /\ ~exchange[x].asked /\ exchange' = [exchange EXCEPT ![x] = e]
      /\ UNCHANGED <<aborted, replies, written>>
  BY DEF HandleReadRequest
<1>8. CASE "read_metadata" \in Delays
  <2>1. timers' = Append(timers, pkt) /\ UNCHANGED <<reqQ, infoMap, subreqQ>>
    BY <1>8 DEF HandleReadRequest, Scheduled
  <2>2. TimerOK(pkt, x, e, <<>>, <<>>)
    BY DEF TimerOK, Small
  <2> HIDE DEF pkt, e
  <2>3. QED
    BY <1>2, <1>4, <1>5, <1>6, <1>7, <2>1, <2>2, NewScheduled
<1>9. CASE "read_metadata" \notin Delays
  <2>1. EnqueueDispatchVFSReqs(pkt) /\ UNCHANGED timers
    BY <1>9 DEF HandleReadRequest
  <2>2. /\ fs \in Packet /\ fs.read /\ fs.loff = 0
        /\ fs.id = IF size > SubreqSize THEN R + 1 ELSE R
        /\ fs.size = IF size > SubreqSize THEN SubreqSize ELSE size
    BY <1>1, <1>2, <1>3 DEF FirstSubreq, Packet, Kinds, R
  <2>3. RequestID(fs) = pkt.id /\ ExchangeOf(fs.id) = x
    BY <1>2, <1>3, <1>4, <2>2 DEF RequestID
  <2>4. Info(pkt).lub = size
    BY <1>1 DEF Info
  <2>5. /\ fs.id \in R .. R + RidOffset - 1 /\ fs.size > 0 /\ EndOf(fs) <= size
        /\ fs.id = R <=> EndOf(fs) = size
    <3> HIDE DEF fs
    <3>1. QED
      BY <1>1, <1>2, <1>3, <2>2 DEF EndOf
  <2>6. Reached(<<>>) = 0
    BY DEF Reached
  <2>7. ASSUME NEW im2, pkt.id \in DOMAIN im2, im2[pkt.id] = Info(pkt)
        PROVE  JobOK(fs, x, e, <<>>, <<>>, im2)
    <3> HIDE DEF fs, pkt
    <3>1. ReadJob(fs, x, e, <<>>, im2)
      BY <1>4, <2>2, <2>4, <2>5, <2>6, <2>7 DEF ReadJob, R
    <3>2. QED
      BY <3>1 DEF JobOK
  <2> HIDE DEF pkt, e
  <2>8. QED
    BY <1>2, <1>4, <1>5, <1>6, <1>7, <2>1, <2>2, <2>3, <2>7, NewEnqueued
<1>10. QED
  BY <1>8, <1>9

\* a small write,
LEMMA SmallWriteRequested ==
  ASSUME Inv, RoomForPackets, NEW x \in Exchanges, NEW size \in config.sizes[x],
         HandleSmallWriteRequest(x, size)
  PROVE  StepInv
<1> DEFINE pkt == [id |-> x * RidOffset, kind |-> "SELF_PFS_W_REQ", read |-> FALSE,
                   loff |-> 0, size |-> size]
           e == [asked |-> TRUE, read |-> FALSE, size |-> size, toCome |-> 0]
           fs == FirstSubreq(pkt)
           R == x * RidOffset
<1>1. config \in Configurations /\ size \in Nat \ {0}
  BY ConfigFacts DEF Inv
<1>2. R \in Nat /\ ExchangeOf(R) = x
  BY <1>1, BaseFacts
<1> HIDE DEF R
<1>3. pkt \in Packet /\ pkt.id = R
  BY <1>1, <1>2 DEF Packet, Kinds, R
<1>4. e \in Asking /\ e.size \in config.sizes[x]
  BY <1>1 DEF Asking
<1>5. History(e, <<>>, <<>>)
  BY <1>1 DEF History
<1>6. /\ ~aborted /\ ~exchange[x].asked /\ exchange' = [exchange EXCEPT ![x] = e]
      /\ UNCHANGED <<aborted, replies, written>> /\ size < SmallIO
  BY DEF HandleSmallWriteRequest
<1>7. CASE Delays \cap {"write_data", "write_metadata"} # {}
  <2>1. timers' = Append(timers, pkt) /\ UNCHANGED <<reqQ, infoMap, subreqQ>>
    BY <1>7 DEF HandleSmallWriteRequest, Scheduled
  <2>2. TimerOK(pkt, x, e, <<>>, <<>>)
    BY <1>7, Zenon DEF TimerOK, Small
  <2> HIDE DEF pkt, e
  <2>3. QED
    BY <1>2, <1>3, <1>4, <1>5, <1>6, <2>1, <2>2, NewScheduled
<1>8. CASE Delays \cap {"write_data", "write_metadata"} = {}
  <2>1. EnqueueDispatchVFSReqs(pkt) /\ UNCHANGED timers
    BY <1>8 DEF HandleSmallWriteRequest
  <2>2. fs \in Packet /\ ~fs.read /\ fs.loff = 0 /\ fs.id = R /\ fs.size = size
    BY <1>1, <1>2 DEF FirstSubreq, Packet, Kinds, R
  <2>3. RequestID(fs) = pkt.id /\ ExchangeOf(fs.id) = x
    BY <1>2, <1>3, <2>2 DEF RequestID
  <2>4. ~Info(pkt).decision
    BY DEF Info
  <2>5. Small(e)
    BY <1>6, <1>8 DEF Small
  <2>6. ASSUME NEW im2, pkt.id \in DOMAIN im2, im2[pkt.id] = Info(pkt)
        PROVE  JobOK(fs, x, e, <<>>, <<>>, im2)
    <3> HIDE DEF fs, pkt
    <3>1. SmallJob(fs, x, e, <<>>, im2)
      BY <1>3, <2>2, <2>4, <2>5, <2>6 DEF SmallJob, R
    <3>2. QED
      BY <3>1 DEF JobOK
  <2> HIDE DEF pkt, e
  <2>7. QED
    BY <1>2, <1>3, <1>4, <1>5, <1>6, <2>1, <2>2, <2>3, <2>6, NewEnqueued
<1>9. QED
  BY <1>7, <1>8

\* A write is granted: nothing else is about its exchange.
Granted(x, e, rs, ws) ==
  /\ e.asked /\ ~e.read /\ ~Small(e) /\ e.size \in config.sizes[x]
  /\ e.toCome = PacketCount(e.size)
  /\ Len(rs) = 1 /\ rs[1].kind = "PFS_W_RESP" /\ ws = <<>>

\* A write is granted: none of its data has arrived.
LEMMA GrantedInv ==
  ASSUME config \in Configurations, RoomForPackets,
         NEW rq, NEW sq, NEW im, NEW tm, NEW ab, NEW ex, NEW rp, NEW wr,
         InvOf(rq, sq, im, tm, ab, ex, rp, wr),
         NEW x \in Exchanges,
         NEW ex2 \in [Exchanges -> Asking], NEW rp2 \in [Exchanges -> Seq(Packets)],
         Untouched(x, ex, rp, wr, ex2, rp2, wr), Granted(x, ex2[x], rp2[x], wr[x]),
         NEW tm2 \in Seq(Packet), InOrder(All(sq), tm2),
         OthersKept(x, All(sq), im, tm, All(sq), im, tm2),
         \A p \in ToSet(All(sq)) \cup ToSet(tm2) : ExchangeOf(p.id) # x
  PROVE  InvOf(rq, sq, im, tm2, FALSE, ex2, rp2, wr)
<1> DEFINE e == ex2[x]
           rs == rp2[x]
<1>1. /\ Types(rq, sq, im, tm, ab, ex, rp, wr) /\ Records(rq, sq, im)
      /\ e \in Asking /\ rs \in Seq(Packets)
  BY DEF InvOf, Types
<1>2. /\ e.asked /\ ~e.read /\ ~Small(e) /\ e.size \in config.sizes[x]
      /\ e.toCome = PacketCount(e.size)
      /\ Len(rs) = 1 /\ rs[1].kind = "PFS_W_RESP" /\ wr[x] = <<>>
  BY Zenon DEF Granted
<1> HIDE DEF e, rs
<1>3. Types(rq, sq, im, tm2, FALSE, ex2, rp2, wr)
  BY <1>1 DEF Types
<1>4. BooksOf(x, All(sq), im, tm2, e, rs, wr[x])
  <2> DEFINE n == PacketCount(e.size)
  <2>1. e.size \in Nat \ {0} /\ n \in Nat \ {0} /\ rs # <<>>
    <3>1. e.size \in Nat \ {0}
      BY <1>2, ConfigFacts
    <3>2. rs # <<>>
      <4>1. Len(<<>>) = 0 /\ Len(rs) = 1
        BY <1>2
      <4>2. Len(rs) # Len(<<>>)
        BY <4>1
      <4>3. QED
        BY <4>2, Zenon
    <3>3. QED
      BY <3>1, <3>2, PacketCountFacts
  <2>2. Len(wr[x]) = 0 /\ DOMAIN wr[x] = {}
    BY <1>2
  <2> HIDE DEF n
  <2>3. History(e, rs, wr[x])
    BY <1>1, <1>2, <2>1, <2>2 DEF History, n
  <2>4. NoneLost(x, e, rs, wr[x], Ids(All(sq)) \cup Ids(tm2))
    <3>1. Pending(e, wr[x]) = {}
      BY <1>1, <1>2, <2>1, <2>2 DEF Pending, n
    <3>2. QED
      BY <3>1 DEF NoneLost
  <2>5. QED
    BY <1>2, <2>3, <2>4, Zenon DEF BooksOf
<1>5. QED
  BY <1>1, <1>3, <1>4, FrameInv DEF e, rs

\* What of the jobs and packets of other exchanges is still there.
LEMMA KeptWhenTimersChange ==
  ASSUME config \in Configurations, NEW rq, NEW sq, NEW im, NEW tm, NEW ab, NEW ex, NEW rp,
         NEW wr, InvOf(rq, sq, im, tm, ab, ex, rp, wr), NEW x, NEW tm2,
         \A p \in ToSet(tm2) : ExchangeOf(p.id) # x => p \in ToSet(tm),
         \A p \in ToSet(tm) : ExchangeOf(p.id) # x => p \in ToSet(tm2)
  PROVE  OthersKept(x, All(sq), im, tm, All(sq), im, tm2)
<1>1. Records(rq, sq, im)
  BY DEF InvOf
<1>2. \A j \in ToSet(All(sq)) : RequestID(j) \in DOMAIN im
  <2>1. \A j \in ToSet(All(sq)) : RequestID(j) \in Ids(All(rq))
    BY <1>1 DEF Records
  <2>2. DOMAIN im = Ids(All(rq))
    BY <1>1 DEF Records
  <2>3. QED
    BY <2>1, <2>2, Zenon
<1>3. \A id \in Ids(tm) : ExchangeOf(id) # x => id \in Ids(tm2)
  BY DEF Ids
<1>4. QED
  BY <1>2, <1>3 DEF OthersKept

\* handleReadWriteReq: any other write.
LEMMA WriteRequested ==
  ASSUME Inv, RoomForPackets, NEW x \in Exchanges, NEW size \in config.sizes[x],
         HandleWriteRequest(x, size)
  PROVE  StepInv
<1> DEFINE pkt == [id |-> x * RidOffset, kind |-> "SELF_PFS_W_REQ", read |-> FALSE,
                   loff |-> 0, size |-> size]
           asked(n) == [asked |-> TRUE, read |-> FALSE, size |-> size, toCome |-> n]
           resp == <<[kind |-> "PFS_W_RESP", loff |-> 0, size |-> size]>>
           R == x * RidOffset
<1>1. /\ config \in Configurations /\ size \in Nat \ {0} /\ SmallIO \in Nat
      /\ PacketCount(size) \in Nat \ {0}
  BY ConfigFacts, PacketCountFacts DEF Inv
<1>2. R \in Nat /\ ExchangeOf(R) = x
  BY <1>1, BaseFacts
<1> HIDE DEF R
<1>3. pkt \in Packet /\ pkt.id = R
  BY <1>1, <1>2 DEF Packet, Kinds, R
<1>4. ~aborted /\ ~exchange[x].asked /\ size >= SmallIO
      /\ UNCHANGED <<reqQ, subreqQ, infoMap, aborted, written>>
  BY DEF HandleWriteRequest
<1>5. CASE "write_metadata" \in Delays
  <2> DEFINE e == asked(0)
  <2>1. /\ exchange' = [exchange EXCEPT ![x] = e] /\ timers' = Append(timers, pkt)
        /\ UNCHANGED replies
    BY <1>5 DEF HandleWriteRequest, Scheduled
  <2>2. TimerOK(pkt, x, e, <<>>, <<>>)
    BY <1>1, <1>4 DEF TimerOK, Small
  <2>3. e \in Asking /\ e.size \in config.sizes[x] /\ History(e, <<>>, <<>>)
    BY <1>1 DEF Asking, History
  <2> HIDE DEF pkt, e
  <2>4. QED
    BY <1>2, <1>3, <1>4, <2>1, <2>2, <2>3, NewScheduled
<1>6. CASE "write_metadata" \notin Delays
  <2> DEFINE e == asked(PacketCount(size))
  <2>1. /\ exchange' = [exchange EXCEPT ![x] = e]
        /\ replies' = [replies EXCEPT ![x] = replies[x] \o resp]
        /\ UNCHANGED timers
    BY <1>6 DEF HandleWriteRequest, Reply
  <2>2. e \in Asking /\ resp \in Seq(Packets)
    BY <1>1 DEF Asking, Packets, Answers
  <2>3. Granted(x, e, resp, <<>>)
    BY <1>1, <1>4 DEF Granted, Small
  <2>4. /\ InvOf(reqQ, subreqQ, infoMap, timers, aborted, exchange, replies, written)
        /\ aborted = FALSE
    BY <1>4, NotAborted
  <2>5. /\ \A p \in ToSet(All(subreqQ)) \cup ToSet(timers) : ExchangeOf(p.id) # x
        /\ replies[x] = <<>> /\ written[x] = <<>>
    BY <1>4, NothingNew
  <2>6. /\ timers \in Seq(Packet) /\ InOrder(All(subreqQ), timers)
        /\ exchange \in [Exchanges -> Asking] /\ replies \in [Exchanges -> Seq(Packets)]
    BY <2>4 DEF InvOf, Types
  <2>7. OthersKept(x, All(subreqQ), infoMap, timers, All(subreqQ), infoMap, timers)
    BY <1>1, <2>4, KeptWhenTimersChange
  <2>8. <<>> \o resp = resp
    BY <2>2
  <2> HIDE DEF e, resp
  <2>9. replies' = [replies EXCEPT ![x] = resp]
    BY <2>1, <2>5, <2>8
  <2>10. /\ exchange' \in [Exchanges -> Asking] /\ replies' \in [Exchanges -> Seq(Packets)]
         /\ exchange'[x] = e /\ replies'[x] = resp
    BY <2>1, <2>2, <2>6, <2>9
  <2>11. Untouched(x, exchange, replies, written, exchange', replies', written)
    BY <2>1, <2>6, <2>9 DEF Untouched
  <2>12. Granted(x, exchange'[x], replies'[x], written[x])
    BY <2>3, <2>5, <2>10
  <2>13. InvOf(reqQ, subreqQ, infoMap, timers, FALSE, exchange', replies', written)
    BY <1>1, <2>4, <2>5, <2>6, <2>7, <2>10, <2>11, <2>12, GrantedInv
  <2>14. QED
    BY <1>4, <2>1, <2>4, <2>13 DEF StepInv
<1>7. QED
  BY <1>5, <1>6

-----------------------------------------------------------------------------
(* The data of a write. *)

IsDataJob(j, x, size, k, im) ==
  /\ j = [DataPacket(x, size, k) EXCEPT !.kind = "LFILE_REQ"]
  /\ j.id \in DOMAIN im /\ im[j.id].decision = (k = PacketCount(size))

\* Once a write is granted, only its data packets are on their way, each of them once.
LEMMA GrantedFacts ==
  ASSUME config \in Configurations, RoomForPackets, NEW rq, NEW sq, NEW im, NEW tm, NEW ab,
         NEW ex, NEW rp, NEW wr, InvOf(rq, sq, im, tm, ab, ex, rp, wr),
         NEW x \in Exchanges, ~ex[x].read, rp[x] # <<>>
  PROVE  /\ ex[x].asked /\ ~Small(ex[x]) /\ ex[x].size \in config.sizes[x]
         /\ ex[x] \in Asking /\ rp[x] \in Seq(Packets) /\ wr[x] \in Seq(Spans)
         /\ History(ex[x], rp[x], wr[x])
         /\ Pending(ex[x], wr[x]) \subseteq 1 .. PacketCount(ex[x].size)
         /\ \A p \in ToSet(tm) : ExchangeOf(p.id) = x =>
              /\ "write_data" \in Delays /\ ~p.read
              /\ \E k \in Pending(ex[x], wr[x]) : p = DataPacket(x, ex[x].size, k)
                                                 /\ p.id = x * RidOffset + k
         /\ \A j \in ToSet(All(sq)) : ExchangeOf(j.id) = x =>
              /\ ~j.read
              /\ \E k \in Pending(ex[x], wr[x]) : IsDataJob(j, x, ex[x].size, k, im)
                                                 /\ j.id = x * RidOffset + k
<1> DEFINE e == ex[x]
           rs == rp[x]
           ws == wr[x]
<1>1. /\ sq \in Queues /\ tm \in Seq(Packet) /\ All(sq) \in Seq(Packet)
      /\ ex \in [Exchanges -> Asking] /\ rp \in [Exchanges -> Seq(Packets)]
      /\ wr \in [Exchanges -> Seq(Spans)] /\ Exchanged(All(sq), im, tm, ex, rp, wr)
  BY QueueFields DEF InvOf, Types
<1>2. e \in Asking /\ rs \in Seq(Packets) /\ ws \in Seq(Spans)
  BY <1>1
<1>3. History(e, rs, ws) /\ (e.asked => e.size \in config.sizes[x])
  BY <1>1 DEF Exchanged
<1> HIDE DEF e, rs, ws
<1>4. ~e.read /\ rs # <<>>
  BY DEF e, rs
<1>5. e.asked /\ ~Small(e)
  BY <1>3, <1>4 DEF History
<1>6. e.size \in config.sizes[x]
  BY <1>3, <1>5
<1>7. Pending(e, ws) \subseteq 1 .. PacketCount(e.size)
  BY <1>2, <1>3, <1>4, <1>6, PendingFacts
<1>8. \A k \in Pending(e, ws) : /\ DataPacket(x, e.size, k).id = x * RidOffset + k
                                /\ ~DataPacket(x, e.size, k).read
  <2>1. \A k \in Pending(e, ws) : DataPacket(x, e.size, k).id = x * RidOffset + k
    BY <1>6, <1>7, DataPacketFacts
  <2>2. QED
    BY <2>1 DEF DataPacket
<1>9. ASSUME NEW p \in ToSet(tm), ExchangeOf(p.id) = x
      PROVE  /\ "write_data" \in Delays /\ ~p.read
             /\ \E k \in Pending(e, ws) : p = DataPacket(x, e.size, k)
                                         /\ p.id = x * RidOffset + k
  <2>1. PICK m \in DOMAIN tm : tm[m] = p
    BY <1>1, ElementsAt
  <2>2. TimerOK(p, x, e, rs, ws)
    BY <1>1, <1>9, <2>1 DEF Exchanged, e, rs, ws
  <2>3. "write_data" \in Delays /\ \E k \in Pending(e, ws) : p = DataPacket(x, e.size, k)
    BY <1>4, <2>2, Zenon DEF TimerOK
  <2>4. QED
    BY <1>8, <2>3
<1>10. ASSUME NEW j \in ToSet(All(sq)), ExchangeOf(j.id) = x
       PROVE  /\ ~j.read
              /\ \E k \in Pending(e, ws) : IsDataJob(j, x, e.size, k, im)
                                          /\ j.id = x * RidOffset + k
  <2>1. PICK m \in DOMAIN All(sq) : All(sq)[m] = j
    BY <1>1, ElementsAt
  <2>2. JobOK(j, x, e, rs, ws, im)
    BY <1>1, <1>10, <2>1 DEF Exchanged, e, rs, ws
  <2>3. DataJob(j, x, e, rs, ws, im)
    BY <1>4, <1>5, <2>2 DEF JobOK, ReadJob, SmallJob
  <2>4. PICK k \in Pending(e, ws) : IsDataJob(j, x, e.size, k, im)
    BY <2>3, Zenon DEF DataJob, IsDataJob
  <2>5. j.id = x * RidOffset + k /\ ~j.read
    <3>1. j = [DataPacket(x, e.size, k) EXCEPT !.kind = "LFILE_REQ"]
      BY <2>4, Zenon DEF IsDataJob
    <3>2. j.id = DataPacket(x, e.size, k).id /\ j.read = DataPacket(x, e.size, k).read
      BY <3>1 DEF DataPacket
    <3>3. QED
      BY <1>8, <3>2
  <2>6. QED
    BY <2>4, <2>5
<1>11. QED
  BY <1>2, <1>3, <1>5, <1>6, <1>7, <1>9, <1>10 DEF e, rs, ws

\* The next packet to arrive.
LEMMA DataPacketArrived ==
  ASSUME Inv, RoomForPackets, NEW x \in Exchanges, HandleWriteDataPacket(x)
  PROVE  StepInv
<1> DEFINE e == exchange[x]
           rs == replies[x]
           ws == written[x]
           n == PacketCount(e.size)
           k == Arrived(x) + 1
           e2 == [e EXCEPT !.toCome = e.toCome - 1]
           pkt == DataPacket(x, e.size, k)
           jobs == All(subreqQ)
<1>1. /\ ~aborted /\ e.toCome > 0
      /\ exchange' = [exchange EXCEPT ![x] = e2]
      /\ UNCHANGED <<aborted, replies, written>>
      /\ IF "write_data" \in Delays
         THEN timers' = Append(timers, pkt) /\ UNCHANGED <<reqQ, infoMap, subreqQ>>
         ELSE EnqueueDispatchVFSReqs(pkt) /\ UNCHANGED timers
  BY DEF HandleWriteDataPacket, Scheduled
<1>2. /\ config \in Configurations /\ aborted = FALSE
      /\ InvOf(reqQ, subreqQ, infoMap, timers, aborted, exchange, replies, written)
  BY <1>1, NotAborted
<1>3. /\ reqQ \in Queues /\ subreqQ \in Queues /\ Records(reqQ, subreqQ, infoMap)
      /\ infoMap \in [DOMAIN infoMap -> Infos] /\ DOMAIN infoMap \subseteq Nat
      /\ timers \in Seq(Packet) /\ InOrder(jobs, timers) /\ exchange \in [Exchanges -> Asking]
      /\ History(e, rs, ws) /\ NoneLost(x, e, rs, ws, Ids(jobs) \cup Ids(timers))
  BY <1>2 DEF InvOf, Types, Exchanged
<1>4. ~e.read /\ rs # <<>> /\ e \in Asking
  BY <1>1, <1>3 DEF History
<1>5. /\ e.asked /\ ~Small(e) /\ e.size \in config.sizes[x]
      /\ ws \in Seq(Spans)
      /\ \A p \in ToSet(timers) : ExchangeOf(p.id) = x =>
           /\ "write_data" \in Delays /\ ~p.read
           /\ \E m \in Pending(e, ws) : p = DataPacket(x, e.size, m)
                                       /\ p.id = x * RidOffset + m
      /\ \A j \in ToSet(jobs) : ExchangeOf(j.id) = x =>
           /\ ~j.read
           /\ \E m \in Pending(e, ws) : IsDataJob(j, x, e.size, m, infoMap)
                                       /\ j.id = x * RidOffset + m
  BY <1>2, <1>4, GrantedFacts
<1>6. /\ e.size \in Nat \ {0} /\ n \in Nat \ {0} /\ Len(ws) \in Nat /\ e.toCome \in Nat
      /\ e.toCome <= n /\ Len(ws) <= n - e.toCome
  BY <1>2, <1>3, <1>4, <1>5, PendingFacts
<1>7. k = n - e.toCome + 1
  BY DEF Arrived
<1>8. /\ e2 \in Asking /\ e2.toCome = e.toCome - 1 /\ e2.asked /\ ~e2.read
      /\ e2.size = e.size /\ ~Small(e2)
  <2>1. e.toCome - 1 \in Nat
    BY <1>1, <1>6
  <2>2. QED
    BY <1>4, <1>5, <2>1 DEF Asking, Small
<1>9. k \in 1 .. n /\ k \in Nat
  BY <1>1, <1>6, <1>7
<1>10. pkt \in Packet /\ pkt.id = x * RidOffset + k /\ ExchangeOf(pkt.id) = x
  BY <1>2, <1>5, <1>9, DataPacketFacts
<1> HIDE DEF e, rs, ws, n, k, e2, pkt, jobs
<1>11. History(e2, rs, ws)
  <2>1. /\ \A m \in DOMAIN ws :
             ws[m] = [loff |-> (m-1) * PacketSizeLimit, size |-> PacketSize(e.size, m)]
        /\ rs[1].kind = "PFS_W_RESP" /\ Len(rs) = IF Len(ws) = n THEN 2 ELSE 1
    BY <1>3, <1>4, Zenon DEF History, n
  <2>2. e2.toCome <= n /\ Len(ws) <= n - e2.toCome
    BY <1>6, <1>8
  <2>3. QED
    BY <1>4, <1>8, <2>1, <2>2 DEF History, n
<1>12. Pending(e2, ws) = Pending(e, ws) \cup {k} /\ \A m \in Pending(e, ws) : m < k
  BY <1>6, <1>7, <1>8, <1>9 DEF Pending, n
<1>13. x * RidOffset \in Nat /\ \A m \in Pending(e, ws) : x * RidOffset + m < pkt.id
  <2>1. x * RidOffset \in Nat
    BY <1>2, BaseFacts
  <2>2. Pending(e, ws) \subseteq Nat
    BY <1>6 DEF Pending, n
  <2> DEFINE R == x * RidOffset
  <2> HIDE DEF R
  <2>3. R \in Nat /\ pkt.id = R + k
    BY <1>10, <2>1 DEF R
  <2>4. \A m \in Pending(e, ws) : R + m < pkt.id
    BY <1>9, <1>12, <2>2, <2>3
  <2>5. QED
    BY <2>1, <2>4 DEF R
<1>14. NoneLost(x, e2, rs, ws, Ids(jobs) \cup {pkt.id} \cup Ids(timers))
  BY <1>3, <1>4, <1>8, <1>10, <1>12 DEF NoneLost
<1>15. ASSUME NEW p \in ToSet(timers), ExchangeOf(p.id) = x
       PROVE  /\ TimerOK(p, x, e2, rs, ws) /\ ~p.read /\ p.id < pkt.id
              /\ "write_data" \in Delays
  <2>1. /\ "write_data" \in Delays /\ ~p.read
        /\ \E m \in Pending(e, ws) : p = DataPacket(x, e.size, m) /\ p.id = x * RidOffset + m
    BY <1>5, <1>15
  <2>2. PICK m \in Pending(e, ws) : p = DataPacket(x, e.size, m) /\ p.id = x * RidOffset + m
    BY <2>1
  <2>3. TimerOK(p, x, e2, rs, ws)
    BY <1>4, <1>8, <1>12, <2>1, <2>2 DEF TimerOK
  <2>4. QED
    BY <1>13, <2>1, <2>2, <2>3
<1>16. ASSUME NEW j \in ToSet(jobs), ExchangeOf(j.id) = x
       PROVE  JobOK(j, x, e2, rs, ws, infoMap) /\ ~j.read /\ j.id < pkt.id
  <2>1. /\ ~j.read
        /\ \E m \in Pending(e, ws) : IsDataJob(j, x, e.size, m, infoMap)
                                    /\ j.id = x * RidOffset + m
    BY <1>5, <1>16
  <2>2. PICK m \in Pending(e, ws) : IsDataJob(j, x, e.size, m, infoMap)
                                    /\ j.id = x * RidOffset + m
    BY <2>1
  <2>3. DataJob(j, x, e2, rs, ws, infoMap)
    <3>1. m \in Pending(e2, ws)
      BY <1>12
    <3>2. QED
      BY <1>4, <1>8, <2>2, <3>1 DEF DataJob, IsDataJob
  <2>4. QED
    BY <1>8, <1>13, <2>1, <2>2, <2>3 DEF JobOK
<1>17. CASE "write_data" \in Delays
  <2>1. timers' = Append(timers, pkt) /\ UNCHANGED <<reqQ, infoMap, subreqQ>>
    BY <1>1, <1>17
  <2>2. TimerOK(pkt, x, e2, rs, ws)
    <3>1. k \in Pending(e2, ws) /\ pkt = DataPacket(x, e2.size, k)
      BY <1>8, <1>12 DEF pkt
    <3>2. QED
      BY <1>4, <1>8, <1>17, <3>1 DEF TimerOK
  <2>3. Ids(jobs) \cup {pkt.id} \cup Ids(timers) = Ids(jobs) \cup Ids(timers) \cup {pkt.id}
    OBVIOUS
  <2>4. NoneLost(x, e2, rs, ws, Ids(jobs) \cup Ids(timers) \cup {pkt.id})
    BY <1>14, <2>3
  <2>5. e2.asked => e2.size \in config.sizes[x]
    BY <1>5, <1>8
  <2>6. ScheduledBooks(x, e2, rs, ws, jobs, infoMap, timers, pkt)
    <3> HIDE DEF e2, rs, ws, jobs, pkt, n, k
    <3>1. QED
      BY <1>11, <1>12, <1>13, <1>15, <1>16, <2>2, <2>4, <2>5, Zenon DEF ScheduledBooks
  <2>7. InvOf(reqQ, subreqQ, infoMap, Append(timers, pkt), FALSE, exchange', replies, written)
    BY <1>1, <1>2, <1>8, <1>10, <1>11, <2>6, ScheduledInv DEF rs, ws, jobs
  <2>8. QED
    BY <1>1, <1>2, <2>1, <2>7 DEF StepInv
<1>18. CASE "write_data" \notin Delays
  <2> DEFINE fs == FirstSubreq(pkt)
  <2>1. EnqueueDispatchVFSReqs(pkt) /\ UNCHANGED timers
    BY <1>1, <1>18
  <2>2. EnqueuedTo(reqQ, subreqQ, infoMap, pkt, fs, reqQ', subreqQ', infoMap')
    BY <2>1, Zenon DEF EnqueuedTo, EnqueueDispatchVFSReqs, Remember
  <2>3. fs = [pkt EXCEPT !.kind = "LFILE_REQ"] /\ ~pkt.read
    BY DEF FirstSubreq, pkt, DataPacket
  <2>4. fs \in Packet /\ fs.id = pkt.id /\ ~fs.read
    BY <1>10, <2>3 DEF Packet, Kinds
  <2>5. RequestID(fs) = pkt.id
    BY <2>4 DEF RequestID
  <2>6. pkt.id \notin DOMAIN infoMap
    <3> SUFFICES ASSUME pkt.id \in DOMAIN infoMap PROVE FALSE
      OBVIOUS
    <3>1. PICK j \in ToSet(jobs) : RequestID(j) = pkt.id /\ ExchangeOf(j.id) = ExchangeOf(pkt.id)
      BY <1>2, RecordOfJob DEF jobs
    <3>2. ~j.read /\ j.id < pkt.id
      BY <1>10, <1>16, <3>1
    <3>3. j.id = pkt.id
      BY <3>1, <3>2 DEF RequestID
    <3>4. pkt.id \in Nat
      BY <1>10 DEF Packet
    <3>5. QED
      BY <3>2, <3>3, <3>4
  <2> HIDE DEF fs
  <2>7. pkt.id \in DOMAIN infoMap' /\ infoMap'[pkt.id] = Info(pkt)
    BY <1>3, <1>10, <2>2, <2>4, <2>5, <2>6, EnqueuedFacts
  <2>8. Info(pkt).decision = (k = n)
    BY DEF Info, pkt, DataPacket, n
  <2>9. JobOK(fs, x, e2, rs, ws, infoMap')
    <3>1. k \in Pending(e2, ws) /\ pkt = DataPacket(x, e2.size, k)
      BY <1>8, <1>12 DEF pkt
    <3>2. /\ fs = [DataPacket(x, e2.size, k) EXCEPT !.kind = "LFILE_REQ"]
          /\ fs.id \in DOMAIN infoMap' /\ infoMap'[fs.id].decision = (k = PacketCount(e2.size))
      BY <1>8, <2>3, <2>4, <2>7, <2>8, <3>1 DEF n
    <3>3. DataJob(fs, x, e2, rs, ws, infoMap')
      BY <1>4, <1>8, <3>1, <3>2, Zenon DEF DataJob
    <3>4. QED
      BY <1>8, <3>3 DEF JobOK
  <2>10. EnqueuedBooks(x, e2, rs, ws, jobs, infoMap, timers, fs, infoMap', timers)
    <3>1. e2.asked => e2.size \in config.sizes[x]
      BY <1>5, <1>8
    <3>2. \A p \in ToSet(timers) : ExchangeOf(p.id) # x
      BY <1>15, <1>18
    <3>3. NoneLost(x, e2, rs, ws, Ids(jobs) \cup {fs.id} \cup Ids(timers))
      BY <1>14, <2>4
    <3>4. \A j \in ToSet(jobs) : ExchangeOf(j.id) = x =>
            JobOK(j, x, e2, rs, ws, infoMap) /\ ~j.read /\ j.id < fs.id
      BY <1>16, <2>4
    <3>5. QED
      BY <1>11, <2>9, <3>1, <3>2, <3>3, <3>4, Zenon DEF EnqueuedBooks
  <2>11. ExchangeOf(fs.id) = x
    BY <1>10, <2>4
  <2>12. InvOf(reqQ', subreqQ', infoMap', timers, FALSE, exchange', replies, written)
    BY <1>1, <1>2, <1>3, <1>8, <1>10, <2>2, <2>4, <2>5, <2>6, <2>10, <2>11, EnqueuedInv
       DEF rs, ws, jobs
  <2>13. QED
    BY <1>1, <1>2, <2>1, <2>12 DEF StepInv
<1>19. QED
  BY <1>17, <1>18

-----------------------------------------------------------------------------
(* A processing time has passed. *)

\* What is left of the packets that wait when the k-th is taken out.
LEMMA TimerLeaves ==
  ASSUME config \in Configurations, NEW rq, NEW sq, NEW im, NEW tm, NEW ab, NEW ex, NEW rp,
         NEW wr, InvOf(rq, sq, im, tm, ab, ex, rp, wr),
         NEW k \in DOMAIN tm, NEW tm2, tm2 = RemoveAt(tm, k),
         NEW x, x = ExchangeOf(tm[k].id)
  PROVE  /\ tm2 \in Seq(Packet) /\ InOrder(All(sq), tm2)
         /\ tm[k] \in Packet /\ x \in Exchanges /\ TimerOK(tm[k], x, ex[x], rp[x], wr[x])
         /\ \A p \in ToSet(tm2) : p \in ToSet(tm)
         /\ \A p \in ToSet(tm) : p # tm[k] => p \in ToSet(tm2)
         /\ \A p \in ToSet(tm2) : Before(p, tm[k]) \/ Before(tm[k], p)
         /\ \A p \in ToSet(tm2) :
              Before(tm[k], p) \/ \E m \in 1 .. k - 1 : m \in DOMAIN tm /\ p = tm[m]
         /\ \A j \in ToSet(All(sq)) : Before(j, tm[k])
<1>1. /\ sq \in Queues /\ tm \in Seq(Packet) /\ All(sq) \in Seq(Packet)
      /\ InOrder(All(sq), tm) /\ Exchanged(All(sq), im, tm, ex, rp, wr)
  BY QueueFields DEF InvOf, Types
<1>2. /\ InOrder(All(sq), tm2) /\ tm2 \in Seq(Packet)
      /\ \A i \in DOMAIN tm2 : \E m \in DOMAIN tm :
           tm2[i] = tm[m] /\ m # k /\ (Before(tm[m], tm[k]) \/ Before(tm[k], tm[m]))
           /\ (m \in 1 .. k - 1 \/ Before(tm[k], tm[m]))
      /\ \A m \in DOMAIN tm : m # k => tm[m] \in ToSet(tm2)
  BY <1>1, OrderRemovedTimer
<1>3. tm[k] \in Packet
  BY <1>1
<1>4. x \in Exchanges /\ TimerOK(tm[k], x, ex[x], rp[x], wr[x])
  BY <1>1 DEF Exchanged
<1>5. ASSUME NEW p \in ToSet(tm2)
      PROVE  /\ p \in ToSet(tm) /\ (Before(p, tm[k]) \/ Before(tm[k], p))
             /\ Before(tm[k], p) \/ \E m \in 1 .. k - 1 : m \in DOMAIN tm /\ p = tm[m]
  <2>1. PICK i \in DOMAIN tm2 : tm2[i] = p
    BY <1>2, ElementsAt
  <2>2. PICK m \in DOMAIN tm :
          p = tm[m] /\ (Before(tm[m], tm[k]) \/ Before(tm[k], tm[m]))
          /\ (m \in 1 .. k - 1 \/ Before(tm[k], tm[m]))
    BY <1>2, <2>1
  <2>3. p \in ToSet(tm)
    BY <1>1, <2>2, ElementsAt
  <2>4. QED
    BY <2>2, <2>3
<1>6. ASSUME NEW p \in ToSet(tm), p # tm[k] PROVE p \in ToSet(tm2)
  <2>1. PICK m \in DOMAIN tm : tm[m] = p
    BY <1>1, ElementsAt
  <2>2. QED
    BY <1>2, <1>6, <2>1
<1>7. ASSUME NEW j \in ToSet(All(sq)) PROVE Before(j, tm[k])
  <2>1. PICK m \in DOMAIN All(sq) : All(sq)[m] = j
    BY <1>1, ElementsAt
  <2>2. QED
    BY <1>1, <2>1 DEF InOrder
<1>8. QED
  BY <1>2, <1>3, <1>4, <1>5, <1>6, <1>7

\* The step, as a predicate of what it takes out.
LEMMA SelfMessageFacts ==
  ASSUME Inv, NEW k \in DOMAIN timers, HandleSelfMessage(k), NEW x,
         x = ExchangeOf(timers[k].id)
  PROVE  /\ config \in Configurations /\ aborted = FALSE
         /\ InvOf(reqQ, subreqQ, infoMap, timers, aborted, exchange, replies, written)
         /\ timers' \in Seq(Packet) /\ InOrder(All(subreqQ), timers')
         /\ timers[k] \in Packet /\ x \in Exchanges
         /\ TimerOK(timers[k], x, exchange[x], replies[x], written[x])
         /\ \A p \in ToSet(timers') : p \in ToSet(timers)
         /\ \A p \in ToSet(timers) : p # timers[k] => p \in ToSet(timers')
         /\ \A p \in ToSet(timers') : Before(p, timers[k]) \/ Before(timers[k], p)
         /\ \A p \in ToSet(timers') :
              Before(timers[k], p) \/ Delayed(p) # Delayed(timers[k])
         /\ \A j \in ToSet(All(subreqQ)) : Before(j, timers[k])
         /\ UNCHANGED <<aborted, written>>
<1>1. /\ config \in Configurations /\ aborted = FALSE
      /\ InvOf(reqQ, subreqQ, infoMap, timers, aborted, exchange, replies, written)
  BY NotAborted DEF HandleSelfMessage
<1>2. /\ timers' = RemoveAt(timers, k) /\ UNCHANGED <<aborted, written>>
      /\ \A j \in 1 .. k-1 : Delayed(timers[j]) # Delayed(timers[k])
  BY DEF HandleSelfMessage
<1>3. /\ timers' \in Seq(Packet) /\ InOrder(All(subreqQ), timers')
      /\ timers[k] \in Packet /\ x \in Exchanges
      /\ TimerOK(timers[k], x, exchange[x], replies[x], written[x])
      /\ \A p \in ToSet(timers') : p \in ToSet(timers)
      /\ \A p \in ToSet(timers) : p # timers[k] => p \in ToSet(timers')
      /\ \A p \in ToSet(timers') : Before(p, timers[k]) \/ Before(timers[k], p)
      /\ \A p \in ToSet(timers') :
           Before(timers[k], p) \/ \E m \in 1 .. k - 1 : m \in DOMAIN timers /\ p = timers[m]
      /\ \A j \in ToSet(All(subreqQ)) : Before(j, timers[k])
  BY <1>1, <1>2, TimerLeaves
<1>4. QED
  BY <1>1, <1>2, <1>3

\* A write request is granted.
LEMMA GrantedLate ==
  ASSUME Inv, RoomForPackets, NEW k \in DOMAIN timers, HandleSelfMessage(k),
         timers[k].kind = "SELF_PFS_W_REQ", SendWriteResp(ExchangeOf(timers[k].id)),
         UNCHANGED <<reqQ, subreqQ, infoMap>>
  PROVE  StepInv
<1> DEFINE pkt == timers[k]
           x == ExchangeOf(pkt.id)
           e == exchange[x]
           rs == replies[x]
           n == PacketCount(e.size)
           e2 == [e EXCEPT !.toCome = n]
           resp == <<[kind |-> "PFS_W_RESP", loff |-> 0, size |-> e.size]>>
           jobs == All(subreqQ)
<1>1. /\ config \in Configurations /\ aborted = FALSE
      /\ InvOf(reqQ, subreqQ, infoMap, timers, aborted, exchange, replies, written)
      /\ timers' \in Seq(Packet) /\ InOrder(jobs, timers')
      /\ pkt \in Packet /\ x \in Exchanges /\ TimerOK(pkt, x, e, rs, written[x])
      /\ \A p \in ToSet(timers') : p \in ToSet(timers)
      /\ \A p \in ToSet(timers) : p # pkt => p \in ToSet(timers')
      /\ \A p \in ToSet(timers') : Before(p, pkt) \/ Before(pkt, p)
      /\ UNCHANGED <<aborted, written>>
  BY SelfMessageFacts
<1>2. /\ subreqQ \in Queues /\ timers \in Seq(Packet) /\ jobs \in Seq(Packet)
      /\ exchange \in [Exchanges -> Asking] /\ replies \in [Exchanges -> Seq(Packets)]
      /\ Exchanged(jobs, infoMap, timers, exchange, replies, written)
  BY <1>1, QueueFields DEF InvOf, Types
<1>3. e \in Asking /\ History(e, rs, written[x]) /\ (e.asked => e.size \in config.sizes[x])
  BY <1>1, <1>2 DEF Exchanged
<1>4. /\ exchange' = [exchange EXCEPT ![x] = e2]
      /\ replies' = [replies EXCEPT ![x] = rs \o resp]
  BY DEF SendWriteResp, Reply
<1>5. /\ e.asked /\ pkt.id = x * RidOffset /\ ~e.read /\ ~Small(e) /\ rs = <<>>
  <2>1. \A size, m : DataPacket(x, size, m).kind # "SELF_PFS_W_REQ"
    BY DEF DataPacket
  <2>2. /\ e.asked /\ pkt.id = x * RidOffset /\ ~Small(e) /\ rs = <<>>
        /\ pkt.kind = IF e.read THEN "SELF_PFS_R_REQ" ELSE "SELF_PFS_W_REQ"
    BY <1>1, <2>1 DEF TimerOK
  <2>3. QED
    BY <1>3, <2>2 DEF Asking
<1> HIDE DEF e, rs, x, pkt, n
<1>6. e.size \in Nat \ {0} /\ n \in Nat \ {0} /\ written[x] = <<>>
  <2>1. e.size \in Nat \ {0}
    BY <1>1, <1>3, <1>5, ConfigFacts
  <2>2. n \in Nat \ {0}
    BY <1>1, <2>1, PacketCountFacts DEF n
  <2>3. written[x] = <<>>
    BY <1>3, <1>5 DEF History
  <2>4. QED
    BY <2>1, <2>2, <2>3
<1>7. /\ e2 \in Asking /\ e2.asked /\ ~e2.read /\ e2.size = e.size /\ e2.toCome = n
      /\ ~Small(e2) /\ resp \in Seq(Packets) /\ Len(resp) = 1 /\ resp[1].kind = "PFS_W_RESP"
  <2>1. e2 \in Asking /\ e2.asked /\ ~e2.read /\ e2.size = e.size /\ e2.toCome = n
    BY <1>3, <1>5, <1>6 DEF Asking
  <2>2. ~Small(e2)
    BY <1>5, <2>1 DEF Small
  <2>3. resp \in Seq(Packets)
    BY <1>6 DEF Packets, Answers
  <2>4. QED
    BY <2>1, <2>2, <2>3
<1>8. Granted(x, e2, resp, <<>>)
  BY <1>3, <1>5, <1>7 DEF Granted, n
<1>9. <<>> \o resp = resp
  BY <1>7
<1> HIDE DEF e2, resp
<1>10. /\ exchange' \in [Exchanges -> Asking] /\ exchange'[x] = e2
       /\ replies' \in [Exchanges -> Seq(Packets)] /\ replies'[x] = resp
       /\ Untouched(x, exchange, replies, written, exchange', replies', written)
  <2>1. replies' = [replies EXCEPT ![x] = resp]
    BY <1>4, <1>5, <1>9
  <2>2. QED
    BY <1>1, <1>2, <1>4, <1>7, <2>1 DEF Untouched
<1>11. Granted(x, exchange'[x], replies'[x], written[x])
  BY <1>6, <1>8, <1>10
<1>12. ASSUME NEW p \in ToSet(timers') PROVE ExchangeOf(p.id) # x
  <2> SUFFICES ASSUME ExchangeOf(p.id) = x PROVE FALSE
    OBVIOUS
  <2>1. PICK m \in DOMAIN timers : timers[m] = p
    BY <1>1, <1>2, ElementsAt
  <2>2. TimerOK(p, x, e, rs, written[x])
    BY <1>2, <2>1 DEF Exchanged, e, rs
  <2>3. p.id = x * RidOffset
    BY <1>5, <2>2 DEF TimerOK
  <2>4. p.id < pkt.id \/ pkt.id < p.id
    BY <1>1, <1>5, <2>3 DEF Before
  <2>5. pkt.id \in Nat
    BY <1>1 DEF Packet
  <2>6. QED
    BY <1>5, <2>3, <2>4, <2>5
<1>13. ASSUME NEW j \in ToSet(jobs) PROVE ExchangeOf(j.id) # x
  <2> SUFFICES ASSUME ExchangeOf(j.id) = x PROVE FALSE
    OBVIOUS
  <2>1. PICK m \in DOMAIN jobs : jobs[m] = j
    BY <1>2, ElementsAt
  <2>2. JobOK(j, x, e, rs, written[x], infoMap)
    BY <1>2, <2>1 DEF Exchanged, e, rs
  <2>3. QED
    BY <1>5, <2>2 DEF JobOK, ReadJob, DataJob, SmallJob
<1>14. OthersKept(x, jobs, infoMap, timers, jobs, infoMap, timers')
  <2>1. \A p \in ToSet(timers) : ExchangeOf(p.id) # x => p \in ToSet(timers')
    BY <1>1 DEF x
  <2>2. QED
    BY <1>1, <2>1, KeptWhenTimersChange
<1>15. InvOf(reqQ, subreqQ, infoMap, timers', FALSE, exchange', replies', written)
  BY <1>1, <1>10, <1>11, <1>12, <1>13, <1>14, GrantedInv
<1>16. QED
  BY <1>1, <1>15 DEF StepInv

\* A read request is dropped.
LEMMA ReadDropped ==
  ASSUME Inv, RoomForPackets, NEW k \in DOMAIN timers, HandleSelfMessage(k),
         timers[k].kind = "SELF_PFS_R_REQ",
         UNCHANGED <<reqQ, subreqQ, infoMap, exchange, replies>>
  PROVE  StepInv
<1> DEFINE pkt == timers[k]
           x == ExchangeOf(pkt.id)
           e == exchange[x]
           rs == replies[x]
           ws == written[x]
           jobs == All(subreqQ)
<1>1. /\ config \in Configurations /\ aborted = FALSE
      /\ InvOf(reqQ, subreqQ, infoMap, timers, aborted, exchange, replies, written)
      /\ timers' \in Seq(Packet) /\ InOrder(jobs, timers')
      /\ pkt \in Packet /\ x \in Exchanges /\ TimerOK(pkt, x, e, rs, ws)
      /\ \A p \in ToSet(timers') : p \in ToSet(timers)
      /\ \A p \in ToSet(timers) : p # pkt => p \in ToSet(timers')
      /\ UNCHANGED <<aborted, written>>
  BY SelfMessageFacts
<1>2. /\ Types(reqQ, subreqQ, infoMap, timers, aborted, exchange, replies, written)
      /\ subreqQ \in Queues /\ timers \in Seq(Packet) /\ jobs \in Seq(Packet)
      /\ exchange \in [Exchanges -> Asking] /\ Records(reqQ, subreqQ, infoMap)
      /\ Exchanged(jobs, infoMap, timers, exchange, replies, written)
  BY <1>1, QueueFields DEF InvOf, Types
<1>3. e \in Asking /\ History(e, rs, ws) /\ (e.asked => e.size \in config.sizes[x])
  BY <1>1, <1>2 DEF Exchanged
<1>4. e.read
  <2>1. \A size, m : DataPacket(x, size, m).kind # "SELF_PFS_R_REQ"
    BY DEF DataPacket
  <2>2. pkt.kind = IF e.read THEN "SELF_PFS_R_REQ" ELSE "SELF_PFS_W_REQ"
    BY <1>1, <2>1 DEF TimerOK
  <2>3. QED
    BY <2>2
<1> HIDE DEF x, pkt
<1>5. OthersKept(x, jobs, infoMap, timers, jobs, infoMap, timers')
  <2>1. \A p \in ToSet(timers) : ExchangeOf(p.id) # x => p \in ToSet(timers')
    BY <1>1 DEF x
  <2>2. QED
    BY <1>1, <2>1, KeptWhenTimersChange
<1>6. ASSUME NEW p \in ToSet(timers'), ExchangeOf(p.id) = x PROVE TimerOK(p, x, e, rs, ws)
  <2>1. PICK m \in DOMAIN timers : timers[m] = p
    BY <1>1, <1>2, ElementsAt
  <2>2. QED
    BY <1>2, <1>6, <2>1 DEF Exchanged
<1>7. ASSUME NEW j \in ToSet(jobs), ExchangeOf(j.id) = x PROVE JobOK(j, x, e, rs, ws, infoMap)
  <2>1. PICK m \in DOMAIN jobs : jobs[m] = j
    BY <1>2, ElementsAt
  <2>2. QED
    BY <1>2, <1>7, <2>1 DEF Exchanged
<1>8. BooksOf(x, jobs, infoMap, timers', e, rs, ws)
  <2>1. NoneLost(x, e, rs, ws, Ids(jobs) \cup Ids(timers'))
    BY <1>4 DEF NoneLost
  <2> HIDE DEF e, rs, ws
  <2>2. QED
    BY <1>3, <1>6, <1>7, <2>1, Zenon DEF BooksOf
<1>9. Types(reqQ, subreqQ, infoMap, timers', FALSE, exchange, replies, written)
  BY <1>1, <1>2 DEF Types
<1>10. Untouched(x, exchange, replies, written, exchange, replies, written)
  BY DEF Untouched
<1>11. InvOf(reqQ, subreqQ, infoMap, timers', FALSE, exchange, replies, written)
  BY <1>1, <1>2, <1>5, <1>8, <1>9, <1>10, FrameInv
<1>12. QED
  BY <1>1, <1>11 DEF StepInv

\* A data packet goes to the file system.
LEMMA EnqueuedLate ==
  ASSUME Inv, RoomForPackets, NEW k \in DOMAIN timers, HandleSelfMessage(k),
         timers[k].kind \in {"SELF_PFS_W_DATA", "SELF_PFS_W_DATA_LAST"},
         EnqueueDispatchVFSReqs(timers[k]), UNCHANGED <<exchange, replies>>
  PROVE  StepInv
<1> DEFINE pkt == timers[k]
           x == ExchangeOf(pkt.id)
           e == exchange[x]
           rs == replies[x]
           ws == written[x]
           n == PacketCount(e.size)
           jobs == All(subreqQ)
           fs == FirstSubreq(pkt)
<1>1. /\ config \in Configurations /\ aborted = FALSE
      /\ InvOf(reqQ, subreqQ, infoMap, timers, aborted, exchange, replies, written)
      /\ timers' \in Seq(Packet) /\ InOrder(jobs, timers')
      /\ pkt \in Packet /\ x \in Exchanges /\ TimerOK(pkt, x, e, rs, ws)
      /\ \A p \in ToSet(timers') : p \in ToSet(timers)
      /\ \A p \in ToSet(timers) : p # pkt => p \in ToSet(timers')
      /\ \A p \in ToSet(timers') : Before(pkt, p) \/ Delayed(p) # Delayed(pkt)
      /\ \A j \in ToSet(jobs) : Before(j, pkt)
      /\ UNCHANGED <<aborted, written>>
  BY SelfMessageFacts
<1>2. /\ reqQ \in Queues /\ subreqQ \in Queues /\ Records(reqQ, subreqQ, infoMap)
      /\ infoMap \in [DOMAIN infoMap -> Infos] /\ DOMAIN infoMap \subseteq Nat
      /\ timers \in Seq(Packet) /\ exchange \in [Exchanges -> Asking]
      /\ Exchanged(jobs, infoMap, timers, exchange, replies, written)
  BY <1>1 DEF InvOf, Types
<1>3. NoneLost(x, e, rs, ws, Ids(jobs) \cup Ids(timers))
  BY <1>1, <1>2 DEF Exchanged
<1>4. e \in Asking /\ exchange = [exchange EXCEPT ![x] = e]
  BY <1>1, <1>2
<1>5. ~e.read /\ rs # <<>>
  <2>1. pkt.kind = (IF e.read THEN "SELF_PFS_R_REQ" ELSE "SELF_PFS_W_REQ") =>
          pkt.kind \notin {"SELF_PFS_W_DATA", "SELF_PFS_W_DATA_LAST"}
    OBVIOUS
  <2> HIDE DEF pkt, x, e, rs, ws
  <2>2. pkt.kind \in {"SELF_PFS_W_DATA", "SELF_PFS_W_DATA_LAST"}
    BY DEF pkt
  <2>3. QED
    BY <1>1, <2>1, <2>2, Zenon DEF TimerOK
<1>6. /\ e.asked /\ e.size \in config.sizes[x] /\ History(e, rs, ws)
      /\ Pending(e, ws) \subseteq 1 .. n
      /\ \A p \in ToSet(timers) : ExchangeOf(p.id) = x =>
           /\ "write_data" \in Delays /\ ~p.read
           /\ \E m \in Pending(e, ws) : p = DataPacket(x, e.size, m)
                                       /\ p.id = x * RidOffset + m
      /\ \A j \in ToSet(jobs) : ExchangeOf(j.id) = x =>
           /\ ~j.read
           /\ \E m \in Pending(e, ws) : IsDataJob(j, x, e.size, m, infoMap)
                                       /\ j.id = x * RidOffset + m
  BY <1>1, <1>5, GrantedFacts, SMTT(30)
<1>7. pkt \in ToSet(timers) /\ ExchangeOf(pkt.id) = x
  BY <1>2, ElementsAt
<1>8. EnqueueDispatchVFSReqs(pkt)
  OBVIOUS
<1> HIDE DEF e, rs, ws, n, pkt, x, jobs, fs
<1>9. PICK m \in Pending(e, ws) : pkt = DataPacket(x, e.size, m) /\ pkt.id = x * RidOffset + m
  BY <1>6, <1>7
<1>10. /\ "write_data" \in Delays /\ ~pkt.read
       /\ \A size, i : DataPacket(x, size, i).kind \in {"SELF_PFS_W_DATA", "SELF_PFS_W_DATA_LAST"}
  BY <1>6, <1>7 DEF DataPacket
<1>11. EnqueuedTo(reqQ, subreqQ, infoMap, pkt, fs, reqQ', subreqQ', infoMap')
  BY <1>8, Zenon DEF EnqueuedTo, EnqueueDispatchVFSReqs, Remember, fs
<1>12. fs = [pkt EXCEPT !.kind = "LFILE_REQ"]
  BY <1>10 DEF FirstSubreq, fs
<1>13. fs \in Packet /\ fs.id = pkt.id /\ ~fs.read
  BY <1>1, <1>10, <1>12 DEF Packet, Kinds
<1>14. RequestID(fs) = pkt.id /\ ExchangeOf(fs.id) = x
  BY <1>7, <1>13 DEF RequestID
<1>15. pkt.id \in Nat
  BY <1>1 DEF Packet
<1>16. ASSUME NEW j \in ToSet(jobs), ExchangeOf(j.id) = x
       PROVE  JobOK(j, x, e, rs, ws, infoMap) /\ ~j.read /\ j.id < pkt.id
  <2>1. ~j.read /\ \E i \in Pending(e, ws) : IsDataJob(j, x, e.size, i, infoMap)
    BY <1>6, <1>16
  <2>2. JobOK(j, x, e, rs, ws, infoMap)
    BY <1>5, <1>6, <2>1 DEF JobOK, DataJob, IsDataJob
  <2>3. j.id < pkt.id
    BY <1>1, <1>7, <1>16 DEF Before
  <2>4. QED
    BY <2>1, <2>2, <2>3
<1>17. pkt.id \notin DOMAIN infoMap
  <2> SUFFICES ASSUME pkt.id \in DOMAIN infoMap PROVE FALSE
    OBVIOUS
  <2>1. PICK j \in ToSet(jobs) : RequestID(j) = pkt.id /\ ExchangeOf(j.id) = ExchangeOf(pkt.id)
    BY <1>1, RecordOfJob DEF jobs
  <2>2. ~j.read /\ j.id < pkt.id
    BY <1>7, <1>16, <2>1
  <2>3. j.id = pkt.id
    BY <2>1, <2>2 DEF RequestID
  <2>4. QED
    BY <1>15, <2>2, <2>3
<1>18. JobOK(fs, x, e, rs, ws, infoMap')
  <2>1. pkt.id \in DOMAIN infoMap' /\ infoMap'[pkt.id] = Info(pkt)
    BY <1>1, <1>2, <1>11, <1>13, <1>14, <1>17, EnqueuedFacts
  <2>2. Info(pkt).decision = (m = n)
    BY <1>9 DEF Info, DataPacket, n
  <2>3. /\ fs = [DataPacket(x, e.size, m) EXCEPT !.kind = "LFILE_REQ"]
        /\ fs.id \in DOMAIN infoMap' /\ infoMap'[fs.id].decision = (m = PacketCount(e.size))
    BY <1>9, <1>12, <1>13, <2>1, <2>2 DEF n
  <2>4. DataJob(fs, x, e, rs, ws, infoMap')
    BY <1>5, <2>3, Zenon DEF DataJob
  <2>5. QED
    BY <1>6, <2>4 DEF JobOK
<1>19. ASSUME NEW p \in ToSet(timers'), ExchangeOf(p.id) = x
       PROVE  TimerOK(p, x, e, rs, ws) /\ ~fs.read /\ fs.id < p.id
  <2>1. p \in ToSet(timers)
    BY <1>1
  <2>2. /\ ~p.read /\ \E i \in Pending(e, ws) : p = DataPacket(x, e.size, i)
    BY <1>6, <1>19, <2>1
  <2>3. TimerOK(p, x, e, rs, ws)
    BY <1>5, <1>6, <1>10, <2>2 DEF TimerOK
  <2>4. Delayed(p) = Delayed(pkt)
    <3>1. /\ p.kind \in {"SELF_PFS_W_DATA", "SELF_PFS_W_DATA_LAST"} /\ p.read = FALSE
          /\ pkt.kind \in {"SELF_PFS_W_DATA", "SELF_PFS_W_DATA_LAST"} /\ pkt.read = FALSE
      <4>1. p.read = FALSE /\ pkt.read = FALSE
        BY <1>9, <2>2 DEF DataPacket
      <4>2. QED
        BY <1>9, <1>10, <2>2, <4>1
    <3>2. p.kind # "SELF_PFS_W_REQ" /\ pkt.kind # "SELF_PFS_W_REQ"
      BY <3>1
    <3>3. QED
      BY <3>1, <3>2 DEF Delayed
  <2>5. Before(pkt, p)
    BY <1>1, <2>4
  <2>6. pkt.id < p.id
    BY <1>7, <1>19, <2>5 DEF Before
  <2>7. QED
    BY <1>13, <2>3, <2>6
<1>20. \A id \in Ids(timers) : id = pkt.id \/ id \in Ids(timers')
  BY <1>1 DEF Ids
<1>21. NoneLost(x, e, rs, ws, Ids(jobs) \cup {fs.id} \cup Ids(timers'))
  BY <1>3, <1>13, <1>20 DEF NoneLost
<1>22. EnqueuedBooks(x, e, rs, ws, jobs, infoMap, timers, fs, infoMap', timers')
  <2>1. \A id \in Ids(timers) : ExchangeOf(id) # x => id \in Ids(timers')
    BY <1>7, <1>20
  <2>2. \A j \in ToSet(jobs) : ExchangeOf(j.id) = x =>
          JobOK(j, x, e, rs, ws, infoMap) /\ ~j.read /\ j.id < fs.id
    BY <1>13, <1>16
  <2>3. QED
    BY <1>1, <1>6, <1>18, <1>19, <1>21, <2>1, <2>2, Zenon DEF EnqueuedBooks
<1>23. InvOf(reqQ', subreqQ', infoMap', timers', FALSE, exchange, replies, written)
  BY <1>1, <1>4, <1>2, <1>11, <1>13, <1>14, <1>17, <1>22, EnqueuedInv DEF rs, ws, jobs
<1>24. QED
  BY <1>1, <1>23 DEF StepInv

\* A processing time has passed, for any kind of packet.
LEMMA SelfMessage ==
  ASSUME Inv, RoomForPackets, NEW k \in DOMAIN timers, HandleSelfMessage(k)
  PROVE  StepInv
<1> DEFINE pkt == timers[k]
<1>1. \/ /\ pkt.kind = "SELF_PFS_W_REQ"
         /\ SendWriteResp(ExchangeOf(pkt.id))
         /\ UNCHANGED <<reqQ, subreqQ, infoMap>>
      \/ /\ pkt.kind \in {"SELF_PFS_W_DATA", "SELF_PFS_W_DATA_LAST"}
         /\ EnqueueDispatchVFSReqs(pkt)
         /\ UNCHANGED <<exchange, replies>>
      \/ /\ pkt.kind = "SELF_PFS_R_REQ"
         /\ UNCHANGED <<reqQ, subreqQ, infoMap, exchange, replies>>
  BY Zenon DEF HandleSelfMessage
<1>2. CASE /\ pkt.kind = "SELF_PFS_W_REQ"
           /\ SendWriteResp(ExchangeOf(pkt.id))
           /\ UNCHANGED <<reqQ, subreqQ, infoMap>>
  BY <1>2, GrantedLate
<1>3. CASE /\ pkt.kind \in {"SELF_PFS_W_DATA", "SELF_PFS_W_DATA_LAST"}
           /\ EnqueueDispatchVFSReqs(pkt)
           /\ UNCHANGED <<exchange, replies>>
  BY <1>3, EnqueuedLate
<1>4. CASE /\ pkt.kind = "SELF_PFS_R_REQ"
           /\ UNCHANGED <<reqQ, subreqQ, infoMap, exchange, replies>>
  BY <1>4, ReadDropped
<1>5. QED
  BY <1>1, <1>2, <1>3, <1>4

-----------------------------------------------------------------------------
(* The file system answers. *)

\* What it answers is the first job, whose request is held.
LEMMA AnswerFacts ==
  ASSUME Inv, ~aborted, NEW job \in ToSet(subreqQ.osQ), NEW x, x = ExchangeOf(job.id),
         NEW rest, rest = Tail(All(subreqQ))
  PROVE  /\ config \in Configurations /\ aborted = FALSE
         /\ InvOf(reqQ, subreqQ, infoMap, timers, aborted, exchange, replies, written)
         /\ job \in Packet /\ x \in Exchanges /\ job.read = exchange[x].read
         /\ exchange[x] \in Asking /\ replies[x] \in Seq(Packets) /\ written[x] \in Seq(Spans)
         /\ exchange[x].asked /\ exchange[x].size \in config.sizes[x]
         /\ JobOK(job, x, exchange[x], replies[x], written[x], infoMap)
         /\ History(exchange[x], replies[x], written[x])
         /\ NoneLost(x, exchange[x], replies[x], written[x],
                     {job.id} \cup Ids(rest) \cup Ids(timers))
         /\ rest \in Seq(Packet) /\ InOrder(rest, timers)
         /\ ToSet(All(subreqQ)) = {job} \cup ToSet(rest)
         /\ \A p \in ToSet(rest) \cup ToSet(timers) : Before(job, p)
         /\ RequestID(job) \in DOMAIN infoMap /\ ExchangeOf(RequestID(job)) = x
         /\ \A j \in ToSet(rest) : /\ j \in Packet /\ RequestID(j) \in DOMAIN infoMap
                                   /\ RequestID(j) # RequestID(job)
<1> DEFINE jobs == All(subreqQ)
<1>1. /\ config \in Configurations /\ aborted = FALSE
      /\ InvOf(reqQ, subreqQ, infoMap, timers, aborted, exchange, replies, written)
  BY NotAborted
<1>2. /\ subreqQ \in Queues /\ timers \in Seq(Packet) /\ InOrder(jobs, timers)
      /\ jobs \in Seq(Packet) /\ Len(subreqQ.osQ) <= 1
      /\ exchange \in [Exchanges -> Asking] /\ replies \in [Exchanges -> Seq(Packets)]
      /\ written \in [Exchanges -> Seq(Spans)]
      /\ Exchanged(jobs, infoMap, timers, exchange, replies, written)
  BY <1>1, QueueFields DEF InvOf, Types, Records
<1>3. jobs # <<>> /\ Head(jobs) = job
  BY <1>2, JobLeaves
<1>4. /\ InOrder(rest, timers) /\ rest \in Seq(Packet)
      /\ \A p \in ToSet(rest) \cup ToSet(timers) : Before(job, p)
      /\ ToSet(jobs) = {job} \cup ToSet(rest)
  BY <1>2, <1>3, OrderTail
<1>5. ASSUME NEW j \in ToSet(jobs)
      PROVE  LET y == ExchangeOf(j.id)
             IN  /\ j \in Packet /\ y \in Exchanges /\ exchange[y].asked
                 /\ j.read = exchange[y].read
                 /\ JobOK(j, y, exchange[y], replies[y], written[y], infoMap)
                 /\ RequestID(j) = IF j.read THEN y * RidOffset ELSE j.id
                 /\ ExchangeOf(RequestID(j)) = y /\ RequestID(j) \in DOMAIN infoMap
  <2>1. PICK k \in DOMAIN jobs : jobs[k] = j
    BY <1>2, ElementsAt
  <2>2. QED
    BY <1>1, <2>1, QueuedJob
<1>6. job \in ToSet(jobs)
  BY <1>4
<1>7. /\ job \in Packet /\ x \in Exchanges /\ exchange[x].asked
      /\ job.read = exchange[x].read
      /\ JobOK(job, x, exchange[x], replies[x], written[x], infoMap)
      /\ RequestID(job) \in DOMAIN infoMap /\ ExchangeOf(RequestID(job)) = x
  BY <1>5, <1>6
<1>8. /\ exchange[x].size \in config.sizes[x]
      /\ History(exchange[x], replies[x], written[x])
      /\ NoneLost(x, exchange[x], replies[x], written[x], Ids(jobs) \cup Ids(timers))
  BY <1>2, <1>7 DEF Exchanged
<1>9. Ids(jobs) = {job.id} \cup Ids(rest)
  BY <1>4 DEF Ids
<1>10. ASSUME NEW j \in ToSet(rest)
       PROVE  /\ j \in Packet /\ RequestID(j) \in DOMAIN infoMap
              /\ RequestID(j) # RequestID(job)
  <2>1. j \in ToSet(jobs)
    BY <1>4
  <2>2. /\ j \in Packet /\ RequestID(j) \in DOMAIN infoMap
        /\ ExchangeOf(RequestID(j)) = ExchangeOf(j.id)
        /\ j.read = exchange[ExchangeOf(j.id)].read
    BY <1>5, <2>1
  <2>3. CASE ExchangeOf(j.id) # x
    BY <1>7, <2>2, <2>3
  <2>4. CASE ExchangeOf(j.id) = x
    <3>1. ~job.read /\ job.id < j.id
      BY <1>4, <2>4 DEF Before
    <3>2. ~j.read
      BY <1>7, <2>2, <2>4, <3>1
    <3>3. RequestID(j) = j.id /\ RequestID(job) = job.id
      BY <3>1, <3>2 DEF RequestID
    <3>4. j.id \in Nat /\ job.id \in Nat
      BY <1>7, <2>2 DEF Packet
    <3>5. QED
      BY <2>2, <3>1, <3>3, <3>4
  <2>5. QED
    BY <2>3, <2>4
<1> HIDE DEF jobs
<1>11. exchange[x] \in Asking /\ replies[x] \in Seq(Packets) /\ written[x] \in Seq(Spans)
  BY <1>2, <1>7
<1>12. NoneLost(x, exchange[x], replies[x], written[x],
                {job.id} \cup Ids(rest) \cup Ids(timers))
  BY <1>8, <1>9
<1>13. QED
  BY <1>1, <1>4, <1>7, <1>8, <1>10, <1>11, <1>12 DEF jobs

\* A request that is not found outstanding is still waiting.
LEMMA AbortKeepsInv ==
  ASSUME Inv, ~aborted, NEW job \in ToSet(subreqQ.osQ),
         ~IsOutstanding(reqQ, RequestID(job)), Abort
  PROVE  StepInv
<1> DEFINE id == RequestID(job)
<1>1. /\ InvOf(reqQ, subreqQ, infoMap, timers, aborted, exchange, replies, written)
      /\ id \in DOMAIN infoMap
  BY AnswerFacts
<1>2. /\ reqQ \in Queues /\ DOMAIN infoMap = Ids(All(reqQ))
      /\ Types(reqQ, subreqQ, infoMap, timers, aborted, exchange, replies, written)
      /\ Exchanged(All(subreqQ), infoMap, timers, exchange, replies, written)
      /\ InOrder(All(subreqQ), timers) /\ Records(reqQ, subreqQ, infoMap)
  BY <1>1 DEF InvOf, Types, Records
<1>3. /\ reqQ.waitQ \in Seq(Packet) /\ reqQ.osQ \in Seq(Packet)
      /\ ToSet(All(reqQ)) = ToSet(reqQ.osQ) \cup ToSet(reqQ.waitQ)
  BY <1>2, QueueFields
<1> HIDE DEF id
<1>4. PICK j \in ToSet(All(reqQ)) : j.id = id
  BY <1>1, <1>2 DEF Ids
<1>5. ~IsOutstanding(reqQ, id)
  BY DEF id
<1>6. \A i \in DOMAIN reqQ.osQ : reqQ.osQ[i].id # id
  BY <1>2, <1>5, OutstandingFacts
<1>7. j \notin ToSet(reqQ.osQ)
  BY <1>3, <1>4, <1>6, ElementsAt
<1>8. j \in ToSet(reqQ.waitQ)
  BY <1>3, <1>7
<1>9. reqQ.waitQ # <<>>
  BY <1>3, <1>8, ElementsAt
<1>10. /\ aborted' = TRUE
       /\ UNCHANGED <<reqQ, subreqQ, infoMap, timers, exchange, replies, written>>
  BY DEF Abort
<1>11. Types(reqQ, subreqQ, infoMap, timers, TRUE, exchange, replies, written)
  BY <1>2 DEF Types
<1>12. InvOf(reqQ, subreqQ, infoMap, timers, TRUE, exchange, replies, written)
  BY <1>2, <1>9, <1>11 DEF InvOf
<1>13. QED
  BY <1>10, <1>12 DEF StepInv

\* What is left when the request is taken off the books.
LEMMA RequestFinished ==
  ASSUME Inv, ~aborted, NEW job \in ToSet(subreqQ.osQ), NEW id, id = RequestID(job),
         IsOutstanding(reqQ, id), reqQ' = Popped(reqQ, id), Forget(id),
         subreqQ' = DispatchedNext(Popped(subreqQ, job.id), 1),
         NEW x, x = ExchangeOf(job.id)
  PROVE  /\ reqQ' \in Queues /\ subreqQ' \in Queues
         /\ All(subreqQ') = Tail(All(subreqQ))
         /\ Records(reqQ', subreqQ', infoMap')
         /\ infoMap' \in [DOMAIN infoMap' -> Infos] /\ DOMAIN infoMap' \subseteq Nat
         /\ \A j \in ToSet(Tail(All(subreqQ))) :
              RequestID(j) \in DOMAIN infoMap' /\ infoMap'[RequestID(j)] = infoMap[RequestID(j)]
         /\ OthersKept(x, All(subreqQ), infoMap, timers, All(subreqQ'), infoMap', timers)
<1> DEFINE jobs == All(subreqQ)
           rest == Tail(jobs)
<1>1. /\ InvOf(reqQ, subreqQ, infoMap, timers, aborted, exchange, replies, written)
      /\ ToSet(jobs) = {job} \cup ToSet(rest)
      /\ \A j \in ToSet(rest) : RequestID(j) \in DOMAIN infoMap /\ RequestID(j) # RequestID(job)
  BY AnswerFacts
<1>2. /\ reqQ \in Queues /\ subreqQ \in Queues /\ Records(reqQ, subreqQ, infoMap)
      /\ infoMap \in [DOMAIN infoMap -> Infos] /\ DOMAIN infoMap \subseteq Nat
  BY <1>1 DEF InvOf, Types
<1>3. infoMap' = [i \in DOMAIN infoMap \ {id} |-> infoMap[i]]
  BY Zenon DEF Forget
<1>4. \A j \in ToSet(rest) : RequestID(j) # id
  BY <1>1
<1>5. /\ reqQ' \in Queues /\ subreqQ' \in Queues /\ All(subreqQ') = rest
      /\ Records(reqQ', subreqQ', infoMap')
  <2>1. Finished(reqQ, subreqQ, infoMap, job, id, reqQ', subreqQ', infoMap')
    BY <1>3, <1>4 DEF Finished
  <2>2. QED
    BY <1>2, <2>1, RecordsFinished
<1> HIDE DEF jobs, rest
<1>6. infoMap' \in [DOMAIN infoMap' -> Infos] /\ DOMAIN infoMap' \subseteq Nat
  BY <1>2, <1>3
<1>7. \A j \in ToSet(rest) :
        RequestID(j) \in DOMAIN infoMap' /\ infoMap'[RequestID(j)] = infoMap[RequestID(j)]
  BY <1>1, <1>3, <1>4
<1>8. OthersKept(x, jobs, infoMap, timers, All(subreqQ'), infoMap', timers)
  <2>1. OthersKept(x, jobs, infoMap, timers, rest, infoMap', timers)
    <3>1. \A i \in Ids(jobs) : i = job.id \/ i \in Ids(rest)
      BY <1>1 DEF Ids
    <3>2. \A i \in Ids(jobs) \cup Ids(timers) :
            ExchangeOf(i) # x => i \in Ids(rest) \cup Ids(timers)
      BY <3>1
    <3>3. \A j \in ToSet(rest) : j \in ToSet(jobs)
      BY <1>1
    <3>4. QED
      BY <1>7, <3>2, <3>3, Zenon DEF OthersKept
  <2>2. QED
    BY <1>5, <2>1
<1>9. QED
  BY <1>5, <1>6, <1>7, <1>8 DEF jobs, rest

\* A list of one element with one more.
LEMMA OneAndOne ==
  ASSUME NEW S, NEW s \in Seq(S), Len(s) = 1, NEW p \in S
  PROVE  s \o <<p>> \in Seq(S) /\ Len(s \o <<p>>) = 2 /\ (s \o <<p>>)[1] = s[1]
<1> DEFINE t == <<p>>
<1>1. t \in Seq(S) /\ Len(t) = 1
  OBVIOUS
<1> HIDE DEF t
<1>2. /\ s \o t \in Seq(S) /\ Len(s \o t) = Len(s) + Len(t)
      /\ \A i \in 1 .. Len(s) + Len(t) :
           (s \o t)[i] = IF i <= Len(s) THEN s[i] ELSE t[i - Len(s)]
  BY <1>1, ConcatPlaces
<1>3. Len(s) + Len(t) = 2 /\ 1 \in 1 .. 2 /\ 1 <= Len(s)
  BY <1>1
<1>4. s \o t \in Seq(S) /\ Len(s \o t) = 2 /\ (s \o t)[1] = s[1]
  BY <1>2, <1>3, Zenon
<1>5. QED
  BY <1>4 DEF t

\* What the file system wrote is the next data packet of a granted write.
LEMMA DataWritten ==
  ASSUME Inv, RoomForPackets, ~aborted, NEW job \in ToSet(subreqQ.osQ),
         NEW x, x = ExchangeOf(job.id), ~job.read, replies[x] # <<>>,
         NEW im2, \A j \in ToSet(Tail(All(subreqQ))) :
           RequestID(j) \in DOMAIN im2 /\ im2[RequestID(j)] = infoMap[RequestID(j)],
         NEW ws2, ws2 = Append(written[x], [loff |-> job.loff, size |-> job.size]),
         NEW rs2, rs2 = replies[x] \o
           (IF infoMap[job.id].decision
            THEN <<[kind |-> "PFS_W_FIN", loff |-> job.loff, size |-> job.size]>> ELSE <<>>)
  PROVE  /\ rs2 \in Seq(Packets) /\ ws2 \in Seq(Spans)
         /\ BooksOf(x, Tail(All(subreqQ)), im2, timers, exchange[x], rs2, ws2)
<1> DEFINE e == exchange[x]
           rs == replies[x]
           ws == written[x]
           jobs == All(subreqQ)
           rest == Tail(jobs)
           n == PacketCount(e.size)
           R == x * RidOffset
           fin == [kind |-> "PFS_W_FIN", loff |-> job.loff, size |-> job.size]
           more == IF infoMap[job.id].decision THEN <<fin>> ELSE <<>>
           span == [loff |-> job.loff, size |-> job.size]
<1>1. /\ config \in Configurations
      /\ InvOf(reqQ, subreqQ, infoMap, timers, aborted, exchange, replies, written)
      /\ job \in Packet /\ x \in Exchanges /\ job.read = e.read
      /\ rs \in Seq(Packets) /\ ws \in Seq(Spans)
      /\ NoneLost(x, e, rs, ws, {job.id} \cup Ids(rest) \cup Ids(timers))
      /\ ToSet(jobs) = {job} \cup ToSet(rest)
      /\ \A p \in ToSet(rest) \cup ToSet(timers) : Before(job, p)
  BY AnswerFacts
<1>2. ~e.read /\ rs # <<>>
  BY <1>1
<1>3. /\ e.asked /\ ~Small(e) /\ e.size \in config.sizes[x] /\ e \in Asking
      /\ History(e, rs, ws)
      /\ Pending(e, ws) \subseteq 1 .. PacketCount(e.size)
      /\ \A p \in ToSet(timers) : ExchangeOf(p.id) = x =>
           /\ "write_data" \in Delays /\ ~p.read
           /\ \E m \in Pending(e, ws) : p = DataPacket(x, e.size, m) /\ p.id = R + m
      /\ \A j \in ToSet(jobs) : ExchangeOf(j.id) = x =>
           /\ ~j.read
           /\ \E m \in Pending(e, ws) : IsDataJob(j, x, e.size, m, infoMap) /\ j.id = R + m
  BY <1>1, <1>2, GrantedFacts
<1>4. /\ e.size \in Nat \ {0} /\ n \in Nat \ {0} /\ Len(ws) \in Nat /\ e.toCome \in Nat
      /\ e.toCome <= n /\ Len(ws) <= n - e.toCome
  BY <1>1, <1>2, <1>3, PendingFacts
<1>5. R \in Nat
  BY <1>1, BaseFacts
<1>6. rs2 = rs \o more /\ ws2 = Append(ws, span)
  OBVIOUS
<1>7. ExchangeOf(job.id) = x /\ job \in ToSet(jobs)
  BY <1>1
<1> HIDE DEF e, rs, ws, jobs, rest, n, R, more, span, fin
<1>8. PICK k \in Pending(e, ws) : IsDataJob(job, x, e.size, k, infoMap) /\ job.id = R + k
  BY <1>3, <1>7
<1>9. Pending(e, ws) = Len(ws) + 1 .. n - e.toCome
  BY DEF Pending, n
<1>10. Pending(e, ws) \subseteq Nat /\ k \in Nat
  BY <1>3, <1>4, <1>8
<1>11. \A p \in ToSet(rest) \cup ToSet(timers) : ExchangeOf(p.id) = x => job.id < p.id
  BY <1>1, <1>7 DEF Before
<1>12. k = Len(ws) + 1
  <2> SUFFICES ASSUME k # Len(ws) + 1 PROVE FALSE
    OBVIOUS
  <2> DEFINE m == Len(ws) + 1
  <2>1. m \in Pending(e, ws) /\ m < k /\ m \in Nat
    BY <1>4, <1>8, <1>9
  <2> HIDE DEF m
  <2>2. R + m \in {job.id} \cup Ids(rest) \cup Ids(timers)
    BY <1>1, <1>2, <2>1, Zenon DEF NoneLost, R
  <2>3. R + m < job.id
    BY <1>5, <1>8, <1>10, <2>1
  <2>4. R + m # job.id
    BY <1>5, <1>8, <1>10, <2>1
  <2>5. PICK p \in ToSet(rest) \cup ToSet(timers) : p.id = R + m
    BY <2>2, <2>4 DEF Ids
  <2>6. ExchangeOf(p.id) = x
    <3>1. m \in 1 .. PacketCount(e.size)
      BY <1>3, <2>1
    <3>2. ExchangeOf(DataPacket(x, e.size, m).id) = x
          /\ DataPacket(x, e.size, m).id = x * RidOffset + m
      BY <1>1, <1>3, <3>1, DataPacketFacts
    <3>3. QED
      BY <2>5, <3>2 DEF R
  <2>7. job.id < p.id
    BY <1>11, <2>5, <2>6
  <2>8. QED
    BY <1>5, <1>8, <1>10, <2>1, <2>3, <2>5, <2>7
<1>13. Pending(e, ws2) = k + 1 .. n - e.toCome /\ ws2 \in Seq(Spans) /\ Len(ws2) = k
       /\ \A m \in 1 .. k : ws2[m] = IF m < k THEN ws[m] ELSE span
  <2>1. span \in Spans
    BY <1>1 DEF span, Spans, Packet
  <2>2. ASSUME NEW s \in Spans
        PROVE  /\ Append(ws, s) \in Seq(Spans) /\ Len(Append(ws, s)) = Len(ws) + 1
               /\ \A m \in 1 .. Len(ws) + 1 :
                    Append(ws, s)[m] = IF m < Len(ws) + 1 THEN ws[m] ELSE s
    BY <1>1
  <2>3. /\ ws2 \in Seq(Spans) /\ Len(ws2) = k
        /\ \A m \in 1 .. k : ws2[m] = IF m < k THEN ws[m] ELSE span
    <3> HIDE DEF span
    <3> QED
      BY <1>6, <1>12, <2>1, <2>2, Zenon
  <2>4. QED
    BY <2>3 DEF Pending, n
<1>14. \A m \in Pending(e, ws) : m > k => m \in Pending(e, ws2)
  BY <1>4, <1>9, <1>10, <1>13
<1>15. \A m \in Pending(e, ws2) : m \in Pending(e, ws) /\ m > k
  BY <1>4, <1>9, <1>10, <1>12, <1>13
<1>16. span = [loff |-> (k-1) * PacketSizeLimit, size |-> PacketSize(e.size, k)]
  <2>1. job = [DataPacket(x, e.size, k) EXCEPT !.kind = "LFILE_REQ"]
    BY <1>8, Zenon DEF IsDataJob
  <2>2. job.loff = (k-1) * PacketSizeLimit /\ job.size = PacketSize(e.size, k)
    BY <2>1 DEF DataPacket
  <2>3. QED
    BY <2>2, Zenon DEF span
<1>17. infoMap[job.id].decision <=> k = n
  BY <1>8, Zenon DEF IsDataJob, n
<1>18. /\ \A m \in DOMAIN ws :
            ws[m] = [loff |-> (m-1) * PacketSizeLimit, size |-> PacketSize(e.size, m)]
       /\ rs[1].kind = "PFS_W_RESP" /\ Len(rs) = IF Len(ws) = n THEN 2 ELSE 1
  BY <1>2, <1>3, Zenon DEF History, n
<1>19. k <= n - e.toCome /\ Len(rs) = 1
  BY <1>4, <1>8, <1>9, <1>12, <1>18
<1>20. rs2 \in Seq(Packets) /\ rs2 # <<>> /\ rs2[1] = rs[1]
       /\ Len(rs2) = IF k = n THEN 2 ELSE 1
  <2>1. CASE k = n
    <3>1. fin \in Packets
      BY <1>1 DEF fin, Packets, Packet, Answers
    <3>2. rs2 = rs \o <<fin>>
      BY <1>6, <1>17, <2>1, Zenon DEF more
    <3>3. \A p \in Packets : /\ rs \o <<p>> \in Seq(Packets) /\ Len(rs \o <<p>>) = 2
                             /\ (rs \o <<p>>)[1] = rs[1]
      BY <1>1, <1>19, OneAndOne, Zenon
    <3>4. rs2 \in Seq(Packets) /\ Len(rs2) = 2 /\ rs2[1] = rs[1]
      BY <3>1, <3>2, <3>3, Zenon
    <3>5. Len(<<>>) # 2
      OBVIOUS
    <3>6. rs2 # <<>>
      BY <3>4, <3>5, Zenon
    <3>7. QED
      BY <2>1, <3>4, <3>6
  <2>2. CASE k # n
    <3>1. rs2 = rs \o <<>>
      BY <1>6, <1>17, <2>2, Zenon DEF more
    <3>2. rs2 = rs
      BY <1>1, <3>1, ConcatEmptySeq, Zenon
    <3>3. QED
      BY <1>1, <1>2, <1>19, <2>2, <3>2
  <2>3. QED
    BY <2>1, <2>2
<1>21. History(e, rs2, ws2)
  <2>1. ASSUME NEW m \in DOMAIN ws2
        PROVE  ws2[m] = [loff |-> (m-1) * PacketSizeLimit, size |-> PacketSize(e.size, m)]
    <3>1. m \in 1 .. k /\ DOMAIN ws = 1 .. Len(ws)
      BY <1>1, <1>13
    <3>2. CASE m = k
      <4>1. ws2[m] = span
        BY <1>13, <3>1, <3>2
      <4>2. QED
        BY <1>16, <3>2, <4>1, Zenon
    <3>3. CASE m # k
      <4>1. m < k /\ m \in DOMAIN ws
        BY <1>10, <1>12, <3>1, <3>3
      <4>2. ws2[m] = ws[m]
        BY <1>13, <3>1, <4>1
      <4>3. ws[m] = [loff |-> (m-1) * PacketSizeLimit, size |-> PacketSize(e.size, m)]
        BY <1>18, <4>1, Zenon
      <4>4. QED
        BY <4>2, <4>3, Zenon
    <3>4. QED
      BY <3>2, <3>3
  <2>2. e.toCome <= n /\ Len(ws2) <= n - e.toCome
    BY <1>4, <1>13, <1>19
  <2>3. Len(rs2) = IF Len(ws2) = n THEN 2 ELSE 1
    BY <1>13, <1>20, Zenon
  <2>4. rs2[1].kind = "PFS_W_RESP" /\ rs2 # <<>>
    BY <1>18, <1>20, Zenon
  <2>5. QED
    BY <1>2, <1>3, <2>1, <2>2, <2>3, <2>4 DEF History, n
<1>22. NoneLost(x, e, rs2, ws2, Ids(rest) \cup Ids(timers))
  <2> SUFFICES ASSUME NEW m \in Pending(e, ws2)
               PROVE  R + m \in Ids(rest) \cup Ids(timers)
    BY DEF NoneLost, R
  <2>1. m \in Pending(e, ws) /\ m > k
    BY <1>15
  <2>2. R + m \in {job.id} \cup Ids(rest) \cup Ids(timers)
    BY <1>1, <1>2, <2>1, Zenon DEF NoneLost, R
  <2>3. R + m # job.id
    BY <1>5, <1>8, <1>10, <2>1
  <2>4. QED
    BY <2>2, <2>3
<1>23. ASSUME NEW p \in ToSet(timers), ExchangeOf(p.id) = x
       PROVE  TimerOK(p, x, e, rs2, ws2)
  <2>1. PICK m \in Pending(e, ws) : p = DataPacket(x, e.size, m) /\ p.id = R + m
    BY <1>3, <1>23
  <2>2. job.id < p.id
    BY <1>11, <1>23
  <2>3. m \in Pending(e, ws2)
    BY <1>5, <1>8, <1>10, <1>14, <2>1, <2>2
  <2>4. "write_data" \in Delays
    BY <1>3, <1>23
  <2>5. QED
    BY <1>2, <1>3, <1>20, <2>1, <2>3, <2>4, Zenon DEF TimerOK
<1>24. ASSUME NEW j \in ToSet(rest), ExchangeOf(j.id) = x
       PROVE  JobOK(j, x, e, rs2, ws2, im2)
  <2>1. j \in ToSet(jobs)
    BY <1>1
  <2>2. ~j.read /\ \E m \in Pending(e, ws) : IsDataJob(j, x, e.size, m, infoMap) /\ j.id = R + m
    BY <1>3, <1>24, <2>1
  <2>3. PICK m \in Pending(e, ws) : IsDataJob(j, x, e.size, m, infoMap) /\ j.id = R + m
    BY <2>2
  <2>4. job.id < j.id
    BY <1>11, <1>24
  <2>5. m \in Pending(e, ws2)
    BY <1>5, <1>8, <1>10, <1>14, <2>3, <2>4
  <2>6. j.id \in DOMAIN im2 /\ im2[j.id] = infoMap[j.id]
    BY <2>2 DEF RequestID, rest, jobs
  <2>7. IsDataJob(j, x, e.size, m, im2)
    BY <2>3, <2>6, Zenon DEF IsDataJob
  <2>8. DataJob(j, x, e, rs2, ws2, im2)
    BY <1>2, <1>20, <2>5, <2>7, Zenon DEF DataJob, IsDataJob
  <2>9. QED
    BY <1>3, <2>8 DEF JobOK
<1>25. BooksOf(x, rest, im2, timers, e, rs2, ws2)
  BY <1>3, <1>21, <1>22, <1>23, <1>24, Zenon DEF BooksOf
<1>26. QED
  BY <1>13, <1>20, <1>25 DEF rest, jobs, e

\* A small write that did not wait is written in one piece.
LEMMA SmallWritten ==
  ASSUME Inv, ~aborted, NEW job \in ToSet(subreqQ.osQ),
         NEW x, x = ExchangeOf(job.id), ~job.read, replies[x] = <<>>, NEW im2,
         NEW ws2, ws2 = Append(written[x], [loff |-> job.loff, size |-> job.size]),
         NEW rs2, rs2 = replies[x] \o
           (IF infoMap[job.id].decision
            THEN <<[kind |-> "PFS_W_FIN", loff |-> job.loff, size |-> job.size]>> ELSE <<>>)
  PROVE  /\ rs2 \in Seq(Packets) /\ ws2 \in Seq(Spans)
         /\ BooksOf(x, Tail(All(subreqQ)), im2, timers, exchange[x], rs2, ws2)
<1> DEFINE e == exchange[x]
           rs == replies[x]
           ws == written[x]
           jobs == All(subreqQ)
           rest == Tail(jobs)
           R == x * RidOffset
           span == [loff |-> job.loff, size |-> job.size]
<1>1. /\ InvOf(reqQ, subreqQ, infoMap, timers, aborted, exchange, replies, written)
      /\ job \in Packet /\ x \in Exchanges /\ job.read = e.read
      /\ e.asked /\ e.size \in config.sizes[x] /\ e \in Asking
      /\ JobOK(job, x, e, rs, ws, infoMap) /\ History(e, rs, ws)
      /\ ToSet(jobs) = {job} \cup ToSet(rest)
      /\ \A p \in ToSet(rest) \cup ToSet(timers) : Before(job, p)
  BY AnswerFacts
<1>2. /\ subreqQ \in Queues /\ timers \in Seq(Packet) /\ jobs \in Seq(Packet)
      /\ Exchanged(jobs, infoMap, timers, exchange, replies, written)
  BY <1>1, QueueFields DEF InvOf, Types
<1>3. ~e.read /\ rs = <<>> /\ ExchangeOf(job.id) = x
  BY <1>1
<1>4. ASSUME NEW j, JobOK(j, x, e, rs, ws, infoMap)
      PROVE  SmallJob(j, x, e, ws, infoMap)
  <2> HIDE DEF e, rs
  <2> QED
    BY <1>3, <1>4 DEF JobOK, ReadJob, DataJob
<1>5. SmallJob(job, x, e, ws, infoMap)
  BY <1>1, <1>4
<1>6. /\ Small(e) /\ ws = <<>> /\ job.id = R /\ job.loff = 0 /\ job.size = e.size
      /\ ~infoMap[job.id].decision
  BY <1>5, Zenon DEF SmallJob
<1>7. rs2 = <<>> /\ ws2 = <<[loff |-> 0, size |-> e.size]>>
  <2>1. rs2 = <<>> \o <<>>
    BY <1>3, <1>6, Zenon
  <2>2. ws2 = Append(<<>>, [loff |-> 0, size |-> e.size])
    BY <1>6, Zenon
  <2>3. <<>> \o <<>> = <<>>
    OBVIOUS
  <2>4. \A s : Append(<<>>, s) = <<s>>
    OBVIOUS
  <2>5. QED
    BY <2>1, <2>2, <2>3, <2>4, Zenon
<1> HIDE DEF e, rs, ws, R, rest, jobs
<1>8. rs2 \in Seq(Packets) /\ ws2 \in Seq(Spans)
  <2>1. [loff |-> 0, size |-> e.size] \in Spans
    BY <1>1 DEF Spans, Asking
  <2>2. \A s \in Spans : <<s>> \in Seq(Spans)
    OBVIOUS
  <2>3. <<>> \in Seq(Packets)
    OBVIOUS
  <2>4. QED
    BY <1>7, <2>1, <2>2, <2>3, Zenon
<1>9. History(e, rs2, ws2)
  BY <1>1, <1>3, <1>6, <1>7 DEF History
<1>10. NoneLost(x, e, rs2, ws2, Ids(rest) \cup Ids(timers))
  BY <1>7 DEF NoneLost
<1>11. ASSUME NEW p \in ToSet(timers), ExchangeOf(p.id) = x PROVE FALSE
  <2>1. PICK m \in DOMAIN timers : timers[m] = p
    BY <1>2, ElementsAt
  <2>2. TimerOK(p, x, e, rs, ws)
    BY <1>2, <1>11, <2>1 DEF Exchanged, e, rs, ws
  <2>3. QED
    BY <1>3, <1>6, <2>2 DEF TimerOK
<1>12. ASSUME NEW j \in ToSet(rest), ExchangeOf(j.id) = x PROVE FALSE
  <2>1. PICK m \in DOMAIN jobs : jobs[m] = j
    BY <1>1, <1>2, ElementsAt
  <2>2. JobOK(j, x, e, rs, ws, infoMap)
    BY <1>2, <1>12, <2>1 DEF Exchanged, e, rs, ws
  <2>3. j.id = R
    BY <1>4, <2>2, Zenon DEF SmallJob, R
  <2>4. job.id < j.id /\ job.id \in Nat
    BY <1>1, <1>3, <1>12 DEF Before, Packet
  <2>5. QED
    BY <1>6, <2>3, <2>4
<1>13. BooksOf(x, rest, im2, timers, e, rs2, ws2)
  BY <1>1, <1>9, <1>10, <1>11, <1>12 DEF BooksOf
<1>14. QED
  BY <1>8, <1>13 DEF rest, jobs, e

\* handleVFSResp: a write.
LEMMA WriteDone ==
  ASSUME Inv, RoomForPackets, NEW job \in ToSet(subreqQ.osQ), HandleWriteDone(job)
  PROVE  StepInv
<1> DEFINE x == ExchangeOf(job.id)
           jobs == All(subreqQ)
           rest == Tail(jobs)
           ws2 == Append(written[x], [loff |-> job.loff, size |-> job.size])
           rs2 == replies[x] \o
                  (IF infoMap[job.id].decision
                   THEN <<[kind |-> "PFS_W_FIN", loff |-> job.loff, size |-> job.size]>>
                   ELSE <<>>)
<1>1. ~aborted /\ ~job.read
  BY DEF HandleWriteDone
<1>2. /\ InvOf(reqQ, subreqQ, infoMap, timers, aborted, exchange, replies, written)
      /\ config \in Configurations /\ aborted = FALSE /\ x \in Exchanges
      /\ InOrder(rest, timers) /\ RequestID(job) \in DOMAIN infoMap
  BY <1>1, AnswerFacts
<1>3. RequestID(job) = job.id
  BY <1>1 DEF RequestID
<1>4. CASE ~IsOutstanding(reqQ, job.id)
  <2>1. Abort
    BY <1>4 DEF HandleWriteDone
  <2>2. QED
    BY <1>1, <1>3, <1>4, <2>1, AbortKeepsInv
<1>5. CASE IsOutstanding(reqQ, job.id)
  <2>1. /\ subreqQ' = DispatchedNext(Popped(subreqQ, job.id), 1)
        /\ reqQ' = Popped(reqQ, job.id) /\ Forget(job.id)
        /\ written' = [written EXCEPT ![x] = ws2]
        /\ replies' = [replies EXCEPT ![x] = rs2]
        /\ UNCHANGED <<timers, aborted, exchange>>
    BY <1>2, <1>3, <1>5 DEF HandleWriteDone, Reply
  <2>2. /\ reqQ' \in Queues /\ subreqQ' \in Queues /\ All(subreqQ') = rest
        /\ Records(reqQ', subreqQ', infoMap')
        /\ infoMap' \in [DOMAIN infoMap' -> Infos] /\ DOMAIN infoMap' \subseteq Nat
        /\ \A j \in ToSet(rest) :
             RequestID(j) \in DOMAIN infoMap' /\ infoMap'[RequestID(j)] = infoMap[RequestID(j)]
        /\ OthersKept(x, jobs, infoMap, timers, All(subreqQ'), infoMap', timers)
    BY <1>1, <1>3, <1>5, <2>1, RequestFinished
  <2>3. /\ rs2 \in Seq(Packets) /\ ws2 \in Seq(Spans)
        /\ BooksOf(x, rest, infoMap', timers, exchange[x], rs2, ws2)
    <3>1. CASE replies[x] # <<>>
      BY <1>1, <2>2, <3>1, DataWritten
    <3>2. CASE replies[x] = <<>>
      BY <1>1, <3>2, SmallWritten
    <3>3. QED
      BY <3>1, <3>2
  <2>4. /\ timers \in Seq(Packet) /\ exchange \in [Exchanges -> Asking]
        /\ replies \in [Exchanges -> Seq(Packets)] /\ written \in [Exchanges -> Seq(Spans)]
    BY <1>2 DEF InvOf, Types
  <2> HIDE DEF x, rs2, ws2, rest, jobs
  <2>5. /\ replies' \in [Exchanges -> Seq(Packets)] /\ written' \in [Exchanges -> Seq(Spans)]
        /\ replies'[x] = rs2 /\ written'[x] = ws2
        /\ Untouched(x, exchange, replies, written, exchange, replies', written')
    BY <1>2, <2>1, <2>3, <2>4 DEF Untouched
  <2>6. Types(reqQ', subreqQ', infoMap', timers, FALSE, exchange, replies', written')
    BY <2>2, <2>4, <2>5 DEF Types
  <2>7. BooksOf(x, All(subreqQ'), infoMap', timers, exchange[x], replies'[x], written'[x])
    BY <2>2, <2>3, <2>5
  <2>8. InOrder(All(subreqQ'), timers)
    BY <1>2, <2>2
  <2>9. InvOf(reqQ', subreqQ', infoMap', timers, FALSE, exchange, replies', written')
    BY <1>2, <2>2, <2>5, <2>6, <2>7, <2>8, FrameInv DEF jobs
  <2>10. timers' = timers /\ aborted' = FALSE /\ exchange' = exchange
    BY <1>2, <2>1
  <2>11. QED
    BY <2>9, <2>10, Zenon DEF StepInv
<1>6. QED
  BY <1>4, <1>5

\* What the file system read is the only thing under way of its exchange.
LEMMA ReadFacts ==
  ASSUME Inv, ~aborted, NEW job \in ToSet(subreqQ.osQ), job.read,
         NEW x, x = ExchangeOf(job.id), NEW rest, rest = Tail(All(subreqQ))
  PROVE  /\ exchange[x].read /\ exchange[x].size \in Nat
         /\ ReadJob(job, x, exchange[x], replies[x], infoMap)
         /\ RequestID(job) = x * RidOffset /\ OrigID(job.id) = x * RidOffset
         /\ \A p \in ToSet(rest) \cup ToSet(timers) : ExchangeOf(p.id) # x
         /\ job.loff \in Nat /\ job.size \in Nat \ {0} /\ EndOf(job) \in Nat
<1>1. /\ config \in Configurations /\ job \in Packet /\ x \in Exchanges
      /\ exchange[x] \in Asking /\ job.read = exchange[x].read
      /\ JobOK(job, x, exchange[x], replies[x], written[x], infoMap)
      /\ \A p \in ToSet(rest) \cup ToSet(timers) : Before(job, p)
  BY AnswerFacts
<1>2. /\ ReadJob(job, x, exchange[x], replies[x], infoMap)
      /\ RequestID(job) = x * RidOffset
  BY <1>1, JobFacts
<1>3. OrigID(job.id) = x * RidOffset
  BY <1>2 DEF RequestID
<1>4. \A p \in ToSet(rest) \cup ToSet(timers) : ExchangeOf(p.id) # x
  BY <1>1 DEF Before
<1>5. job.loff \in Nat /\ job.size \in Nat \ {0}
  <2>1. job.size > 0
    BY <1>2 DEF ReadJob
  <2>2. job.loff \in Nat /\ job.size \in Nat
    BY <1>1 DEF Packet
  <2>3. QED
    BY <2>1, <2>2
<1>6. exchange[x].read /\ exchange[x].size \in Nat
  BY <1>1 DEF Asking
<1>7. EndOf(job) \in Nat
  BY <1>5, EndInNat
<1>8. QED
  BY <1>2, <1>3, <1>4, <1>5, <1>6, <1>7

\* What it read goes back after what went back before.
LEMMA ReadReturned ==
  ASSUME Inv, ~aborted, NEW job \in ToSet(subreqQ.osQ), job.read,
         NEW x, x = ExchangeOf(job.id),
         NEW rs2, rs2 = replies[x] \o ReadDataResp(job, KindAt(job, exchange[x].size))
  PROVE  /\ rs2 \in Seq(Packets) /\ Reached(rs2) = EndOf(job)
         /\ History(exchange[x], rs2, written[x])
<1> DEFINE e == exchange[x]
           rs == replies[x]
           ws == written[x]
<1>1. /\ config \in Configurations /\ rs \in Seq(Packets) /\ History(e, rs, ws) /\ e.asked
  BY AnswerFacts
<1>2. /\ e.read /\ e.size \in Nat /\ ReadJob(job, x, e, rs, infoMap)
      /\ job.loff \in Nat /\ job.size \in Nat \ {0}
  BY ReadFacts
<1>3. rs2 = rs \o ReadDataResp(job, KindAt(job, e.size))
  OBVIOUS
<1> HIDE DEF e, rs, ws
<1>4. /\ e.toCome = 0 /\ ws = <<>> /\ Contiguous(rs)
      /\ \A k \in DOMAIN rs : rs[k].kind = "PFS_R_DATA_LAST" <=> EndOf(rs[k]) = e.size
  BY <1>1, <1>2, Zenon DEF History
<1>5. job.loff = Reached(rs) /\ EndOf(job) <= e.size
  BY <1>2, Zenon DEF ReadJob
<1>6. GoesOn(job, rs, e.size)
  BY <1>2, <1>4, <1>5, Zenon DEF GoesOn
<1>7. /\ rs2 \in Seq(Packets) /\ rs2 # <<>> /\ Contiguous(rs2) /\ Reached(rs2) = EndOf(job)
      /\ \A k \in DOMAIN rs2 : rs2[k].kind = "PFS_R_DATA_LAST" <=> EndOf(rs2[k]) = e.size
  <2>1. ReadUpTo(rs2, EndOf(job), e.size)
    BY <1>1, <1>2, <1>3, <1>6, ReadContinues
  <2>2. QED
    BY <2>1, Zenon DEF ReadUpTo
<1>8. Reached(rs2) <= e.size
  BY <1>5, <1>7
<1>9. ~Small(e)
  BY <1>2 DEF Small
<1>10. History(e, rs2, ws)
  BY <1>1, <1>2, <1>4, <1>7, <1>8, <1>9, Zenon DEF History
<1>11. QED
  BY <1>7, <1>10 DEF e, ws

\* The identifier of the next sub-request is one of the exchange, and not the request's.
LEMMA NextIdFacts ==
  ASSUME config \in Configurations, NEW x \in Exchanges,
         NEW i \in x * RidOffset .. x * RidOffset + RidOffset - 1
  PROVE  /\ NextSubreqID(i) \in x * RidOffset .. x * RidOffset + RidOffset - 1
         /\ NextSubreqID(i) # x * RidOffset
<1> DEFINE R == x * RidOffset
           k == i - R
<1>1. RidOffset \in Nat /\ RidOffset > 2 /\ R \in Nat /\ x \in Nat
  BY ConfigFacts
<1>2. OrigID(i) = R
  BY IdInRange
<1>3. (x + 1) * RidOffset = R + RidOffset /\ x + 1 \in Nat
  BY <1>1
<1>4. ((x + 1) * RidOffset + 0) % RidOffset = 0
  BY <1>1, <1>3, ModOfSum
<1>5. i \in R .. R + RidOffset - 1
  OBVIOUS
<1> HIDE DEF R
<1>6. k \in 0 .. RidOffset - 1 /\ i = R + k
  BY <1>1, <1>5
<1>7. CASE (i + 1) % RidOffset = 0
  <2>1. NextSubreqID(i) = R + 1
    BY <1>2, <1>7 DEF NextSubreqID
  <2>2. R + 1 \in R .. R + RidOffset - 1 /\ R + 1 # R
    BY <1>1
  <2>3. QED
    BY <2>1, <2>2 DEF R
<1>8. CASE (i + 1) % RidOffset # 0
  <2>1. NextSubreqID(i) = i + 1
    BY <1>8 DEF NextSubreqID
  <2>2. i # R + RidOffset - 1
    <3> SUFFICES ASSUME i = R + RidOffset - 1 PROVE FALSE
      OBVIOUS
    <3>1. i + 1 = (x + 1) * RidOffset + 0
      BY <1>1, <1>3
    <3>2. QED
      BY <1>4, <1>8, <3>1, Zenon
  <2>3. i + 1 \in R .. R + RidOffset - 1 /\ i + 1 # R
    BY <1>1, <1>5, <2>2
  <2>4. QED
    BY <2>1, <2>3 DEF R
<1>9. QED
  BY <1>7, <1>8

\* The next sub-request of a read that is not at its end goes on where the last one stopped.
LEMMA NextSubreqFacts ==
  ASSUME Inv, ~aborted, NEW job \in ToSet(subreqQ.osQ), job.read,
         NEW x, x = ExchangeOf(job.id), EndOf(job) < exchange[x].size,
         NEW nj, nj = NextSubreq(job), NEW rs2, Reached(rs2) = EndOf(job)
  PROVE  /\ nj \in Packet /\ ExchangeOf(nj.id) = x /\ RequestID(nj) = RequestID(job)
         /\ ReadJob(nj, x, exchange[x], rs2, infoMap)
         /\ nj.id = x * RidOffset => NextSubreq(job).id = OrigID(job.id)
<1> DEFINE e == exchange[x]
           R == x * RidOffset
           loff == job.loff + job.size
           lub == infoMap[OrigID(job.id)].lub
<1>1. /\ config \in Configurations /\ job \in Packet /\ x \in Exchanges
  BY AnswerFacts
<1>2. /\ e.read /\ e.size \in Nat /\ ReadJob(job, x, e, replies[x], infoMap)
      /\ OrigID(job.id) = R /\ RequestID(job) = R
      /\ job.loff \in Nat /\ job.size \in Nat \ {0}
  BY ReadFacts
<1>3. /\ job.id \in R .. R + RidOffset - 1 /\ lub = e.size
      /\ R \in DOMAIN infoMap /\ infoMap[R].lub = e.size
  BY <1>2 DEF ReadJob
<1>4. SubreqSize \in Nat \ {0} /\ RidOffset \in Nat /\ RidOffset > 2
  BY <1>1, ConfigFacts
<1>5. EndOf(job) = loff /\ loff \in Nat /\ loff < e.size
  BY <1>2 DEF EndOf
<1>6. R \in Nat /\ R \in R .. R + RidOffset - 1
  BY <1>1, BaseFacts
<1>7. NextSubreqID(job.id) \in R .. R + RidOffset - 1 /\ NextSubreqID(job.id) # R
  BY <1>1, <1>3, NextIdFacts
<1>8. nj = IF lub <= loff + SubreqSize
           THEN [job EXCEPT !.id = OrigID(job.id), !.loff = loff, !.size = lub - loff]
           ELSE [job EXCEPT !.id = NextSubreqID(job.id), !.loff = loff, !.size = SubreqSize]
  BY Zenon DEF NextSubreq
<1>9. job = [id |-> job.id, kind |-> job.kind, read |-> job.read, loff |-> job.loff,
             size |-> job.size]
      /\ job.kind \in Kinds /\ job.read \in BOOLEAN
  BY <1>1 DEF Packet
<1> HIDE DEF e, R, loff, lub
<1>10. /\ nj.read = job.read /\ nj.kind = job.kind /\ nj.loff = loff
       /\ nj.id = IF lub <= loff + SubreqSize THEN R ELSE NextSubreqID(job.id)
       /\ nj.size = IF lub <= loff + SubreqSize THEN lub - loff ELSE SubreqSize
       /\ nj = [id |-> nj.id, kind |-> nj.kind, read |-> nj.read, loff |-> nj.loff,
                size |-> nj.size]
  <2>1. CASE lub <= loff + SubreqSize
    <3>1. nj = [id |-> R, kind |-> job.kind, read |-> job.read, loff |-> loff,
                size |-> lub - loff]
      BY <1>2, <1>8, <1>9, <2>1
    <3>2. QED
      BY <2>1, <3>1
  <2>2. CASE ~(lub <= loff + SubreqSize)
    <3>1. nj = [id |-> NextSubreqID(job.id), kind |-> job.kind, read |-> job.read,
                loff |-> loff, size |-> SubreqSize]
      BY <1>8, <1>9, <2>2
    <3>2. QED
      BY <2>2, <3>1
  <2>3. QED
    BY <2>1, <2>2
<1>11. nj.id \in R .. R + RidOffset - 1
  BY <1>6, <1>7, <1>10
<1>12. nj.size \in Nat /\ nj.size > 0 /\ loff + nj.size <= e.size
       /\ (nj.id = R <=> loff + nj.size = e.size)
  <2>1. CASE lub <= loff + SubreqSize
    <3>1. nj.id = R /\ nj.size = lub - loff
      BY <1>10, <2>1
    <3>2. QED
      BY <1>2, <1>3, <1>5, <3>1
  <2>2. CASE ~(lub <= loff + SubreqSize)
    <3>1. nj.id # R /\ nj.size = SubreqSize
      BY <1>7, <1>10, <2>2
    <3>2. QED
      BY <1>2, <1>3, <1>4, <1>5, <2>2, <3>1
  <2>3. QED
    BY <2>1, <2>2
<1>13. EndOf(nj) = loff + nj.size
  BY <1>10 DEF EndOf
<1>14. nj.id \in Nat /\ ExchangeOf(nj.id) = x /\ OrigID(nj.id) = R
  BY <1>1, <1>11, IdInRange DEF R
<1>15. nj \in Packet
  <2>1. nj.id \in Nat /\ nj.kind \in Kinds /\ nj.read \in BOOLEAN /\ nj.loff \in Nat
        /\ nj.size \in Nat
    BY <1>5, <1>9, <1>10, <1>12, <1>14
  <2>2. nj = [id |-> nj.id, kind |-> nj.kind, read |-> nj.read, loff |-> nj.loff,
              size |-> nj.size]
    BY <1>10
  <2>3. QED
    BY <2>1, <2>2 DEF Packet
<1>16. RequestID(nj) = R
  BY <1>10, <1>14 DEF RequestID
<1>17. ReadJob(nj, x, e, rs2, infoMap)
  BY <1>2, <1>3, <1>5, <1>10, <1>11, <1>12, <1>13 DEF ReadJob, R
<1>18. QED
  BY <1>2, <1>14, <1>15, <1>16, <1>17 DEF e, R


\* The last of a read: its request leaves with it.
ReadEnds(job, id, x) ==
  /\ ~aborted /\ job.read
  /\ id = RequestID(job) /\ IsOutstanding(reqQ, id)
  /\ x = ExchangeOf(job.id) /\ EndOf(job) = exchange[x].size
  /\ reqQ' = Popped(reqQ, id) /\ Forget(id)
  /\ subreqQ' = DispatchedNext(Popped(subreqQ, job.id), 1)
  /\ Reply(x, ReadDataResp(job, "PFS_R_DATA_LAST"))
  /\ UNCHANGED <<timers, aborted, exchange, written>>

\* The last part of a read comes back.
LEMMA ReadEnded ==
  ASSUME Inv, RoomForPackets, NEW job \in ToSet(subreqQ.osQ), NEW id, NEW x,
         ReadEnds(job, id, x)
  PROVE  StepInv
<1> DEFINE e == exchange[x]
           jobs == All(subreqQ)
           rest == Tail(jobs)
           rs2 == replies[x] \o ReadDataResp(job, "PFS_R_DATA_LAST")
<1>0. /\ ~aborted /\ job.read
      /\ id = RequestID(job) /\ IsOutstanding(reqQ, id)
      /\ x = ExchangeOf(job.id) /\ EndOf(job) = exchange[x].size
      /\ reqQ' = Popped(reqQ, id) /\ Forget(id)
      /\ subreqQ' = DispatchedNext(Popped(subreqQ, job.id), 1)
      /\ Reply(x, ReadDataResp(job, "PFS_R_DATA_LAST"))
      /\ UNCHANGED <<timers, aborted, exchange, written>>
  BY DEF ReadEnds
<1>1. /\ InvOf(reqQ, subreqQ, infoMap, timers, aborted, exchange, replies, written)
      /\ config \in Configurations /\ aborted = FALSE /\ x \in Exchanges
      /\ e.size \in config.sizes[x] /\ InOrder(rest, timers)
  BY <1>0, AnswerFacts
<1>2. /\ e.read /\ \A p \in ToSet(rest) \cup ToSet(timers) : ExchangeOf(p.id) # x
  BY <1>0, ReadFacts
<1>3. /\ reqQ' \in Queues /\ subreqQ' \in Queues /\ All(subreqQ') = rest
      /\ Records(reqQ', subreqQ', infoMap')
      /\ infoMap' \in [DOMAIN infoMap' -> Infos] /\ DOMAIN infoMap' \subseteq Nat
      /\ OthersKept(x, jobs, infoMap, timers, All(subreqQ'), infoMap', timers)
  BY <1>0, RequestFinished
<1>4. KindAt(job, e.size) = "PFS_R_DATA_LAST"
  BY <1>0, Zenon DEF KindAt
<1>5. rs2 \in Seq(Packets) /\ History(e, rs2, written[x])
  BY <1>0, <1>4, ReadReturned
<1>6. /\ timers \in Seq(Packet) /\ exchange \in [Exchanges -> Asking]
      /\ replies \in [Exchanges -> Seq(Packets)] /\ written \in [Exchanges -> Seq(Spans)]
  BY <1>1 DEF InvOf, Types
<1>7. replies' = [replies EXCEPT ![x] = rs2]
  BY <1>0, Zenon DEF Reply
<1> HIDE DEF jobs, rest, rs2
<1>8. /\ replies' \in [Exchanges -> Seq(Packets)] /\ replies'[x] = rs2
      /\ Untouched(x, exchange, replies, written, exchange, replies', written)
  BY <1>1, <1>5, <1>6, <1>7 DEF Untouched
<1>9. Types(reqQ', subreqQ', infoMap', timers, FALSE, exchange, replies', written)
  BY <1>3, <1>6, <1>8 DEF Types
<1>10. BooksOf(x, rest, infoMap', timers, e, rs2, written[x])
  <2> HIDE DEF e
  <2>1. NoneLost(x, e, rs2, written[x], Ids(rest) \cup Ids(timers))
    BY <1>2 DEF NoneLost
  <2>2. QED
    BY <1>1, <1>2, <1>5, <2>1, Zenon DEF BooksOf
<1>11. BooksOf(x, All(subreqQ'), infoMap', timers, exchange[x], replies'[x], written[x])
  BY <1>3, <1>8, <1>10
<1>12. InOrder(All(subreqQ'), timers)
  BY <1>1, <1>3
<1>13. InvOf(reqQ', subreqQ', infoMap', timers, FALSE, exchange, replies', written)
  <2>1. OthersKept(x, All(subreqQ), infoMap, timers, All(subreqQ'), infoMap', timers)
    BY <1>3 DEF jobs
  <2>2. QED
    BY <1>1, <1>3, <1>8, <1>9, <1>11, <1>12, <2>1, FrameInv
<1>14. timers' = timers /\ aborted' = FALSE /\ exchange' = exchange /\ written' = written
  BY <1>0, <1>1
<1>15. QED
  BY <1>13, <1>14, Zenon DEF StepInv

\* Any other part of a read: the next one follows.
ReadGoesOn(job, x, nj) ==
  /\ ~aborted /\ job.read
  /\ x = ExchangeOf(job.id) /\ EndOf(job) < exchange[x].size
  /\ nj = NextSubreq(job)
  /\ subreqQ' = DispatchedNext(PushedBack(Popped(subreqQ, job.id), nj), 1)
  /\ Reply(x, ReadDataResp(job, "PFS_R_DATA"))
  /\ UNCHANGED <<reqQ, infoMap, timers, aborted, exchange, written>>

\* A part of a read comes back, and the next one is asked for.
LEMMA ReadWentOn ==
  ASSUME Inv, RoomForPackets, NEW job \in ToSet(subreqQ.osQ), NEW x, NEW nj,
         ReadGoesOn(job, x, nj)
  PROVE  StepInv
<1> DEFINE e == exchange[x]
           jobs == All(subreqQ)
           rest == Tail(jobs)
           jobs2 == Append(rest, nj)
           rs2 == replies[x] \o ReadDataResp(job, "PFS_R_DATA")
<1>0. /\ ~aborted /\ job.read
      /\ x = ExchangeOf(job.id) /\ EndOf(job) < exchange[x].size
      /\ nj = NextSubreq(job)
      /\ subreqQ' = DispatchedNext(PushedBack(Popped(subreqQ, job.id), nj), 1)
      /\ Reply(x, ReadDataResp(job, "PFS_R_DATA"))
      /\ UNCHANGED <<reqQ, infoMap, timers, aborted, exchange, written>>
  BY DEF ReadGoesOn
<1>1. /\ InvOf(reqQ, subreqQ, infoMap, timers, aborted, exchange, replies, written)
      /\ config \in Configurations /\ aborted = FALSE /\ x \in Exchanges
      /\ e.asked /\ e.size \in config.sizes[x]
      /\ rest \in Seq(Packet) /\ InOrder(rest, timers)
      /\ ToSet(jobs) = {job} \cup ToSet(rest)
      /\ \A j \in ToSet(rest) : RequestID(j) \in DOMAIN infoMap
  BY <1>0, AnswerFacts
<1>2. /\ e.read /\ \A p \in ToSet(rest) \cup ToSet(timers) : ExchangeOf(p.id) # x
      /\ e.size \in Nat /\ EndOf(job) \in Nat
  BY <1>0, ReadFacts
<1>3. KindAt(job, e.size) = "PFS_R_DATA"
  <2>1. EndOf(job) # e.size
    BY <1>0, <1>2
  <2>2. QED
    BY <2>1, Zenon DEF KindAt
<1>4. rs2 \in Seq(Packets) /\ Reached(rs2) = EndOf(job) /\ History(e, rs2, written[x])
  BY <1>0, <1>3, ReadReturned
<1>5. /\ nj \in Packet /\ ExchangeOf(nj.id) = x /\ RequestID(nj) = RequestID(job)
      /\ ReadJob(nj, x, e, rs2, infoMap)
  BY <1>0, <1>4, NextSubreqFacts
<1>6. /\ timers \in Seq(Packet) /\ exchange \in [Exchanges -> Asking]
      /\ replies \in [Exchanges -> Seq(Packets)] /\ written \in [Exchanges -> Seq(Spans)]
      /\ reqQ \in Queues /\ subreqQ \in Queues /\ Records(reqQ, subreqQ, infoMap)
      /\ infoMap \in [DOMAIN infoMap -> Infos] /\ DOMAIN infoMap \subseteq Nat
  BY <1>1 DEF InvOf, Types
<1>7. Continued(subreqQ, job, nj, subreqQ')
  BY <1>0, <1>5 DEF Continued
<1>8. subreqQ' \in Queues /\ All(subreqQ') = jobs2 /\ Records(reqQ, subreqQ', infoMap)
  BY <1>5, <1>6, <1>7, RecordsContinued
<1>9. replies' = [replies EXCEPT ![x] = rs2]
  BY <1>0, Zenon DEF Reply
<1> HIDE DEF jobs, rest, rs2
<1>10. ToSet(jobs2) = ToSet(rest) \cup {nj} /\ jobs2 \in Seq(Packet)
  BY <1>1, <1>5, AppendElements
<1>11. InOrder(jobs2, timers)
  <2>1. \A p \in ToSet(rest) : Before(p, nj)
    BY <1>2, <1>5 DEF Before
  <2>2. \A p \in ToSet(timers) : Before(nj, p)
    BY <1>2, <1>5 DEF Before
  <2>3. QED
    BY <1>1, <1>5, <1>6, <2>1, <2>2, OrderAppendedJob
<1> HIDE DEF jobs2
<1>12. /\ replies' \in [Exchanges -> Seq(Packets)] /\ replies'[x] = rs2
       /\ Untouched(x, exchange, replies, written, exchange, replies', written)
  BY <1>1, <1>4, <1>6, <1>9 DEF Untouched
<1>13. Types(reqQ, subreqQ', infoMap, timers, FALSE, exchange, replies', written)
  BY <1>6, <1>8, <1>12 DEF Types
<1>14. BooksOf(x, jobs2, infoMap, timers, e, rs2, written[x])
  <2> HIDE DEF e
  <2>1. NoneLost(x, e, rs2, written[x], Ids(jobs2) \cup Ids(timers))
    BY <1>2 DEF NoneLost
  <2>2. JobOK(nj, x, e, rs2, written[x], infoMap)
    BY <1>1, <1>5, Zenon DEF JobOK
  <2>3. \A j \in ToSet(jobs2) : ExchangeOf(j.id) = x => j = nj
    BY <1>2, <1>10
  <2>4. QED
    BY <1>1, <1>2, <1>4, <2>1, <2>2, <2>3, Zenon DEF BooksOf
<1>15. OthersKept(x, jobs, infoMap, timers, jobs2, infoMap, timers)
  <2>1. \A j \in ToSet(jobs2) : ExchangeOf(j.id) # x =>
          j \in ToSet(jobs) /\ RequestID(j) \in DOMAIN infoMap
    BY <1>1, <1>5, <1>10
  <2>2. \A i \in Ids(jobs) : ExchangeOf(i) # x => i \in Ids(jobs2)
    BY <1>0, <1>1, <1>10 DEF Ids
  <2>3. QED
    BY <2>1, <2>2 DEF OthersKept
<1>16. OthersKept(x, All(subreqQ), infoMap, timers, All(subreqQ'), infoMap, timers)
  BY <1>8, <1>15 DEF jobs
<1>17. BooksOf(x, All(subreqQ'), infoMap, timers, exchange[x], replies'[x], written[x])
  BY <1>8, <1>12, <1>14
<1>18. InOrder(All(subreqQ'), timers)
  BY <1>8, <1>11
<1>19. InvOf(reqQ, subreqQ', infoMap, timers, FALSE, exchange, replies', written)
  BY <1>1, <1>8, <1>12, <1>13, <1>16, <1>17, <1>18, FrameInv
<1>20. /\ reqQ' = reqQ /\ infoMap' = infoMap /\ timers' = timers /\ aborted' = FALSE
       /\ exchange' = exchange /\ written' = written
  BY <1>0, <1>1
<1>21. QED
  BY <1>19, <1>20, Zenon DEF StepInv

\* handleVFSResp: a read.
LEMMA ReadDone ==
  ASSUME Inv, RoomForPackets, NEW job \in ToSet(subreqQ.osQ), HandleReadDone(job)
  PROVE  StepInv
<1> DEFINE x == ExchangeOf(job.id)
           orig == OrigID(job.id)
           last == infoMap[orig].lub <= job.loff + job.size
           nj == NextSubreq(job)
<1>1. ~aborted /\ job.read
  BY DEF HandleReadDone
<1>2. \/ /\ \/ orig \notin DOMAIN infoMap
            \/ (last \/ nj.id = orig) /\ ~IsOutstanding(reqQ, orig)
         /\ Abort
      \/ /\ last /\ IsOutstanding(reqQ, orig)
         /\ subreqQ' = DispatchedNext(Popped(subreqQ, job.id), 1)
         /\ reqQ' = Popped(reqQ, orig)
         /\ Forget(orig)
         /\ Reply(x, ReadDataResp(job, "PFS_R_DATA_LAST"))
         /\ UNCHANGED <<timers, aborted, exchange, written>>
      \/ /\ ~last
         /\ subreqQ' = DispatchedNext(PushedBack(Popped(subreqQ, job.id), nj), 1)
         /\ Reply(x, ReadDataResp(job, "PFS_R_DATA"))
         /\ UNCHANGED <<reqQ, infoMap, timers, aborted, exchange, written>>
  BY Zenon DEF HandleReadDone
<1>3. /\ exchange[x].size \in Nat /\ ReadJob(job, x, exchange[x], replies[x], infoMap)
      /\ RequestID(job) = x * RidOffset /\ orig = x * RidOffset
      /\ EndOf(job) \in Nat
  BY <1>1, ReadFacts
<1>4. /\ orig \in DOMAIN infoMap /\ infoMap[orig].lub = exchange[x].size
      /\ EndOf(job) <= exchange[x].size
  BY <1>3 DEF ReadJob
<1>5. /\ last => EndOf(job) = exchange[x].size
      /\ ~last => EndOf(job) < exchange[x].size
  BY <1>3, <1>4 DEF EndOf
<1>6. orig = RequestID(job)
  BY <1>3
<1>7. x = ExchangeOf(job.id) /\ nj = NextSubreq(job)
  OBVIOUS
<1> HIDE DEF x, orig, last, nj
<1>8. CASE /\ \/ orig \notin DOMAIN infoMap
              \/ (last \/ nj.id = orig) /\ ~IsOutstanding(reqQ, orig)
           /\ Abort
  BY <1>1, <1>4, <1>6, <1>8, AbortKeepsInv
<1>9. CASE /\ last /\ IsOutstanding(reqQ, orig)
           /\ subreqQ' = DispatchedNext(Popped(subreqQ, job.id), 1)
           /\ reqQ' = Popped(reqQ, orig)
           /\ Forget(orig)
           /\ Reply(x, ReadDataResp(job, "PFS_R_DATA_LAST"))
           /\ UNCHANGED <<timers, aborted, exchange, written>>
  BY <1>1, <1>5, <1>6, <1>7, <1>9, ReadEnded DEF ReadEnds
<1>10. CASE /\ ~last
            /\ subreqQ' = DispatchedNext(PushedBack(Popped(subreqQ, job.id), nj), 1)
            /\ Reply(x, ReadDataResp(job, "PFS_R_DATA"))
            /\ UNCHANGED <<reqQ, infoMap, timers, aborted, exchange, written>>
  BY <1>1, <1>5, <1>7, <1>10, ReadWentOn DEF ReadGoesOn
<1>11. QED
  BY <1>2, <1>8, <1>9, <1>10


-----------------------------------------------------------------------------
(* The invariant holds, and with it the properties. *)

\* The parts of the invariant say the same of the same arguments before and after a step,
\* for the configuration stays.
LEMMA ConfigPrimed ==
  ASSUME config' = config
  PROVE  /\ Exchanges' = Exchanges
         /\ PacketSizeLimit' = PacketSizeLimit
         /\ \A i : ExchangeOf(i)' = ExchangeOf(i)
         /\ \A i : OrigID(i)' = OrigID(i)
         /\ \A n : PacketCount(n)' = PacketCount(n)
         /\ \A n, k : PacketSize(n, k)' = PacketSize(n, k)
         /\ \A x, n, k : DataPacket(x, n, k)' = DataPacket(x, n, k)
         /\ \A e : Small(e)' <=> Small(e)
         /\ \A e, ws : Pending(e, ws)' = Pending(e, ws)
<1>1. Exchanges' = Exchanges
  BY DEF Exchanges
<1>2. /\ PacketSizeLimit' = PacketSizeLimit /\ RidOffset' = RidOffset
      /\ SmallIO' = SmallIO /\ Delays' = Delays
  BY DEF PacketSizeLimit, RidOffset, SmallIO, Delays
<1>3. /\ \A i : ExchangeOf(i)' = ExchangeOf(i)
      /\ \A i : OrigID(i)' = OrigID(i)
  BY <1>2 DEF ExchangeOf, OrigID
<1>4. \A n : PacketCount(n)' = PacketCount(n)
  BY <1>2 DEF PacketCount
<1>5. \A n, k : PacketSize(n, k)' = PacketSize(n, k)
  BY <1>2, <1>4 DEF PacketSize
<1>6. \A x, n, k : DataPacket(x, n, k)' = DataPacket(x, n, k)
  BY <1>2, <1>4, <1>5 DEF DataPacket
<1>7. \A e : Small(e)' <=> Small(e)
  BY <1>2 DEF Small
<1>8. \A e, ws : Pending(e, ws)' = Pending(e, ws)
  BY <1>4 DEF Pending
<1>9. QED
  BY <1>1, <1>2, <1>3, <1>4, <1>5, <1>6, <1>7, <1>8, Zenon

\* So do those about jobs and timers,
LEMMA JobsPrimed ==
  ASSUME config' = config
  PROVE  /\ \A p, x, e, rs, ws : TimerOK(p, x, e, rs, ws)' <=> TimerOK(p, x, e, rs, ws)
         /\ \A j, x, e, rs, ws, im : JobOK(j, x, e, rs, ws, im)' <=> JobOK(j, x, e, rs, ws, im)
<1>1. RidOffset' = RidOffset /\ Delays' = Delays
  BY DEF RidOffset, Delays
<1>2. \A p, x, e, rs, ws : TimerOK(p, x, e, rs, ws)' <=> TimerOK(p, x, e, rs, ws)
  BY <1>1, ConfigPrimed DEF TimerOK
<1>3. \A j, x, e, rs, im : ReadJob(j, x, e, rs, im)' <=> ReadJob(j, x, e, rs, im)
  BY <1>1 DEF ReadJob
<1>4. \A j, x, e, rs, ws, im : DataJob(j, x, e, rs, ws, im)' <=> DataJob(j, x, e, rs, ws, im)
  BY <1>1, ConfigPrimed DEF DataJob
<1>5. \A j, x, e, ws, im : SmallJob(j, x, e, ws, im)' <=> SmallJob(j, x, e, ws, im)
  BY <1>1, ConfigPrimed, Zenon DEF SmallJob
<1>6. QED
  BY <1>2, <1>3, <1>4, <1>5 DEF JobOK

\* those about an exchange, the queues and the types,
LEMMA BooksPrimed ==
  ASSUME config' = config
  PROVE  /\ \A e, rs, ws : History(e, rs, ws)' <=> History(e, rs, ws)
         /\ \A x, e, rs, ws, ids : NoneLost(x, e, rs, ws, ids)' <=> NoneLost(x, e, rs, ws, ids)
         /\ \A jobs, tm : InOrder(jobs, tm)' <=> InOrder(jobs, tm)
         /\ \A rq, sq, im : Records(rq, sq, im)' <=> Records(rq, sq, im)
         /\ \A rq, sq, im, tm, ab, ex, rp, wr :
              Types(rq, sq, im, tm, ab, ex, rp, wr)' <=> Types(rq, sq, im, tm, ab, ex, rp, wr)
<1>1. RidOffset' = RidOffset
  BY DEF RidOffset
<1>2. \A e, rs, ws : History(e, rs, ws)' <=> History(e, rs, ws)
  BY ConfigPrimed DEF History
<1>3. \A x, e, rs, ws, ids : NoneLost(x, e, rs, ws, ids)' <=> NoneLost(x, e, rs, ws, ids)
  BY <1>1, ConfigPrimed, Zenon DEF NoneLost
<1>4. \A p, q : Before(p, q)' <=> Before(p, q)
  BY ConfigPrimed, Zenon DEF Before
<1>5. \A jobs, tm : InOrder(jobs, tm)' <=> InOrder(jobs, tm)
  BY <1>4, Zenon DEF InOrder
<1>6. \A j : RequestID(j)' = RequestID(j)
  BY ConfigPrimed, Zenon DEF RequestID
<1>7. \A rq, sq, im : Records(rq, sq, im)' <=> Records(rq, sq, im)
  BY <1>6, Zenon DEF Records
<1>8. \A rq, sq, im, tm, ab, ex, rp, wr :
        Types(rq, sq, im, tm, ab, ex, rp, wr)' <=> Types(rq, sq, im, tm, ab, ex, rp, wr)
  BY ConfigPrimed DEF Types
<1>9. QED
  BY <1>2, <1>3, <1>5, <1>7, <1>8, Zenon

\* those about all exchanges,
LEMMA ExchangedPrimed ==
  ASSUME config' = config, NEW jobs, NEW im, NEW tm, NEW ex, NEW rp, NEW wr
  PROVE  Exchanged(jobs, im, tm, ex, rp, wr)' <=> Exchanged(jobs, im, tm, ex, rp, wr)
BY ConfigPrimed, JobsPrimed, BooksPrimed, Zenon DEF Exchanged

\* and so does the invariant.
LEMMA StepInvPrimed ==
  ASSUME config \in Configurations, config' = config, StepInv
  PROVE  Inv'
<1>1. \A rq, sq, im, tm, ab, ex, rp, wr :
        InvOf(rq, sq, im, tm, ab, ex, rp, wr)' <=> InvOf(rq, sq, im, tm, ab, ex, rp, wr)
  BY ExchangedPrimed, BooksPrimed DEF InvOf
<1>2. QED
  BY <1>1, Zenon DEF Inv, StepInv

\* The jobs for the file system have different identifiers.
LEMMA JobsApart ==
  ASSUME Inv
  PROVE  /\ subreqQ \in Queues /\ All(subreqQ) \in Seq(Packet)
         /\ \A j1, j2 \in ToSet(All(subreqQ)) :
              ExchangeOf(j1.id) = ExchangeOf(j2.id) /\ j1 # j2 => ~j1.read /\ ~j2.read
<1> DEFINE jobs == All(subreqQ)
<1>1. /\ config \in Configurations /\ subreqQ \in Queues
      /\ InvOf(reqQ, subreqQ, infoMap, timers, aborted, exchange, replies, written)
      /\ \A i, k \in DOMAIN jobs : i < k => Before(jobs[i], jobs[k])
  BY DEF Inv, InvOf, Types, InOrder
<1>2. jobs \in Seq(Packet)
  BY <1>1, QueueFields
<1>3. \A i \in DOMAIN jobs : jobs[i].read = exchange[ExchangeOf(jobs[i].id)].read
  BY <1>1, QueuedJob
<1> HIDE DEF jobs
<1>4. \A j1, j2 \in ToSet(jobs) :
        ExchangeOf(j1.id) = ExchangeOf(j2.id) /\ j1 # j2 => ~j1.read /\ ~j2.read
  <2> SUFFICES ASSUME NEW j1 \in ToSet(jobs), NEW j2 \in ToSet(jobs),
                      ExchangeOf(j1.id) = ExchangeOf(j2.id), j1 # j2
               PROVE  ~j1.read /\ ~j2.read
    OBVIOUS
  <2>1. PICK i \in DOMAIN jobs : jobs[i] = j1
    BY <1>2, ElementsAt
  <2>2. PICK k \in DOMAIN jobs : jobs[k] = j2
    BY <1>2, ElementsAt
  <2>3. i \in Nat /\ k \in Nat /\ i # k
    BY <1>2, <2>1, <2>2
  <2>4. i < k \/ k < i
    BY <2>3
  <2>5. Before(j1, j2) \/ Before(j2, j1)
    BY <1>1, <2>1, <2>2, <2>4
  <2>6. ~j1.read \/ ~j2.read
    BY <2>5 DEF Before
  <2>7. j1.read = j2.read
    BY <1>3, <2>1, <2>2
  <2>8. QED
    BY <2>6, <2>7
<1>5. QED
  BY <1>1, <1>2, <1>4 DEF jobs

\* The identifier of the request of a job for the file system.
HeldRequest(id) == IF id \in Held(reqQ) THEN id ELSE OrigID(id)

\* It is, for every job.
LEMMA RequestOfHeld ==
  ASSUME Inv, NEW j \in ToSet(All(subreqQ))
  PROVE  /\ HeldRequest(j.id) = RequestID(j) /\ j.id \in Nat
         /\ ExchangeOf(RequestID(j)) = ExchangeOf(j.id)
         /\ RequestID(j) \in Held(reqQ)
<1> DEFINE x == ExchangeOf(j.id)
<1>1. /\ config \in Configurations /\ reqQ \in Queues /\ subreqQ \in Queues
      /\ InvOf(reqQ, subreqQ, infoMap, timers, aborted, exchange, replies, written)
      /\ Held(reqQ) = DOMAIN infoMap
  BY HeldIsIds DEF Inv, InvOf, Types, Records
<1>2. All(subreqQ) \in Seq(Packet)
  BY JobsApart
<1>3. PICK k \in DOMAIN All(subreqQ) : All(subreqQ)[k] = j
  BY <1>2, ElementsAt
<1>4. /\ j \in Packet /\ x \in Exchanges
      /\ j.read = exchange[x].read
      /\ RequestID(j) = IF j.read THEN x * RidOffset ELSE j.id
      /\ ExchangeOf(RequestID(j)) = x /\ RequestID(j) \in DOMAIN infoMap
  BY <1>1, <1>3, QueuedJob
<1>5. CASE ~j.read
  BY <1>1, <1>4, <1>5 DEF HeldRequest, Packet
<1>6. CASE j.read /\ j.id \notin Held(reqQ)
  BY <1>1, <1>4, <1>6 DEF HeldRequest, RequestID, Packet
<1>7. CASE j.read /\ j.id \in Held(reqQ)
  <2>1. PICK j2 \in ToSet(All(subreqQ)) : RequestID(j2) = j.id /\ ExchangeOf(j2.id) = x
    BY <1>1, <1>7, RecordOfJob
  <2>2. j2 = j
    BY <1>7, <2>1, JobsApart
  <2>3. QED
    BY <1>1, <1>4, <1>7, <2>1, <2>2 DEF HeldRequest, Packet
<1>8. QED
  BY <1>5, <1>6, <1>7

\* As many jobs for the file system as requests: each is that of another one.
LEMMA RecordsAgree ==
  ASSUME Inv
  PROVE  RecordsMatchQueues
<1> DEFINE jobs == All(subreqQ)
           S == Held(subreqQ)
           T == Held(reqQ)
           f == [id \in S |-> HeldRequest(id)]
<1>1. /\ Types(reqQ, subreqQ, infoMap, timers, aborted, exchange, replies, written)
      /\ Records(reqQ, subreqQ, infoMap) /\ reqQ \in Queues /\ subreqQ \in Queues
      /\ exchange \in [Exchanges -> Asking]
  BY DEF Inv, InvOf, Types
<1>2. TypeOK
  BY <1>1 DEF TypeOK, Types, Records, Asking
<1>3. DOMAIN infoMap = T /\ T = {RequestID(j) : j \in ToSet(jobs)} /\ S = Ids(jobs)
  BY <1>1, HeldIsIds DEF Records
<1>4. jobs \in Seq(Packet)
  BY JobsApart
<1> HIDE DEF jobs
<1>5. \A j \in ToSet(jobs) : HeldRequest(j.id) = RequestID(j) /\ RequestID(j) \in T
  BY RequestOfHeld DEF jobs
<1>6. T = {HeldRequest(id) : id \in S}
  BY <1>3, <1>5 DEF Ids
<1>7. IsFiniteSet(S)
  <2> DEFINE g == [k \in 1 .. Len(jobs) |-> jobs[k].id]
  <2>1. Len(jobs) \in Nat
    BY <1>4
  <2>2. IsFiniteSet(1 .. Len(jobs))
    BY <2>1, FS_Interval
  <2>3. \A k \in 1 .. Len(jobs) : jobs[k] \in ToSet(jobs)
    BY <1>4, ElementsAt
  <2>4. \A id \in S : \E k \in 1 .. Len(jobs) : jobs[k].id = id
    BY <1>3, <1>4, ElementsAt DEF Ids
  <2>5. g \in Surjection(1 .. Len(jobs), S)
    BY <1>3, <2>3, <2>4 DEF Surjection, Ids
  <2>6. QED
    BY <2>2, <2>5, FS_Surjection
<1>8. f \in Surjection(S, T)
  BY <1>6 DEF Surjection
<1>9. ASSUME NEW j1 \in ToSet(jobs), NEW j2 \in ToSet(jobs), RequestID(j1) = RequestID(j2)
      PROVE  j1.id = j2.id
  <2>1. ExchangeOf(j1.id) = ExchangeOf(j2.id)
    BY <1>9, RequestOfHeld DEF jobs
  <2>2. j1 = j2 \/ (~j1.read /\ ~j2.read)
    BY <2>1, JobsApart DEF jobs
  <2>3. QED
    BY <1>9, <2>2 DEF RequestID
<1>10. f \in Injection(S, T)
  <2>1. \A a, b \in S : f[a] = f[b] => a = b
    BY <1>3, <1>5, <1>9 DEF Ids
  <2>2. QED
    BY <1>6, <2>1 DEF Injection, IsInjective
<1>11. Cardinality(S) = Cardinality(T)
  BY <1>7, <1>8, <1>10, FS_Surjection
<1>12. QED
  BY <1>2, <1>3, <1>6, <1>11, Zenon DEF RecordsMatchQueues, HeldRequest

\* Nothing is asked yet.
LEMMA InitInv ==
  ASSUME Init
  PROVE  Inv
<1>1. /\ config \in Configurations
      /\ reqQ = [waitQ |-> <<>>, osQ |-> <<>>] /\ subreqQ = [waitQ |-> <<>>, osQ |-> <<>>]
      /\ infoMap = [id \in {} |-> 0] /\ timers = <<>> /\ aborted = FALSE
      /\ exchange = [x \in Exchanges |-> NotAsked]
      /\ replies = [x \in Exchanges |-> <<>>] /\ written = [x \in Exchanges |-> <<>>]
  BY DEF Init, EmptyQueue
<1>2. All(reqQ) = <<>> /\ All(subreqQ) = <<>> /\ ToSet(<<>>) = {} /\ Ids(<<>>) = {}
  BY <1>1 DEF All, Ids, ToSet
<1>3. Types(reqQ, subreqQ, infoMap, timers, aborted, exchange, replies, written)
  <2>1. reqQ \in Queues /\ subreqQ \in Queues /\ timers \in Seq(Packet) /\ aborted \in BOOLEAN
    <3>1. <<>> \in Seq(Packet)
      OBVIOUS
    <3>2. [waitQ |-> <<>>, osQ |-> <<>>] \in Queues
      BY <3>1 DEF Queues
    <3>3. QED
      BY <1>1, <3>1, <3>2
  <2>2. infoMap \in [DOMAIN infoMap -> Infos] /\ DOMAIN infoMap \subseteq Nat
    BY <1>1
  <2>3. NotAsked \in Asking
    BY DEF NotAsked, Asking
  <2>4. /\ exchange \in [Exchanges -> Asking] /\ replies \in [Exchanges -> Seq(Packets)]
        /\ written \in [Exchanges -> Seq(Spans)]
    BY <1>1, <2>3
  <2>5. QED
    BY <2>1, <2>2, <2>4, Zenon DEF Types
<1>4. Records(reqQ, subreqQ, infoMap)
  BY <1>1, <1>2 DEF Records, OneEach
<1>5. InOrder(All(subreqQ), timers)
  BY <1>1, <1>2 DEF InOrder
<1>6. ASSUME NEW x \in Exchanges
      PROVE  /\ ~exchange[x].asked /\ ~exchange[x].read
             /\ History(exchange[x], replies[x], written[x])
             /\ NoneLost(x, exchange[x], replies[x], written[x],
                         Ids(All(subreqQ)) \cup Ids(timers))
  <2>1. exchange[x] = NotAsked /\ replies[x] = <<>> /\ written[x] = <<>>
    BY <1>1
  <2>2. ~NotAsked.asked /\ ~NotAsked.read /\ NotAsked.toCome = 0
    BY DEF NotAsked
  <2>3. QED
    BY <2>1, <2>2 DEF History, NoneLost
<1>7. Exchanged(All(subreqQ), infoMap, timers, exchange, replies, written)
  <2>1. DOMAIN timers = {} /\ DOMAIN All(subreqQ) = {}
    BY <1>1, <1>2
  <2>2. QED
    BY <1>6, <2>1, Zenon DEF Exchanged
<1>8. QED
  BY <1>1, <1>3, <1>4, <1>5, <1>7 DEF Inv, InvOf

\* Every step keeps the invariant.
LEMMA NextInv ==
  ASSUME Inv, RoomForPackets, [Next]_vars
  PROVE  Inv' /\ RoomForPackets'
<1>1. config \in Configurations
  BY DEF Inv
<1>2. config' = config
  BY DEF Next, vars
<1>3. StepInv
  <2>1. CASE UNCHANGED vars
    BY <2>1, Zenon DEF vars, Inv, StepInv
  <2>2. ASSUME NEW x \in Exchanges, NEW size \in config.sizes[x],
               \/ HandleReadRequest(x, size)
               \/ HandleSmallWriteRequest(x, size)
               \/ HandleWriteRequest(x, size)
        PROVE  StepInv
    BY <2>2, ReadRequested, SmallWriteRequested, WriteRequested
  <2>3. ASSUME NEW x \in Exchanges, HandleWriteDataPacket(x)
        PROVE  StepInv
    BY <2>3, DataPacketArrived
  <2>4. ASSUME NEW k \in DOMAIN timers, HandleSelfMessage(k)
        PROVE  StepInv
    BY <2>4, SelfMessage
  <2>5. ASSUME NEW job \in ToSet(subreqQ.osQ), HandleWriteDone(job) \/ HandleReadDone(job)
        PROVE  StepInv
    BY <2>5, WriteDone, ReadDone
  <2>6. QED
    BY <2>1, <2>2, <2>3, <2>4, <2>5, Zenon DEF Next
<1>4. RoomForPackets'
  <2>1. RidOffset' = RidOffset
    BY <1>2 DEF RidOffset
  <2>2. QED
    BY <1>2, <2>1, ConfigPrimed, Zenon DEF RoomForPackets
<1>5. QED
  BY <1>1, <1>2, <1>3, <1>4, StepInvPrimed

\* What the daemon keeps stays consistent, whatever the clients ask, in whatever order
\* requests, data packets, timers and answers of the file system come (all of
\* DSD_M::handleMessage), if the identifiers of the data packets of a write stay below
\* those of the next request.
THEOREM DaemonInvariant == Spec /\ RoomForPackets => [](Inv /\ RoomForPackets)
<1>1. Init /\ RoomForPackets => Inv /\ RoomForPackets
  BY InitInv
<1>2. Inv /\ RoomForPackets /\ [Next]_vars => (Inv /\ RoomForPackets)'
  BY NextInv
<1>3. QED
  BY <1>1, <1>2, PTL DEF Spec

\* reqQ, infoMap and subreqQ agree: there is a record (infoMap) for every request held and
\* for no other, and one sub-request for each (newReq, finishedReq, dispatchNext).
THEOREM DaemonRecordsMatchQueues == Spec /\ RoomForPackets => []RecordsMatchQueues
<1>1. Inv => RecordsMatchQueues
  BY RecordsAgree
<1>2. QED
  BY <1>1, DaemonInvariant, PTL

\* finishedReq finds the request that it takes out, and the daemon does not stop with an
\* error, unless more requests arrived than reqQ lets out.
THEOREM DaemonAbortOnlyOnOverflow == Spec /\ RoomForPackets => []AbortOnlyOnOverflow
<1>1. Inv => AbortOnlyOnOverflow
  BY DEF Inv, InvOf, AbortOnlyOnOverflow
<1>2. QED
  BY <1>1, DaemonInvariant, PTL

\* A read comes back byte for byte (newReq, finishedReq, handleReadDataResp): its packets are
\* in order, without gap or overlap, and the last one, and only it, says so.
THEOREM DaemonReadsReturnedExactly == Spec /\ RoomForPackets => []ReadsReturnedExactly
<1>1. Inv => ReadsReturnedExactly
  BY HistoryGivesReads
<1>2. QED
  BY <1>1, DaemonInvariant, PTL

\* A write is granted once (sendWriteResp), its data written in order, each packet once, and
\* PFS_W_FIN sent once, when all of it is (handleWriteDataPacket, handleVFSResp).
THEOREM DaemonWritesFinishedExactly == Spec /\ RoomForPackets => []WritesFinishedExactly
<1>1. Inv => WritesFinishedExactly
  BY HistoryGivesWrites
<1>2. QED
  BY <1>1, DaemonInvariant, PTL
=============================================================================
