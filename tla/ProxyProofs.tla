----------------------------- MODULE ProxyProofs -----------------------------
(***************************************************************************)
(* Proofs about a proxy under FIFO and EDF, for every number of exchanges, *)
(* every degree, deadlines, processing times and reuse of identifiers: the *)
(* places of the scheduler are the requests at the servers, no request     *)
(* waits that there is room for, requests wait by deadline and, among      *)
(* equals, by arrival, and the packets of an exchange pass in the order in *)
(* which its ends sent them.  The loops that stop at the first later       *)
(* deadline (getNumReqsInWaitQWithinDeadline) rely on the order of those   *)
(* that wait, the ends of an exchange on the order of its packets.         *)
(***************************************************************************)
EXTENDS Proxy, ListLemmas, FiniteSetTheorems

-----------------------------------------------------------------------------
(* The queue. *)

\* No job waits behind one whose deadline is later.
ByDeadline(waitQ, delay) ==
  \A i, j \in DOMAIN waitQ :
    i < j => EDF!Deadline(delay, waitQ[i]) <= EDF!Deadline(delay, waitQ[j])

\* pushWaitQ of EDF puts a job behind all that are due no later and in front of all
\* that are due later: by deadline, and behind its equals.  The others keep their order.
THEOREM EDFInsertsInPlace ==
  ASSUME NEW Jobs, NEW delay, \A j \in Jobs : EDF!Deadline(delay, j) \in Int,
         NEW waitQ \in Seq(Jobs), NEW job \in Jobs, ByDeadline(waitQ, delay)
  PROVE  LET new == EDF!InsertedByDeadline(waitQ, job, delay)
         IN  /\ new \in Seq(Jobs) /\ Len(new) = Len(waitQ) + 1
             /\ \E k \in 1 .. Len(waitQ) + 1 :
                  /\ \A i \in 1 .. Len(waitQ) + 1 :
                       new[i] = IF i < k THEN waitQ[i] ELSE IF i = k THEN job ELSE waitQ[i-1]
                  /\ \A i \in 1 .. k - 1 :
                       EDF!Deadline(delay, waitQ[i]) <= EDF!Deadline(delay, job)
                  /\ \A i \in k .. Len(waitQ) :
                       EDF!Deadline(delay, job) < EDF!Deadline(delay, waitQ[i])
<1> DEFINE DueAt(j) == EDF!Deadline(delay, j)
           new == EDF!InsertedByDeadline(waitQ, job, delay)
           Later == {i \in 1 .. Len(waitQ) : DueAt(job) < DueAt(waitQ[i])}
           place == IF Later # {} THEN Min(Later) ELSE 0
<1>1. /\ DOMAIN waitQ = 1 .. Len(waitQ) /\ Len(waitQ) \in Nat
      /\ \A i \in 1 .. Len(waitQ) : waitQ[i] \in Jobs
  OBVIOUS
<1>2. DueAt(job) \in Int /\ \A i \in 1 .. Len(waitQ) : DueAt(waitQ[i]) \in Int
  BY <1>1
<1>3. \/ place = 0 /\ \A i \in 1 .. Len(waitQ) : ~(DueAt(job) < DueAt(waitQ[i]))
      \/ /\ place \in 1 .. Len(waitQ)
         /\ DueAt(job) < DueAt(waitQ[place])
         /\ \A i \in 1 .. place - 1 : ~(DueAt(job) < DueAt(waitQ[i]))
  <2> HIDE DEF DueAt
  <2>1. Later \subseteq 1 .. Len(waitQ)
    OBVIOUS
  <2> HIDE DEF Later, place
  <2>2. \/ place = 0 /\ Later = {}
        \/ place \in Later /\ \A i \in 1 .. place - 1 : i \in 1 .. Len(waitQ) /\ i \notin Later
    BY <1>1, <2>1, FirstOfKind DEF place
  <2>3. QED
    BY <2>2 DEF Later
<1>4. new = IF place = 0 THEN Append(waitQ, job) ELSE InsertAt(waitQ, place, job)
  BY Zenon DEF EDF!InsertedByDeadline, EDF!SelectInSeq, EDF!Min, Min, EDF!InsertAt, InsertAt
<1>5. \A i, j \in DOMAIN waitQ : i < j => DueAt(waitQ[i]) <= DueAt(waitQ[j])
  BY DEF ByDeadline
<1> HIDE DEF place, new, DueAt
<1>6. /\ new \in Seq(Jobs) /\ Len(new) = Len(waitQ) + 1
      /\ \E k \in 1 .. Len(waitQ) + 1 :
           /\ \A i \in 1 .. Len(waitQ) + 1 :
                new[i] = IF i < k THEN waitQ[i] ELSE IF i = k THEN job ELSE waitQ[i-1]
           /\ \A i \in 1 .. k - 1 : DueAt(waitQ[i]) <= DueAt(job)
           /\ \A i \in k .. Len(waitQ) : DueAt(job) < DueAt(waitQ[i])
  <2>1. CASE place = 0
    <3>1. /\ new \in Seq(Jobs) /\ Len(new) = Len(waitQ) + 1
          /\ \A i \in 1 .. Len(waitQ) + 1 : new[i] = IF i <= Len(waitQ) THEN waitQ[i] ELSE job
      BY <1>4, <2>1
    <3>2. \A i \in 1 .. Len(waitQ) : DueAt(waitQ[i]) <= DueAt(job)
      BY <1>1, <1>2, <1>3, <2>1
    <3>3. QED
      <4> DEFINE k == Len(waitQ) + 1
      <4>1. k \in 1 .. Len(waitQ) + 1
        BY <1>1
      <4>2. \A i \in 1 .. Len(waitQ) + 1 :
              new[i] = IF i < k THEN waitQ[i] ELSE IF i = k THEN job ELSE waitQ[i-1]
        BY <1>1, <3>1
      <4>3. \A i \in 1 .. k - 1 : DueAt(waitQ[i]) <= DueAt(job)
        BY <1>1, <3>2
      <4>4. \A i \in k .. Len(waitQ) : DueAt(job) < DueAt(waitQ[i])
        BY <1>1
      <4>5. QED
        BY <3>1, <4>1, <4>2, <4>3, <4>4
  <2>2. CASE place # 0
    <3>1. place \in 1 .. Len(waitQ) /\ place \in 1 .. Len(waitQ) + 1
      BY <1>1, <1>3, <2>2
    <3>2. /\ new \in Seq(Jobs) /\ Len(new) = Len(waitQ) + 1
          /\ \A i \in 1 .. Len(waitQ) + 1 :
               new[i] = IF i < place THEN waitQ[i] ELSE IF i = place THEN job ELSE waitQ[i-1]
      <4>1. new = InsertAt(waitQ, place, job)
        BY <1>4, <2>2
      <4> DEFINE t == InsertAt(waitQ, place, job)
      <4>2. /\ t \in Seq(Jobs) /\ Len(t) = Len(waitQ) + 1
            /\ \A i \in 1 .. Len(waitQ) + 1 :
                 t[i] = IF i < place THEN waitQ[i] ELSE IF i = place THEN job ELSE waitQ[i-1]
        BY <3>1, InsertAtElements
      <4> HIDE DEF t
      <4>3. QED
        BY <4>1, <4>2 DEF t
    <3>3. \A i \in 1 .. place - 1 : DueAt(waitQ[i]) <= DueAt(job)
      BY <1>1, <1>2, <1>3, <2>2, <3>1
    <3>4. ASSUME NEW i \in place .. Len(waitQ)
          PROVE  DueAt(job) < DueAt(waitQ[i])
      <4>1. DueAt(job) < DueAt(waitQ[place])
        BY <1>3, <2>2
      <4>2. i \in 1 .. Len(waitQ)
        BY <1>1, <3>1
      <4>3. place = i \/ DueAt(waitQ[place]) <= DueAt(waitQ[i])
        BY <1>1, <1>5, <3>1, <4>2
      <4>4. QED
        BY <1>2, <3>1, <4>1, <4>2, <4>3
    <3>5. QED
      BY <3>1, <3>2, <3>3, <3>4
  <2>3. QED
    BY <2>1, <2>2
<1>7. QED
  BY <1>6, Zenon DEF DueAt, new

-----------------------------------------------------------------------------
(* The exchanges.  An exchange that is asked for is brought on by one thing at a time: *)
(* its request until it goes to the server, then one packet after the other that makes *)
(* the other end answer or ends the exchange.                                          *)

RequestKinds == {"PFS_R_REQ", "PFS_W_REQ"}
MinorKinds   == {"PFS_W_RESP", "PFS_W_DATA", "PFS_W_DATA_LAST", "PFS_R_DATA"}
LastKinds    == {"PFS_W_FIN", "PFS_R_DATA_LAST"}
AllKinds     == RequestKinds \cup MinorKinds \cup LastKinds

\* The kinds of packets that bring an exchange on once its request is at the server.
MovingKinds == {"PFS_W_RESP", "PFS_W_DATA_LAST"} \cup LastKinds

\* The requests that clients may make.
RequestsOf(x) == {Job(x, read, rise) : read \in config.reads[x], rise \in config.times}
Jobs == UNION {RequestsOf(x) : x \in Exchanges}

PacketsOf(x, kinds) == [kind : kinds, id : x * RidOffset .. x * RidOffset + Packets]

MinorPackets == UNION {PacketsOf(x, MinorKinds) : x \in Exchanges}
LastPackets  == UNION {PacketsOf(x, LastKinds) : x \in Exchanges}

\* The self messages: which packets may wait as which.
SelfMessages == [self : {"SELF_REQ"}, packet : Jobs]
                  \cup [self : {"SELF_MINOR"}, packet : MinorPackets]
                  \cup [self : {"SELF_FIN"}, packet : LastPackets]

\* Those among them that bring exchange x on: its request, and later its packets.
RequestTimers(x) == [self : {"SELF_REQ"}, packet : RequestsOf(x)]
MovingTimers(x)  == [self : {"SELF_MINOR", "SELF_FIN"}, packet : PacketsOf(x, MovingKinds)]

\* What the two ends of exchange x may have to send, and what may have passed.
EndsOf(x) == [asked : BOOLEAN, round : Nat, read : config.reads[x] \cup {FALSE},
              fromClient : Seq(PacketsOf(x, MinorKinds)),
              fromServer : Seq(PacketsOf(x, MinorKinds \cup LastKinds)),
              forwarded : Seq(AllKinds)]

\* How many of the things that bring x on come before the server, and how many after.
Before(tm, q, x)   == CountIn(tm, RequestTimers(x)) + CountIn(q.waitQ, RequestsOf(x))
OnTheWay(e, x)     == CountIn(e.fromClient, PacketsOf(x, MovingKinds))
                        + CountIn(e.fromServer, PacketsOf(x, MovingKinds))
After(tm, exch, x) == CountIn(tm, MovingTimers(x)) + OnTheWay(exch[x], x)

\* The request has been sent to the server.
Sent(e) == RequestKinds \cap ToSet(e.forwarded) # {}

Balanced(tm, q, exch, x) ==
  /\ Before(tm, q, x) + After(tm, exch, x) = IF exch[x].asked THEN 1 ELSE 0
  /\ CountIn(q.osQ, RequestsOf(x)) = After(tm, exch, x)
  /\ exch[x].asked => (Sent(exch[x]) <=> After(tm, exch, x) = 1)

\* The books of the proxy, with the messages tm, queue q, exchanges exch and count n.
Books(tm, q, exch, n) ==
  /\ tm \in Seq(SelfMessages)
  /\ q \in [waitQ : Seq(Jobs), osQ : Seq(Jobs)]
  /\ exch = [x \in Exchanges |-> exch[x]]
  /\ \A x \in Exchanges : exch[x] \in EndsOf(x) /\ Balanced(tm, q, exch, x)
  /\ n = Len(q.osQ)
  /\ Par.degree >= 0 => Len(q.osQ) <= Par.degree

\* When the job arrived, if arr is what arrived.
ArrivalIn(arr, job) == SelectLastInSeq(arr, LAMBDA j : j.id = job.id)

\* The requests wait by deadline, and by arrival among equals.
InOrder(arr, waitQ) ==
  \A i, j \in DOMAIN waitQ : i < j =>
    /\ Due(waitQ[i]) <= Due(waitQ[j])
    /\ Due(waitQ[i]) = Due(waitQ[j]) => ArrivalIn(arr, waitQ[i]) < ArrivalIn(arr, waitQ[j])

-----------------------------------------------------------------------------
(* The packets of an exchange in the order in which they have to pass. *)

\* The number of an exchange's packets, and the kind and identifier of each.
Length(read) == IF read THEN Packets + 1 ELSE Packets + 3
KindAt(read, i) ==
  IF read THEN CASE i = 1 -> "PFS_R_REQ"
                 [] i = Packets + 1 -> "PFS_R_DATA_LAST"
                 [] OTHER -> "PFS_R_DATA"
  ELSE CASE i = 1 -> "PFS_W_REQ"
         [] i = 2 -> "PFS_W_RESP"
         [] i = Packets + 2 -> "PFS_W_DATA_LAST"
         [] i = Packets + 3 -> "PFS_W_FIN"
         [] OTHER -> "PFS_W_DATA"
NumberAt(read, i) ==
  IF read THEN IF i = Packets + 1 THEN 0 ELSE i - 1
  ELSE CASE i = 1 -> 0
         [] i = Packets + 3 -> Packets
         [] OTHER -> i - 2
Nth(x, read, i) == [kind |-> KindAt(read, i), id |-> x * RidOffset + NumberAt(read, i)]

\* How many packets its ends have made once n of them have passed.
Made(read, n) ==
  CASE n = 0 -> 0
    [] n > 0 /\ read -> Packets + 1
    [] n = 1 /\ ~read -> 2
    [] n \in 2 .. Packets + 1 /\ ~read -> Packets + 2
    [] OTHER -> Packets + 3

\* How many of them its ends have sent.
SentOff(e) == Made(e.read, Len(e.forwarded)) - Len(e.fromClient) - Len(e.fromServer)

\* It is the client that sends.
ByClient(read, n) == ~read /\ n \in 2 .. Packets + 1

\* A message is a packet of exchange x, and not its request.
Later(t, x) == t.self # "SELF_REQ" /\ ExchangeOf(t.packet.id) = x

\* The packets of x that wait as messages are those from lo to hi, in this order.
Waiting(tm, x, read, lo, hi) ==
  /\ \A k \in DOMAIN tm : Later(tm[k], x) => \E i \in lo .. hi : tm[k].packet = Nth(x, read, i)
  /\ \A i \in lo .. hi : \E k \in DOMAIN tm : Later(tm[k], x) /\ tm[k].packet = Nth(x, read, i)
  /\ \A j, k \in DOMAIN tm : \A g, i \in lo .. hi :
       /\ j < k /\ Later(tm[j], x) /\ Later(tm[k], x)
       /\ tm[j].packet = Nth(x, read, g) /\ tm[k].packet = Nth(x, read, i)
       => g < i

\* The packets of x are, in order, those that have passed, those that wait, and those
\* that one of the ends has still to send.
Flow(tm, e, x) ==
  LET n == Len(e.forwarded)
      c == SentOff(e)
  IN  /\ n <= c /\ n <= Length(e.read)
      /\ \A i \in 1 .. n : e.forwarded[i] = KindAt(e.read, i)
      /\ IF e.asked THEN n < Length(e.read) ELSE n \in {0, Length(e.read)}
      /\ IF ByClient(e.read, n) THEN e.fromServer = <<>> ELSE e.fromClient = <<>>
      /\ \A i \in DOMAIN e.fromClient : e.fromClient[i] = Nth(x, e.read, c + i)
      /\ \A i \in DOMAIN e.fromServer : e.fromServer[i] = Nth(x, e.read, c + i)
      /\ Waiting(tm, x, e.read, n + 1, c)

\* The data of a read overtake one another when newjob_proc_time holds them.
Ordered(e) == ~("newjob" \in Delays /\ e.read)

Flows(tm, exch) ==
  \A x \in Exchanges : /\ exch[x].round = 0 => exch[x] = Idle
                       /\ Ordered(exch[x]) => Flow(tm, exch[x], x)

\* The requests that have not gone to the server yet are as their clients asked.
AsAsked(tm, waitQ, exch) ==
  /\ \A k \in DOMAIN tm : tm[k].self = "SELF_REQ" =>
       tm[k].packet.read = exch[ExchangeOf(tm[k].packet.id)].read
  /\ \A i \in DOMAIN waitQ : waitQ[i].read = exch[ExchangeOf(waitQ[i].id)].read

Flowing(tm, waitQ, exch) == Flows(tm, exch) /\ AsAsked(tm, waitQ, exch)

\* The message's packet is the one that has to pass next in its exchange.
IsNext(t, exch) ==
  LET pkt == t.packet
      x   == ExchangeOf(pkt.id)
  IN  Ordered(exch[x]) => pkt = Nth(x, exch[x].read, Len(exch[x].forwarded) + 1)

\* Only messages of which the processing time is not 0 wait.
OnlyDelayed(tm) == \A k \in DOMAIN tm : Delay(tm[k].self) \in Delays

\* No data of a read can be left when its identifier is used again for a write.
OneUse ==
  "newjob" \in Delays /\ config.rounds > 1 => \A x \in Exchanges : config.reads[x] # BOOLEAN

FlowKept(tm, waitQ, exch) == OneUse => Flowing(tm, waitQ, exch)

-----------------------------------------------------------------------------
(* The invariant. *)

\* The schedulers these proofs are about.
Plain == Algorithm \in {"FIFO", "EDF"}

\* The inductive invariant.
ProxyInv ==
  /\ config \in Configurations
  /\ Plain => /\ Books(timers, queue, exchange, osReqNum)
              /\ arrivals \in Seq(Jobs) /\ InOrder(arrivals, queue.waitQ)
              /\ ~EDF!CanDispatch(queue, Par.degree)
              /\ FlowKept(timers, queue.waitQ, exchange) /\ OnlyDelayed(timers)

-----------------------------------------------------------------------------
(* Identifiers, requests and packets. *)

\* A number is found again under an offset smaller than the factor.
LEMMA DivOfSum ==
  ASSUME NEW r \in Nat, NEW x \in Nat, NEW k \in Nat, k < r
  PROVE  (x * r + k) \div r = x
  OBVIOUS

\* The identifiers of an exchange's packets are its own.
LEMMA RidFacts ==
  ASSUME config \in Configurations, NEW x \in Exchanges,
         NEW i \in x * RidOffset .. x * RidOffset + Packets
  PROVE  /\ i \in Nat /\ ExchangeOf(i) = x /\ x \in Nat \ {0}
         /\ x * RidOffset \in x * RidOffset .. x * RidOffset + Packets
         /\ RidOffset \in Nat /\ Packets \in Nat \ {0}
<1>1. x \in Nat \ {0} /\ RidOffset \in Nat /\ Packets \in Nat \ {0} /\ Packets < RidOffset
  BY ProxyAssumption DEF Exchanges, Packets
<1>2. x * RidOffset \in Nat
  BY <1>1
<1> DEFINE base == x * RidOffset
           k == i - base
<1> HIDE DEF base
<1>3. k \in Nat /\ k < RidOffset /\ i = base + k /\ i \in Nat /\ base \in base .. base + Packets
  BY <1>1, <1>2 DEF base
<1>4. i \div RidOffset = x
  BY <1>1, <1>3, DivOfSum DEF base
<1>5. QED
  BY <1>1, <1>3, <1>4 DEF ExchangeOf, base

\* The identifier of an exchange is its first one.
LEMMA ExchangeFacts ==
  ASSUME config \in Configurations, NEW x \in Exchanges
  PROVE  /\ x \in Nat \ {0} /\ RidOffset \in Nat /\ Packets \in Nat \ {0}
         /\ x * RidOffset \in Nat /\ ExchangeOf(x * RidOffset) = x
         /\ x * RidOffset \in x * RidOffset .. x * RidOffset + Packets
<1>1. x \in Nat \ {0} /\ RidOffset \in Nat /\ Packets \in Nat \ {0}
  BY ProxyAssumption DEF Exchanges, Packets
<1>2. x * RidOffset \in x * RidOffset .. x * RidOffset + Packets
  BY <1>1
<1>3. QED
  BY <1>1, <1>2, RidFacts

\* A request has its exchange's identifier, and a deadline.
LEMMA RequestFacts ==
  ASSUME config \in Configurations, NEW x \in Exchanges, NEW job \in RequestsOf(x)
  PROVE  /\ job \in Jobs /\ job.id = x * RidOffset /\ ExchangeOf(job.id) = x
         /\ Request(job) \in PacketsOf(x, RequestKinds)
         /\ EDF!Deadline(Par.delay, job) \in Int
<1>1. PICK read \in config.reads[x], rise \in config.times : job = Job(x, read, rise)
  BY DEF RequestsOf
<1> DEFINE f == config.jobs[x]
           g == [id |-> x * RidOffset, read |-> read, rise |-> rise]
<1>2. "app" \in DOMAIN f /\ Par.delay[f.app] \in Nat /\ rise \in Nat
  BY ProxyAssumption DEF Par, Exchanges
<1>3. job.app = f.app /\ job.rise = rise /\ job.id = x * RidOffset
  <2>1. job = [z \in DOMAIN f \cup DOMAIN g |-> IF z \in DOMAIN g THEN g[z] ELSE f[z]]
    BY <1>1 DEF Job
  <2>2. /\ "rise" \in DOMAIN g /\ g["rise"] = rise /\ "app" \notin DOMAIN g
        /\ "id" \in DOMAIN g /\ g["id"] = x * RidOffset
    OBVIOUS
  <2> HIDE DEF f, g
  <2>3. QED
    BY <1>2, <2>1, <2>2
<1>4. EDF!Deadline(Par.delay, job) \in Int
  BY <1>2, <1>3 DEF EDF!Deadline
<1>5. ExchangeOf(job.id) = x /\ job.id \in x * RidOffset .. x * RidOffset + Packets
  BY <1>3, ExchangeFacts
<1>6. Request(job) \in PacketsOf(x, RequestKinds)
  BY <1>5 DEF Request, PacketsOf, RequestKinds
<1>7. QED
  BY <1>3, <1>4, <1>5, <1>6 DEF Jobs

\* A job is a request of the exchange its identifier names.
LEMMA JobFacts ==
  ASSUME config \in Configurations, NEW job \in Jobs
  PROVE  LET x == ExchangeOf(job.id)
         IN  x \in Exchanges /\ job \in RequestsOf(x) /\ job.id = x * RidOffset
<1>1. PICK x \in Exchanges : job \in RequestsOf(x)
  BY DEF Jobs
<1>2. QED
  BY <1>1, RequestFacts

\* No two exchanges have a request in common.
LEMMA RequestsApart ==
  ASSUME config \in Configurations, NEW x \in Exchanges, NEW y \in Exchanges, x # y,
         NEW job \in RequestsOf(x)
  PROVE  job \notin RequestsOf(y)
  BY RequestFacts

\* A packet's identifier says whose it is, its kind what it does.
LEMMA PacketFacts ==
  ASSUME config \in Configurations, NEW x \in Exchanges, NEW kinds, NEW pkt \in PacketsOf(x, kinds)
  PROVE  /\ pkt.kind \in kinds /\ pkt = [kind |-> pkt.kind, id |-> pkt.id]
         /\ pkt.id \in x * RidOffset .. x * RidOffset + Packets
         /\ ExchangeOf(pkt.id) = x
         /\ \A more : pkt.kind \in more => pkt \in PacketsOf(x, more)
         /\ \A more : \A y \in Exchanges : pkt \in PacketsOf(y, more) <=> y = x /\ pkt.kind \in more
<1>1. /\ pkt.kind \in kinds /\ pkt.id \in x * RidOffset .. x * RidOffset + Packets
      /\ pkt = [kind |-> pkt.kind, id |-> pkt.id]
  BY DEF PacketsOf
<1>2. ExchangeOf(pkt.id) = x
  BY <1>1, RidFacts
<1>3. ASSUME NEW y \in Exchanges, NEW more, pkt \in PacketsOf(y, more)
      PROVE  y = x /\ pkt.kind \in more
  <2>1. pkt.kind \in more /\ pkt.id \in y * RidOffset .. y * RidOffset + Packets
    BY <1>3 DEF PacketsOf
  <2>2. QED
    BY <1>2, <2>1, RidFacts
<1>4. ASSUME NEW more, pkt.kind \in more
      PROVE  pkt \in PacketsOf(x, more)
  BY <1>1, <1>4 DEF PacketsOf
<1>5. QED
  BY <1>1, <1>2, <1>3, <1>4

-----------------------------------------------------------------------------
(* What goes out. *)

\* One member that counts counts once.
LEMMA CountLastOnly ==
  ASSUME NEW S, NEW s \in Seq(S), NEW n \in DOMAIN s, NEW D,
         \A i \in DOMAIN s : s[i] \in D <=> i = n
  PROVE  CountIn(s, D) = 1
<1> DEFINE I == {i \in DOMAIN s : s[i] \in D}
<1>1. I = {n}
  OBVIOUS
<1> HIDE DEF I
<1>2. Cardinality(I) = 1
  BY <1>1, FS_Singleton
<1>3. QED
  BY <1>2 DEF CountIn, I

\* Nothing counts in an empty sequence.
LEMMA CountInNone ==
  ASSUME NEW D
  PROVE  CountIn(<<>>, D) = 0
<1> DEFINE I == {i \in DOMAIN <<>> : <<>>[i] \in D}
<1>1. I = {}
  OBVIOUS
<1> HIDE DEF I
<1>2. Cardinality(I) = 0
  BY <1>1, FS_EmptySet
<1>3. QED
  BY <1>2 DEF CountIn, I

\* Of the data packets only the last brings the exchange on.
LEMMA DataFacts ==
  ASSUME config \in Configurations, NEW x \in Exchanges
  PROVE  /\ WriteData(x) \in Seq(PacketsOf(x, MinorKinds))
         /\ CountIn(WriteData(x), PacketsOf(x, MovingKinds)) = 1
         /\ ReadData(x) \in Seq(PacketsOf(x, MinorKinds \cup LastKinds))
         /\ CountIn(ReadData(x), PacketsOf(x, MovingKinds)) = 1
<1> DEFINE n == Packets
           base == x * RidOffset
           w == WriteData(x)
           r == ReadData(x)
<1>1. n \in Nat \ {0} /\ base \in Nat /\ base \in base .. base + n
  BY ExchangeFacts
<1>2. w = [k \in 1 .. n |-> [kind |-> IF k = n THEN "PFS_W_DATA_LAST" ELSE "PFS_W_DATA",
                             id |-> base + k]]
  BY DEF WriteData, DataPackets
<1>3. r = [[k \in 1 .. n |-> [kind |-> IF k = n THEN "PFS_R_DATA_LAST" ELSE "PFS_R_DATA",
                              id |-> base + k]] EXCEPT ![n].id = base]
  BY DEF ReadData, DataPackets
<1> HIDE DEF w, r, base, n
<1> DEFINE M == [kind : MinorKinds, id : base .. base + n]
           L == [kind : MinorKinds \cup LastKinds, id : base .. base + n]
           D == [kind : MovingKinds, id : base .. base + n]
<1>4. DOMAIN w = 1 .. n /\ n \in DOMAIN w
  BY <1>1, <1>2
<1>5. \A k \in 1 .. n : w[k] \in M /\ (w[k] \in D <=> k = n)
  BY <1>1, <1>2 DEF MinorKinds, MovingKinds, LastKinds
<1>6. DOMAIN r = 1 .. n /\ n \in DOMAIN r
  BY <1>1, <1>3
<1>7. \A k \in 1 .. n : r[k] \in L /\ (r[k] \in D <=> k = n)
  <2> DEFINE f == [k \in 1 .. n |-> [kind |-> IF k = n THEN "PFS_R_DATA_LAST" ELSE "PFS_R_DATA",
                                    id |-> base + k]]
  <2>1. r = [f EXCEPT ![n] = [f[n] EXCEPT !.id = base]]
    BY <1>3, Zenon
  <2>2. DOMAIN f = 1 .. n /\ f[n] = [kind |-> "PFS_R_DATA_LAST", id |-> base + n]
    BY <1>1
  <2>3. \A k \in 1 .. n : k # n => f[k] = [kind |-> "PFS_R_DATA", id |-> base + k]
    BY <1>1
  <2> HIDE DEF f
  <2>4. r[n] = [kind |-> "PFS_R_DATA_LAST", id |-> base]
    BY <1>1, <2>1, <2>2
  <2>5. \A k \in 1 .. n : k # n => r[k] = [kind |-> "PFS_R_DATA", id |-> base + k]
    BY <1>1, <2>1, <2>2, <2>3
  <2>6. r[n] \in L /\ r[n] \in D
    BY <1>1, <2>4 DEF MinorKinds, MovingKinds, LastKinds
  <2>7. \A k \in 1 .. n : k # n => r[k] \in L /\ r[k] \notin D
    <3>1. ASSUME NEW k \in 1 .. n, k # n
          PROVE  r[k] \in L /\ r[k] \notin D
      <4>1. r[k] = [kind |-> "PFS_R_DATA", id |-> base + k] /\ base + k \in base .. base + n
        BY <1>1, <2>5, <3>1
      <4>2. r[k].kind = "PFS_R_DATA" /\ r[k] \in L
        BY <4>1 DEF MinorKinds
      <4>3. r[k] \notin D
        BY <4>2 DEF MovingKinds, LastKinds
      <4>4. QED
        BY <4>2, <4>3
    <3>2. QED
      BY <3>1
  <2>8. QED
    BY <2>6, <2>7
<1>8. /\ w = [k \in 1 .. n |-> w[k]]
      /\ r = [k \in 1 .. n |-> r[k]]
  <2>1. w = [k \in DOMAIN w |-> w[k]]
    BY <1>2
  <2>2. r = [k \in DOMAIN r |-> r[k]]
    BY <1>3
  <2>3. QED
    BY <1>4, <1>6, <2>1, <2>2
<1> HIDE DEF M, L, D
<1>9. w \in Seq(M) /\ r \in Seq(L)
  BY <1>1, <1>5, <1>7, <1>8, SMTT(20)
<1>10. CountIn(w, D) = 1 /\ CountIn(r, D) = 1
  <2>1. CountIn(w, D) = 1
    BY <1>4, <1>5, <1>9, CountLastOnly
  <2>2. CountIn(r, D) = 1
    BY <1>6, <1>7, <1>9, CountLastOnly
  <2>3. QED
    BY <2>1, <2>2
<1>11. QED
  BY <1>9, <1>10, Zenon DEF PacketsOf, w, r, n, base, M, L, D

\* A packet that goes out ends the exchange, or has the other end send what brings the
\* exchange on, or does neither.
LEMMA DeliveredFacts ==
  ASSUME config \in Configurations, NEW exch, exch = [y \in Exchanges |-> exch[y]],
         \A y \in Exchanges : exch[y] \in EndsOf(y),
         NEW x \in Exchanges, NEW pkt \in PacketsOf(x, AllKinds)
  PROVE  LET new == Delivered(exch, pkt)
         IN  /\ new = [y \in Exchanges |-> new[y]]
             /\ \A y \in Exchanges : y # x => new[y] = exch[y]
             /\ new[x] \in EndsOf(x)
             /\ new[x].asked = (exch[x].asked /\ pkt.kind \notin LastKinds)
             /\ Sent(new[x]) <=> Sent(exch[x]) \/ pkt.kind \in RequestKinds
             /\ OnTheWay(new[x], x) =
                  OnTheWay(exch[x], x) + IF pkt.kind \in RequestKinds \cup {"PFS_W_RESP", "PFS_W_DATA_LAST"}
                                         THEN 1 ELSE 0
<1> DEFINE new == Delivered(exch, pkt)
           e == exch[x]
           more == IF pkt.kind = "PFS_W_RESP" THEN WriteData(x) ELSE <<>>
           answer == CASE pkt.kind = "PFS_R_REQ" -> ReadData(x)
                       [] pkt.kind = "PFS_W_REQ" -> <<[kind |-> "PFS_W_RESP", id |-> pkt.id]>>
                       [] pkt.kind = "PFS_W_DATA_LAST" -> <<[kind |-> "PFS_W_FIN", id |-> pkt.id]>>
                       [] OTHER -> <<>>
           M == PacketsOf(x, MinorKinds)
           L == PacketsOf(x, MinorKinds \cup LastKinds)
           D == PacketsOf(x, MovingKinds)
<1>1. /\ ExchangeOf(pkt.id) = x /\ pkt.kind \in AllKinds
      /\ pkt.id \in x * RidOffset .. x * RidOffset + Packets
  BY PacketFacts
<1> DEFINE n == Passed(e, x, pkt)
<1>2. new = [exch EXCEPT ![x] = n]
  <2> DEFINE y == ExchangeOf(pkt.id)
  <2>1. new = [exch EXCEPT ![y] = Passed(exch[y], y, pkt)]
    BY Zenon DEF Delivered
  <2>2. y = x
    BY <1>1
  <2> HIDE DEF y, new
  <2>3. QED
    BY <2>1, <2>2
<1>3. /\ e \in EndsOf(x)
      /\ e = [asked |-> e.asked, round |-> e.round, read |-> e.read, fromClient |-> e.fromClient,
              fromServer |-> e.fromServer, forwarded |-> e.forwarded]
      /\ e.asked \in BOOLEAN /\ e.round \in Nat /\ e.read \in config.reads[x] \cup {FALSE}
      /\ e.fromClient \in Seq(M) /\ e.fromServer \in Seq(L) /\ e.forwarded \in Seq(AllKinds)
  BY DEF EndsOf
<1>4. more \in Seq(M) /\ CountIn(more, D) = IF pkt.kind = "PFS_W_RESP" THEN 1 ELSE 0
  <2>1. CASE pkt.kind = "PFS_W_RESP"
    BY <2>1, DataFacts
  <2>2. CASE pkt.kind # "PFS_W_RESP"
    <3>1. more = <<>> /\ <<>> \in Seq(M)
      BY <2>2
    <3> HIDE DEF more, M, D
    <3>2. CountIn(more, D) = 0
      BY <3>1, CountInNone
    <3>3. QED
      BY <2>2, <3>1, <3>2
  <2>3. QED
    BY <2>1, <2>2
<1>5. /\ answer \in Seq(L)
      /\ CountIn(answer, D) = IF pkt.kind \in RequestKinds \cup {"PFS_W_DATA_LAST"} THEN 1 ELSE 0
  <2>1. CASE pkt.kind = "PFS_R_REQ"
    <3>1. answer = ReadData(x)
      BY <2>1
    <3>2. QED
      BY <2>1, <3>1, DataFacts DEF RequestKinds
  <2>2. ASSUME NEW kind \in {"PFS_W_RESP", "PFS_W_FIN"}, answer = <<[kind |-> kind, id |-> pkt.id]>>
        PROVE  answer \in Seq(L) /\ CountIn(answer, D) = 1
    <3> DEFINE p == [kind |-> kind, id |-> pkt.id]
    <3>1. p \in L /\ p \in D
      BY <1>1 DEF PacketsOf, MinorKinds, LastKinds, MovingKinds
    <3>2. answer = <<p>>
      BY <2>2
    <3> HIDE DEF p, L, D, answer
    <3>3. answer \in Seq(L) /\ DOMAIN answer = {1} /\ answer[1] = p
      BY <3>1, <3>2
    <3>4. CountIn(answer, D) = 1
      BY <3>1, <3>3, CountLastOnly
    <3>5. QED
      BY <3>3, <3>4
  <2>3. CASE pkt.kind = "PFS_W_REQ"
    BY <2>2, <2>3 DEF RequestKinds
  <2>4. CASE pkt.kind = "PFS_W_DATA_LAST"
    BY <2>2, <2>4 DEF RequestKinds
  <2>5. CASE pkt.kind \notin RequestKinds \cup {"PFS_W_DATA_LAST"}
    <3>1. answer = <<>> /\ <<>> \in Seq(L)
      BY <2>5 DEF RequestKinds
    <3> HIDE DEF answer, L, D
    <3>2. CountIn(answer, D) = 0
      BY <3>1, CountInNone
    <3>3. QED
      BY <2>5, <3>1, <3>2
  <2>6. QED
    BY <2>1, <2>3, <2>4, <2>5 DEF RequestKinds
<1>6. new = [y \in Exchanges |-> IF y = x THEN n ELSE exch[y]]
  <2> HIDE DEF n, new
  <2>1. QED
    BY <1>2
<1> DEFINE asked == e.asked /\ pkt.kind \notin {"PFS_W_FIN", "PFS_R_DATA_LAST"}
           client == e.fromClient \o more
           server == e.fromServer \o answer
           forwarded == Append(e.forwarded, pkt.kind)
<1>7. n = [asked |-> asked, round |-> e.round, read |-> e.read, fromClient |-> client,
           fromServer |-> server, forwarded |-> forwarded]
  <2>1. n = [e EXCEPT !.forwarded = forwarded, !.asked = asked, !.fromClient = client,
                      !.fromServer = server]
    BY Zenon DEF Passed
  <2> HIDE DEF n, asked, client, server, forwarded
  <2>2. DOMAIN n = DOMAIN e /\ n = [f \in DOMAIN n |-> n[f]]
    BY <2>1
  <2>3. DOMAIN e = {"asked", "round", "read", "fromClient", "fromServer", "forwarded"}
    BY <1>3
  <2>4. /\ n.asked = asked /\ n.fromClient = client /\ n.fromServer = server
        /\ n.forwarded = forwarded
    BY <1>3, <2>1
  <2>5. n.round = e.round /\ n.read = e.read
    BY <1>3, <2>1
  <2>6. QED
    BY <2>2, <2>3, <2>4, <2>5
<1> HIDE DEF n, more, answer, M, L, D, new, e
<1>8. n \in EndsOf(x)
  <2>1. /\ e.fromClient \o more \in Seq(M) /\ e.fromServer \o answer \in Seq(L)
        /\ Append(e.forwarded, pkt.kind) \in Seq(AllKinds)
        /\ (e.asked /\ pkt.kind \notin {"PFS_W_FIN", "PFS_R_DATA_LAST"}) \in BOOLEAN
    BY <1>1, <1>3, <1>4, <1>5
  <2>2. QED
    BY <1>3, <1>7, <2>1, Zenon DEF EndsOf, M, L
<1>9. Sent(n) <=> Sent(e) \/ pkt.kind \in RequestKinds
  <2>1. ToSet(n.forwarded) = ToSet(e.forwarded) \cup {pkt.kind}
    BY <1>1, <1>3, <1>7, AppendElements
  <2>2. QED
    BY <2>1 DEF Sent
<1>10. OnTheWay(n, x) = OnTheWay(e, x) + IF pkt.kind \in RequestKinds \cup {"PFS_W_RESP", "PFS_W_DATA_LAST"}
                                        THEN 1 ELSE 0
  <2>1. CountIn(e.fromClient \o more, D) = CountIn(e.fromClient, D) + CountIn(more, D)
    BY <1>3, <1>4, CountInConcat
  <2>2. CountIn(e.fromServer \o answer, D) = CountIn(e.fromServer, D) + CountIn(answer, D)
    BY <1>3, <1>5, CountInConcat
  <2>3. CountIn(e.fromClient, D) \in Nat /\ CountIn(e.fromServer, D) \in Nat
    BY <1>3, CountInNat
  <2>4. /\ OnTheWay(n, x) = CountIn(e.fromClient \o more, D) + CountIn(e.fromServer \o answer, D)
        /\ OnTheWay(e, x) = CountIn(e.fromClient, D) + CountIn(e.fromServer, D)
    BY <1>7 DEF OnTheWay, D
  <2>5. pkt.kind = "PFS_W_RESP" => pkt.kind \notin RequestKinds \cup {"PFS_W_DATA_LAST"}
    BY DEF RequestKinds
  <2>6. QED
    BY <1>4, <1>5, <2>1, <2>2, <2>3, <2>4, <2>5
<1>11. n.asked = (e.asked /\ pkt.kind \notin LastKinds)
  BY <1>7 DEF LastKinds
<1>12. new[x] = n
  BY <1>6
<1>13. QED
  BY <1>6, <1>8, <1>9, <1>10, <1>11, <1>12 DEF new, e

-----------------------------------------------------------------------------
(* The books after each thing a handler does.  A handler that does not wait is taken to *)
(* get its packet as one of the self messages at once.                                  *)

\* A self message that is a request counts for its exchange only, and before the server.
LEMMA RequestTimerFacts ==
  ASSUME config \in Configurations, NEW x \in Exchanges, NEW job \in RequestsOf(x),
         NEW t, t = [self |-> "SELF_REQ", packet |-> job]
  PROVE  /\ t \in SelfMessages
         /\ \A y \in Exchanges : t \notin MovingTimers(y) /\ (t \in RequestTimers(y) <=> y = x)
<1>1. job \in Jobs
  BY RequestFacts
<1>2. t \in SelfMessages
  BY <1>1 DEF SelfMessages
<1>3. ASSUME NEW y \in Exchanges
      PROVE  t \notin MovingTimers(y) /\ (t \in RequestTimers(y) <=> y = x)
  <2>1. t.self = "SELF_REQ" /\ t.packet = job
    OBVIOUS
  <2>2. t \notin MovingTimers(y)
    BY <2>1 DEF MovingTimers
  <2>3. t \in RequestTimers(y) <=> job \in RequestsOf(y)
    BY <2>1 DEF RequestTimers
  <2>4. QED
    BY <2>2, <2>3, RequestsApart
<1>4. QED
  BY <1>2, <1>3

\* One that is a later packet counts for its exchange only, and after the server.
LEMMA MovingTimerFacts ==
  ASSUME config \in Configurations, NEW x \in Exchanges, NEW kinds, NEW pkt \in PacketsOf(x, kinds),
         NEW self, NEW t, t = [self |-> self, packet |-> pkt],
         \/ self = "SELF_MINOR" /\ kinds = MinorKinds
         \/ self = "SELF_FIN" /\ kinds = LastKinds
  PROVE  /\ t \in SelfMessages
         /\ \A y \in Exchanges :
              t \notin RequestTimers(y) /\ (t \in MovingTimers(y) <=> y = x /\ pkt.kind \in MovingKinds)
<1>1. t \in SelfMessages
  BY DEF SelfMessages, MinorPackets, LastPackets
<1>2. ASSUME NEW y \in Exchanges
      PROVE  t \notin RequestTimers(y) /\ (t \in MovingTimers(y) <=> y = x /\ pkt.kind \in MovingKinds)
  <2>1. t.self = self /\ t.packet = pkt /\ self # "SELF_REQ"
    OBVIOUS
  <2>2. t \notin RequestTimers(y)
    BY <2>1 DEF RequestTimers
  <2>3. t \in MovingTimers(y) <=> pkt \in PacketsOf(y, MovingKinds)
    BY <2>1 DEF MovingTimers
  <2>4. QED
    BY <2>2, <2>3, PacketFacts
<1>3. QED
  BY <1>1, <1>2

\* What a self message may be.
LEMMA SelfMessageFacts ==
  ASSUME config \in Configurations, NEW t \in SelfMessages
  PROVE  /\ t = [self |-> t.self, packet |-> t.packet]
         /\ t.self = "SELF_REQ" => t.packet \in Jobs
         /\ t.self = "SELF_MINOR" => \E x \in Exchanges : t.packet \in PacketsOf(x, MinorKinds)
         /\ t.self = "SELF_FIN" => \E x \in Exchanges : t.packet \in PacketsOf(x, LastKinds)
  BY DEF SelfMessages, MinorPackets, LastPackets

\* The parts of the books.
LEMMA BooksFacts ==
  ASSUME NEW tm, NEW q, NEW exch, NEW n, Books(tm, q, exch, n), NEW x \in Exchanges
  PROVE  /\ tm \in Seq(SelfMessages) /\ q.waitQ \in Seq(Jobs) /\ q.osQ \in Seq(Jobs)
         /\ q = [waitQ |-> q.waitQ, osQ |-> q.osQ]
         /\ exch = [y \in Exchanges |-> exch[y]] /\ exch[x] \in EndsOf(x)
         /\ Balanced(tm, q, exch, x)
         /\ CountIn(tm, RequestTimers(x)) \in Nat /\ CountIn(tm, MovingTimers(x)) \in Nat
         /\ CountIn(q.waitQ, RequestsOf(x)) \in Nat /\ CountIn(q.osQ, RequestsOf(x)) \in Nat
         /\ OnTheWay(exch[x], x) \in Nat
<1>1. /\ tm \in Seq(SelfMessages) /\ q.waitQ \in Seq(Jobs) /\ q.osQ \in Seq(Jobs)
      /\ q = [waitQ |-> q.waitQ, osQ |-> q.osQ]
      /\ exch = [y \in Exchanges |-> exch[y]] /\ exch[x] \in EndsOf(x)
      /\ Balanced(tm, q, exch, x)
  BY DEF Books
<1>2. /\ CountIn(tm, RequestTimers(x)) \in Nat /\ CountIn(tm, MovingTimers(x)) \in Nat
      /\ CountIn(q.waitQ, RequestsOf(x)) \in Nat /\ CountIn(q.osQ, RequestsOf(x)) \in Nat
  BY <1>1, CountInNat
<1>3. OnTheWay(exch[x], x) \in Nat
  <2>1. /\ exch[x].fromClient \in Seq(PacketsOf(x, MinorKinds))
        /\ exch[x].fromServer \in Seq(PacketsOf(x, MinorKinds \cup LastKinds))
    BY <1>1 DEF EndsOf
  <2>2. /\ CountIn(exch[x].fromClient, PacketsOf(x, MovingKinds)) \in Nat
        /\ CountIn(exch[x].fromServer, PacketsOf(x, MovingKinds)) \in Nat
    BY <2>1, CountInNat
  <2>3. QED
    BY <2>2 DEF OnTheWay
<1>4. QED
  BY <1>1, <1>2, <1>3

\* Nothing is left of an exchange that is over; of one that is not, one thing is.
LEMMA BooksNumbers ==
  ASSUME NEW tm, NEW q, NEW exch, NEW n, Books(tm, q, exch, n), NEW x \in Exchanges
  PROVE  LET rt == CountIn(tm, RequestTimers(x))
             mt == CountIn(tm, MovingTimers(x))
             w  == CountIn(q.waitQ, RequestsOf(x))
             o  == CountIn(q.osQ, RequestsOf(x))
             e  == OnTheWay(exch[x], x)
         IN  /\ rt \in Nat /\ mt \in Nat /\ w \in Nat /\ o \in Nat /\ e \in Nat
             /\ ~exch[x].asked => rt = 0 /\ mt = 0 /\ w = 0 /\ o = 0 /\ e = 0
             /\ exch[x].asked => rt + w + mt + e = 1 /\ o = mt + e /\ (Sent(exch[x]) <=> o = 1)
             /\ Before(tm, q, x) = rt + w /\ After(tm, exch, x) = mt + e
<1> DEFINE rt == CountIn(tm, RequestTimers(x))
           mt == CountIn(tm, MovingTimers(x))
           w  == CountIn(q.waitQ, RequestsOf(x))
           o  == CountIn(q.osQ, RequestsOf(x))
           e  == OnTheWay(exch[x], x)
<1>1. rt \in Nat /\ mt \in Nat /\ w \in Nat /\ o \in Nat /\ e \in Nat
  BY BooksFacts
<1>2. Balanced(tm, q, exch, x)
  BY BooksFacts
<1>3. Before(tm, q, x) = rt + w /\ After(tm, exch, x) = mt + e
  BY Zenon DEF Before, After
<1>4. /\ Before(tm, q, x) + After(tm, exch, x) = IF exch[x].asked THEN 1 ELSE 0
      /\ o = After(tm, exch, x)
      /\ exch[x].asked => (Sent(exch[x]) <=> After(tm, exch, x) = 1)
  BY <1>2 DEF Balanced
<1> HIDE DEF rt, mt, w, o, e
<1>5. ~exch[x].asked => rt = 0 /\ mt = 0 /\ w = 0 /\ o = 0 /\ e = 0
  BY <1>1, <1>3, <1>4
<1>6. exch[x].asked => rt + w + mt + e = 1 /\ o = mt + e /\ (Sent(exch[x]) <=> o = 1)
  BY <1>1, <1>3, <1>4
<1>7. QED
  BY <1>1, <1>3, <1>5, <1>6 DEF rt, mt, w, o, e

\* A client asks for an exchange that is over: its request is what brings it on.
LEMMA AskedBooks ==
  ASSUME config \in Configurations, NEW tm, NEW q, NEW exch, NEW n, Books(tm, q, exch, n),
         NEW x \in Exchanges, ~exch[x].asked, NEW job \in RequestsOf(x),
         NEW read \in config.reads[x], NEW round \in Nat,
         NEW new, new = [exch EXCEPT ![x] = [Idle EXCEPT !.asked = TRUE, !.read = read, !.round = round]]
  PROVE  Books(Append(tm, [self |-> "SELF_REQ", packet |-> job]), q, new, n)
<1> DEFINE t == [self |-> "SELF_REQ", packet |-> job]
           tms == Append(tm, t)
           e == [asked |-> TRUE, round |-> round, read |-> read,
                 fromClient |-> <<>>, fromServer |-> <<>>, forwarded |-> <<>>]
<1>1. t \in SelfMessages
      /\ \A y \in Exchanges : t \notin MovingTimers(y) /\ (t \in RequestTimers(y) <=> y = x)
  BY RequestTimerFacts
<1>2. /\ tm \in Seq(SelfMessages) /\ exch = [y \in Exchanges |-> exch[y]]
  BY BooksFacts
<1>3. e \in EndsOf(x) /\ OnTheWay(e, x) = 0 /\ ~Sent(e) /\ e.asked
  <2>1. e \in EndsOf(x)
    <3>1. \A S : <<>> \in Seq(S)
      OBVIOUS
    <3>2. read \in config.reads[x] \cup {FALSE} /\ TRUE \in BOOLEAN
      OBVIOUS
    <3>3. QED
      BY <3>1, <3>2, Zenon DEF EndsOf
  <2>2. OnTheWay(e, x) = 0
    BY CountInNone DEF OnTheWay
  <2>3. ToSet(e.forwarded) = {}
    BY DEF ToSet
  <2>4. QED
    BY <2>1, <2>2, <2>3 DEF Sent
<1>4. new = [y \in Exchanges |-> IF y = x THEN e ELSE exch[y]]
  <2>1. [Idle EXCEPT !.asked = TRUE, !.read = read, !.round = round] = e
    <3> DEFINE z == [Idle EXCEPT !.asked = TRUE, !.read = read, !.round = round]
    <3>1. DOMAIN Idle = {"asked", "round", "read", "fromClient", "fromServer", "forwarded"}
      BY DEF Idle
    <3>2. /\ Idle.fromClient = <<>> /\ Idle.fromServer = <<>> /\ Idle.forwarded = <<>>
      BY DEF Idle
    <3>3. DOMAIN z = DOMAIN Idle /\ z = [f \in DOMAIN z |-> z[f]]
      OBVIOUS
    <3>4. z.asked = TRUE /\ z.read = read /\ z.round = round
      BY <3>1
    <3>5. z.fromClient = <<>> /\ z.fromServer = <<>> /\ z.forwarded = <<>>
      BY <3>1, <3>2
    <3> HIDE DEF z
    <3>6. z = e
      BY <3>1, <3>3, <3>4, <3>5
    <3>7. QED
      BY <3>6 DEF z
  <2> HIDE DEF e
  <2>2. QED
    BY <1>2, <2>1
<1> HIDE DEF t, e
<1>5. tms \in Seq(SelfMessages)
  BY <1>1, <1>2
<1>6. \A y \in Exchanges : /\ CountIn(tms, RequestTimers(y)) =
                                CountIn(tm, RequestTimers(y)) + IF y = x THEN 1 ELSE 0
                           /\ CountIn(tms, MovingTimers(y)) = CountIn(tm, MovingTimers(y))
  <2> SUFFICES ASSUME NEW y \in Exchanges
               PROVE  /\ CountIn(tms, RequestTimers(y)) =
                            CountIn(tm, RequestTimers(y)) + IF y = x THEN 1 ELSE 0
                      /\ CountIn(tms, MovingTimers(y)) = CountIn(tm, MovingTimers(y))
    OBVIOUS
  <2>1. CountIn(tms, RequestTimers(y)) =
          CountIn(tm, RequestTimers(y)) + IF t \in RequestTimers(y) THEN 1 ELSE 0
    BY <1>1, <1>2, CountInAppended
  <2>2. CountIn(tms, MovingTimers(y)) =
          CountIn(tm, MovingTimers(y)) + IF t \in MovingTimers(y) THEN 1 ELSE 0
    BY <1>1, <1>2, CountInAppended
  <2>3. CountIn(tm, MovingTimers(y)) \in Nat
    BY BooksFacts
  <2>4. QED
    BY <1>1, <2>1, <2>2, <2>3
<1> HIDE DEF tms
<1>7. ASSUME NEW y \in Exchanges
      PROVE  new[y] \in EndsOf(y) /\ Balanced(tms, q, new, y)
  <2>1. /\ Balanced(tm, q, exch, y) /\ exch[y] \in EndsOf(y)
        /\ CountIn(tm, RequestTimers(y)) \in Nat /\ CountIn(tm, MovingTimers(y)) \in Nat
        /\ CountIn(q.waitQ, RequestsOf(y)) \in Nat /\ CountIn(q.osQ, RequestsOf(y)) \in Nat
        /\ OnTheWay(exch[y], y) \in Nat
    BY BooksFacts
  <2>2. CASE y # x
    <3>1. new[y] = exch[y]
      BY <1>4, <2>2
    <3>2. QED
      BY <1>6, <2>1, <2>2, <3>1 DEF Balanced, Before, After
  <2>3. CASE y = x
    <3>1. new[y] = e
      BY <1>4, <2>3
    <3>2. Before(tm, q, y) = 0 /\ CountIn(tm, MovingTimers(y)) = 0 /\ CountIn(q.osQ, RequestsOf(y)) = 0
      BY <2>3, BooksNumbers
    <3>3. Before(tms, q, y) = 1 /\ After(tms, new, y) = 0
      BY <1>3, <1>6, <2>1, <2>3, <3>1, <3>2 DEF Before, After
    <3>4. QED
      BY <1>3, <2>3, <3>1, <3>2, <3>3 DEF Balanced
  <2>4. QED
    BY <2>2, <2>3
<1>8. Books(tms, q, new, n)
  <2>1. new = [y \in Exchanges |-> new[y]]
    BY <1>4
  <2>2. QED
    BY <1>5, <1>7, <2>1 DEF Books
<1>9. QED
  BY <1>8 DEF tms, t

\* A packet of one of the ends gets to the proxy.
LEMMA TakenBooks ==
  ASSUME config \in Configurations, NEW tm, NEW q, NEW exch, NEW n, Books(tm, q, exch, n),
         NEW x \in Exchanges, NEW kinds, NEW pkt \in PacketsOf(x, kinds), NEW self,
         \/ self = "SELF_MINOR" /\ kinds = MinorKinds
         \/ self = "SELF_FIN" /\ kinds = LastKinds,
         NEW ends \in EndsOf(x), ends.asked = exch[x].asked, Sent(ends) <=> Sent(exch[x]),
         OnTheWay(exch[x], x) = OnTheWay(ends, x) + IF pkt.kind \in MovingKinds THEN 1 ELSE 0,
         OnTheWay(ends, x) \in Nat,
         NEW new, new = [exch EXCEPT ![x] = ends]
  PROVE  Books(Append(tm, [self |-> self, packet |-> pkt]), q, new, n)
<1> DEFINE t == [self |-> self, packet |-> pkt]
           tms == Append(tm, t)
<1>1. /\ t \in SelfMessages
      /\ \A y \in Exchanges :
           t \notin RequestTimers(y) /\ (t \in MovingTimers(y) <=> y = x /\ pkt.kind \in MovingKinds)
  BY MovingTimerFacts
<1>2. tm \in Seq(SelfMessages) /\ exch = [y \in Exchanges |-> exch[y]]
  BY BooksFacts
<1>3. new = [y \in Exchanges |-> IF y = x THEN ends ELSE exch[y]]
  BY <1>2
<1> HIDE DEF t
<1>4. tms \in Seq(SelfMessages)
  BY <1>1, <1>2
<1>5. ASSUME NEW y \in Exchanges
      PROVE  new[y] \in EndsOf(y) /\ Balanced(tms, q, new, y)
  <2> DEFINE rt == CountIn(tm, RequestTimers(y))
             mt == CountIn(tm, MovingTimers(y))
             w  == CountIn(q.waitQ, RequestsOf(y))
             o  == CountIn(q.osQ, RequestsOf(y))
             e  == OnTheWay(exch[y], y)
             one == IF y = x /\ pkt.kind \in MovingKinds THEN 1 ELSE 0
  <2>1. CountIn(tms, RequestTimers(y)) = rt
    <3>1. CountIn(tms, RequestTimers(y)) = rt + 0
      BY <1>1, <1>2, CountInAppended
    <3>2. QED
      BY <3>1, BooksNumbers
  <2>2. CountIn(tms, MovingTimers(y)) = mt + one
    BY <1>1, <1>2, CountInAppended
  <2>3. OnTheWay(new[y], y) + one = e /\ OnTheWay(new[y], y) \in Nat
    <3>1. CASE y = x
      BY <1>3, <3>1
    <3>2. CASE y # x
      <4>1. new[y] = exch[y] /\ one = 0 /\ e \in Nat
        BY <1>3, <3>2, BooksNumbers
      <4>2. QED
        BY <4>1
    <3>3. QED
      BY <3>1, <3>2
  <2>4. /\ new[y] \in EndsOf(y) /\ new[y].asked = exch[y].asked
        /\ Sent(new[y]) <=> Sent(exch[y])
    <3>1. CASE y = x
      BY <1>3, <3>1
    <3>2. CASE y # x
      BY <1>3, <3>2, BooksFacts
    <3>3. QED
      BY <3>1, <3>2
  <2>5. Balanced(tm, q, exch, y) /\ mt \in Nat /\ e \in Nat
    BY BooksFacts
  <2>6. Before(tms, q, y) = Before(tm, q, y)
    BY <2>1 DEF Before
  <2>7. After(tms, new, y) = After(tm, exch, y)
    <3>1. /\ After(tms, new, y) = CountIn(tms, MovingTimers(y)) + OnTheWay(new[y], y)
          /\ After(tm, exch, y) = mt + e
      BY Zenon DEF After
    <3>2. one \in Nat
      OBVIOUS
    <3> HIDE DEF mt, e, one
    <3>3. QED
      BY <2>2, <2>3, <2>5, <3>1, <3>2
  <2>8. QED
    BY <2>4, <2>5, <2>6, <2>7 DEF Balanced
<1>6. new = [y \in Exchanges |-> new[y]]
  BY <1>3
<1>7. Books(tms, q, new, n)
  BY <1>4, <1>5, <1>6 DEF Books
<1>8. QED
  BY <1>7 DEF t

\* The first packet of a client goes to the proxy.
LEMMA FromClientBooks ==
  ASSUME config \in Configurations, NEW tm, NEW q, NEW exch, NEW n, Books(tm, q, exch, n),
         NEW x \in Exchanges, exch[x].fromClient # <<>>
  PROVE  /\ Books(Append(tm, [self |-> "SELF_MINOR", packet |-> Head(exch[x].fromClient)]), q,
                  [exch EXCEPT ![x].fromClient = Tail(@)], n)
         /\ Head(exch[x].fromClient) \in PacketsOf(x, MinorKinds)
<1> DEFINE e == exch[x]
           s == e.fromClient
           pkt == Head(s)
           ends == [e EXCEPT !.fromClient = Tail(s)]
           D == PacketsOf(x, MovingKinds)
<1>1. /\ e \in EndsOf(x) /\ e.fromClient \in Seq(PacketsOf(x, MinorKinds))
      /\ e.fromServer \in Seq(PacketsOf(x, MinorKinds \cup LastKinds)) /\ s # <<>>
  BY BooksFacts DEF EndsOf
<1>2. pkt \in PacketsOf(x, MinorKinds) /\ Tail(s) \in Seq(PacketsOf(x, MinorKinds))
  BY <1>1, HeadTailElements
<1>3. CountIn(s, D) = CountIn(Tail(s), D) + IF pkt \in D THEN 1 ELSE 0
  BY <1>1, CountInTail
<1>4. pkt \in D <=> pkt.kind \in MovingKinds
  BY <1>2, PacketFacts
<1>5. CountIn(Tail(s), D) \in Nat /\ CountIn(e.fromServer, D) \in Nat
  <2> DEFINE u == Tail(s)
             v == e.fromServer
             U == PacketsOf(x, MinorKinds)
             V == PacketsOf(x, MinorKinds \cup LastKinds)
  <2>1. (u \in Seq(U) \/ u \in Seq(V)) /\ (v \in Seq(U) \/ v \in Seq(V))
    BY <1>1, <1>2
  <2> HIDE DEF u, v, D, U, V
  <2>2. CountIn(u, D) \in Nat /\ CountIn(v, D) \in Nat
    BY <2>1, CountInNat
  <2>3. QED
    BY <2>2 DEF u, v
<1>6. [exch EXCEPT ![x].fromClient = Tail(@)] = [exch EXCEPT ![x] = ends]
  BY Zenon
<1> HIDE DEF e, s, pkt, D
<1>7. /\ ends \in EndsOf(x) /\ ends.asked = e.asked /\ ends.forwarded = e.forwarded
      /\ ends.fromClient = Tail(s) /\ ends.fromServer = e.fromServer
  BY <1>1, <1>2 DEF EndsOf
<1> HIDE DEF ends
<1>8. /\ OnTheWay(ends, x) = CountIn(Tail(s), D) + CountIn(e.fromServer, D)
      /\ OnTheWay(e, x) = CountIn(s, D) + CountIn(e.fromServer, D)
  BY <1>7 DEF OnTheWay, D, s
<1>9. /\ OnTheWay(e, x) = OnTheWay(ends, x) + IF pkt.kind \in MovingKinds THEN 1 ELSE 0
      /\ OnTheWay(ends, x) \in Nat
  BY <1>3, <1>4, <1>5, <1>8
<1>10. Sent(ends) <=> Sent(e)
  BY <1>7 DEF Sent
<1>11. Books(Append(tm, [self |-> "SELF_MINOR", packet |-> pkt]), q, [exch EXCEPT ![x] = ends], n)
  BY <1>2, <1>7, <1>9, <1>10, TakenBooks DEF e
<1>12. QED
  BY <1>2, <1>6, <1>11, Zenon DEF pkt, s, e

\* The first packet of a server goes to the proxy.
LEMMA FromServerBooks ==
  ASSUME config \in Configurations, NEW tm, NEW q, NEW exch, NEW n, Books(tm, q, exch, n),
         NEW x \in Exchanges, exch[x].fromServer # <<>>,
         NEW self, self = IF Head(exch[x].fromServer).kind \in LastKinds THEN "SELF_FIN" ELSE "SELF_MINOR"
  PROVE  /\ Books(Append(tm, [self |-> self, packet |-> Head(exch[x].fromServer)]), q,
                  [exch EXCEPT ![x].fromServer = Tail(@)], n)
         /\ Head(exch[x].fromServer) \in PacketsOf(x, MinorKinds \cup LastKinds)
<1> DEFINE e == exch[x]
           s == e.fromServer
           pkt == Head(s)
           ends == [e EXCEPT !.fromServer = Tail(s)]
           D == PacketsOf(x, MovingKinds)
           kinds == IF pkt.kind \in LastKinds THEN LastKinds ELSE MinorKinds
<1>1. /\ e \in EndsOf(x) /\ e.fromClient \in Seq(PacketsOf(x, MinorKinds))
      /\ e.fromServer \in Seq(PacketsOf(x, MinorKinds \cup LastKinds)) /\ s # <<>>
  BY BooksFacts DEF EndsOf
<1>2. /\ pkt \in PacketsOf(x, MinorKinds \cup LastKinds)
      /\ Tail(s) \in Seq(PacketsOf(x, MinorKinds \cup LastKinds))
  BY <1>1, HeadTailElements
<1>3. CountIn(s, D) = CountIn(Tail(s), D) + IF pkt \in D THEN 1 ELSE 0
  BY <1>1, CountInTail
<1>4. (pkt \in D <=> pkt.kind \in MovingKinds) /\ pkt \in PacketsOf(x, kinds)
  BY <1>2, PacketFacts
<1>5. CountIn(Tail(s), D) \in Nat /\ CountIn(e.fromClient, D) \in Nat
  <2> DEFINE u == Tail(s)
             v == e.fromClient
             U == PacketsOf(x, MinorKinds)
             V == PacketsOf(x, MinorKinds \cup LastKinds)
  <2>1. (u \in Seq(U) \/ u \in Seq(V)) /\ (v \in Seq(U) \/ v \in Seq(V))
    BY <1>1, <1>2
  <2> HIDE DEF u, v, D, U, V
  <2>2. CountIn(u, D) \in Nat /\ CountIn(v, D) \in Nat
    BY <2>1, CountInNat
  <2>3. QED
    BY <2>2 DEF u, v
<1>6. [exch EXCEPT ![x].fromServer = Tail(@)] = [exch EXCEPT ![x] = ends]
  BY Zenon
<1>7. \/ self = "SELF_MINOR" /\ kinds = MinorKinds
      \/ self = "SELF_FIN" /\ kinds = LastKinds
  OBVIOUS
<1> HIDE DEF e, s, pkt, D, kinds
<1>8. /\ ends \in EndsOf(x) /\ ends.asked = e.asked /\ ends.forwarded = e.forwarded
      /\ ends.fromServer = Tail(s) /\ ends.fromClient = e.fromClient
  BY <1>1, <1>2 DEF EndsOf
<1> HIDE DEF ends
<1>9. /\ OnTheWay(ends, x) = CountIn(e.fromClient, D) + CountIn(Tail(s), D)
      /\ OnTheWay(e, x) = CountIn(e.fromClient, D) + CountIn(s, D)
  BY <1>8 DEF OnTheWay, D, s
<1>10. /\ OnTheWay(e, x) = OnTheWay(ends, x) + IF pkt.kind \in MovingKinds THEN 1 ELSE 0
       /\ OnTheWay(ends, x) \in Nat
  BY <1>3, <1>4, <1>5, <1>9
<1>11. Sent(ends) <=> Sent(e)
  BY <1>8 DEF Sent
<1>12. Books(Append(tm, [self |-> self, packet |-> pkt]), q, [exch EXCEPT ![x] = ends], n)
  BY <1>4, <1>7, <1>8, <1>10, <1>11, TakenBooks DEF e
<1>13. QED
  BY <1>2, <1>6, <1>12, Zenon DEF pkt, s, e

\* A request joins those that wait; none of them has its identifier.
LEMMA JoinedBooks ==
  ASSUME config \in Configurations, NEW tm, NEW q, NEW exch, NEW n, Books(tm, q, exch, n),
         NEW k \in DOMAIN tm, tm[k].self = "SELF_REQ",
         NEW waitQ \in Seq(Jobs), NEW place \in 1 .. Len(q.waitQ) + 1,
         Inserted(q.waitQ, waitQ, place, tm[k].packet)
  PROVE  /\ Books(RemoveAt(tm, k), [waitQ |-> waitQ, osQ |-> q.osQ], exch, n)
         /\ \A i \in DOMAIN q.waitQ : q.waitQ[i].id # tm[k].packet.id
<1> DEFINE t == tm[k]
           job == t.packet
           x == ExchangeOf(job.id)
           tms == RemoveAt(tm, k)
           new == [waitQ |-> waitQ, osQ |-> q.osQ]
<1>1. tm \in Seq(SelfMessages) /\ t \in SelfMessages
  BY DEF Books
<1>2. t = [self |-> "SELF_REQ", packet |-> job] /\ job \in Jobs
  BY <1>1, SelfMessageFacts
<1>3. x \in Exchanges /\ job \in RequestsOf(x) /\ job.id = x * RidOffset
  BY <1>2, JobFacts
<1>4. \A y \in Exchanges : t \notin MovingTimers(y) /\ (t \in RequestTimers(y) <=> y = x)
  <2> HIDE DEF t, job, x
  <2>1. QED
    BY <1>2, <1>3, RequestTimerFacts
<1>5. tms \in Seq(SelfMessages)
  BY <1>1, RemoveAtElements
<1>6. /\ q.waitQ \in Seq(Jobs) /\ q.osQ \in Seq(Jobs) /\ exch = [y \in Exchanges |-> exch[y]]
  BY DEF Books
<1> HIDE DEF x, tms
<1>7. ASSUME NEW y \in Exchanges
      PROVE  exch[y] \in EndsOf(y) /\ Balanced(tms, new, exch, y)
  <2> DEFINE rt == CountIn(tm, RequestTimers(y))
             mt == CountIn(tm, MovingTimers(y))
             w  == CountIn(q.waitQ, RequestsOf(y))
             one == IF y = x THEN 1 ELSE 0
  <2>1. rt = CountIn(tms, RequestTimers(y)) + one
    BY <1>1, <1>4, CountInRemoved DEF tms
  <2>2. mt = CountIn(tms, MovingTimers(y)) + 0
    BY <1>1, <1>4, CountInRemoved DEF tms
  <2>3. CountIn(waitQ, RequestsOf(y)) = w + one
    <3>1. job \in RequestsOf(y) <=> y = x
      BY <1>3, RequestsApart
    <3>2. CountIn(waitQ, RequestsOf(y)) = w + IF job \in RequestsOf(y) THEN 1 ELSE 0
      BY <1>6, CountInInserted
    <3>3. QED
      BY <3>1, <3>2
  <2>4. Balanced(tm, q, exch, y) /\ exch[y] \in EndsOf(y)
    BY BooksFacts
  <2>5. /\ CountIn(tms, RequestTimers(y)) \in Nat /\ CountIn(tms, MovingTimers(y)) \in Nat
        /\ w \in Nat /\ one \in Nat
    BY <1>5, <1>6, CountInNat
  <2>6. new.waitQ = waitQ /\ new.osQ = q.osQ
    OBVIOUS
  <2> HIDE DEF rt, mt, w, one, new
  <2>7. Before(tms, new, y) = Before(tm, q, y)
    <3>1. /\ Before(tms, new, y) = CountIn(tms, RequestTimers(y)) + CountIn(waitQ, RequestsOf(y))
          /\ Before(tm, q, y) = rt + w
      BY <2>6, Zenon DEF Before, rt, w
    <3>2. QED
      BY <2>1, <2>3, <2>5, <3>1
  <2>8. After(tms, exch, y) = After(tm, exch, y)
    <3>1. mt = CountIn(tms, MovingTimers(y))
      BY <2>2, <2>5
    <3>2. QED
      BY <3>1, Zenon DEF After, mt
  <2>9. QED
    BY <2>4, <2>6, <2>7, <2>8 DEF Balanced
<1>8. Books(tms, new, exch, n)
  <2>1. /\ n = Len(q.osQ) /\ (Par.degree >= 0 => Len(q.osQ) <= Par.degree)
    BY DEF Books
  <2>2. new \in [waitQ : Seq(Jobs), osQ : Seq(Jobs)] /\ new.osQ = q.osQ
    BY <1>6
  <2> HIDE DEF new
  <2>3. QED
    BY <1>5, <1>6, <1>7, <2>1, <2>2 DEF Books
<1>9. ASSUME NEW i \in DOMAIN q.waitQ, q.waitQ[i].id = job.id
      PROVE  FALSE
  <2>1. q.waitQ[i] \in RequestsOf(x)
    <3>1. q.waitQ[i] \in Jobs
      BY <1>6
    <3>2. QED
      BY <1>9, <3>1, JobFacts DEF x
  <2>2. CountIn(q.waitQ, RequestsOf(x)) # 0
    BY <1>6, <2>1, CountInNat
  <2>3. CountIn(tm, RequestTimers(x)) # 0
    <3>1. tm[k] \in RequestTimers(x)
      BY <1>3, <1>4
    <3>2. QED
      BY <1>1, <3>1, CountInNat
  <2>4. QED
    BY <1>3, <2>2, <2>3, BooksNumbers
<1>10. QED
  BY <1>8, <1>9 DEF tms

\* A packet of an exchange passes the proxy: it brings the exchange on as before.
LEMMA MinorBooks ==
  ASSUME config \in Configurations, NEW tm, NEW q, NEW exch, NEW n, Books(tm, q, exch, n),
         NEW k \in DOMAIN tm, tm[k].self = "SELF_MINOR"
  PROVE  Books(RemoveAt(tm, k), q, Delivered(exch, tm[k].packet), n)
<1> DEFINE t == tm[k]
           pkt == t.packet
           tms == RemoveAt(tm, k)
           new == Delivered(exch, pkt)
<1>1. tm \in Seq(SelfMessages) /\ t \in SelfMessages
  BY DEF Books
<1>2. PICK x \in Exchanges : pkt \in PacketsOf(x, MinorKinds)
  BY <1>1, SelfMessageFacts
<1>3. t = [self |-> "SELF_MINOR", packet |-> pkt]
  BY <1>1, SelfMessageFacts
<1>4. pkt.kind \in MinorKinds /\ pkt \in PacketsOf(x, AllKinds)
  BY <1>2, PacketFacts DEF AllKinds
<1>5. /\ pkt.kind \notin LastKinds /\ pkt.kind \notin RequestKinds
      /\ pkt.kind \in MovingKinds <=> pkt.kind \in RequestKinds \cup {"PFS_W_RESP", "PFS_W_DATA_LAST"}
  BY <1>4 DEF MinorKinds, LastKinds, RequestKinds, MovingKinds
<1> HIDE DEF t, pkt
<1>6. \A y \in Exchanges : /\ t \notin RequestTimers(y)
                           /\ (t \in MovingTimers(y) <=> y = x /\ pkt.kind \in MovingKinds)
  BY <1>2, <1>3, MovingTimerFacts
<1>7. exch = [y \in Exchanges |-> exch[y]] /\ \A y \in Exchanges : exch[y] \in EndsOf(y)
  BY DEF Books
<1>8. /\ new = [y \in Exchanges |-> new[y]]
      /\ \A y \in Exchanges : y # x => new[y] = exch[y]
      /\ new[x] \in EndsOf(x)
      /\ new[x].asked = (exch[x].asked /\ pkt.kind \notin LastKinds)
      /\ Sent(new[x]) <=> Sent(exch[x]) \/ pkt.kind \in RequestKinds
      /\ OnTheWay(new[x], x) = OnTheWay(exch[x], x) + IF pkt.kind \in MovingKinds THEN 1 ELSE 0
  BY <1>4, <1>5, <1>7, DeliveredFacts
<1>9. tms \in Seq(SelfMessages)
  BY <1>1, RemoveAtElements
<1> HIDE DEF new, tms
<1>10. ASSUME NEW y \in Exchanges
       PROVE  new[y] \in EndsOf(y) /\ Balanced(tms, q, new, y)
  <2> DEFINE rt == CountIn(tm, RequestTimers(y))
             mt == CountIn(tm, MovingTimers(y))
             e  == OnTheWay(exch[y], y)
             one == IF y = x /\ pkt.kind \in MovingKinds THEN 1 ELSE 0
  <2>1. rt = CountIn(tms, RequestTimers(y)) + 0
    BY <1>1, <1>6, CountInRemoved DEF tms, t
  <2>2. mt = CountIn(tms, MovingTimers(y)) + one
    BY <1>1, <1>6, CountInRemoved DEF tms, t
  <2>3. CountIn(tms, RequestTimers(y)) \in Nat /\ CountIn(tms, MovingTimers(y)) \in Nat /\ e \in Nat
    BY <1>9, CountInNat, BooksNumbers
  <2>4. OnTheWay(new[y], y) = e + one
    <3>1. CASE y = x
      BY <1>8, <3>1
    <3>2. CASE y # x
      <4>1. new[y] = exch[y] /\ one = 0
        BY <1>8, <3>2
      <4>2. QED
        BY <2>3, <4>1
    <3>3. QED
      BY <3>1, <3>2
  <2>5. /\ new[y] \in EndsOf(y) /\ new[y].asked = exch[y].asked
        /\ Sent(new[y]) <=> Sent(exch[y])
    <3>1. CASE y = x
      <4>1. exch[x].asked \in BOOLEAN
        BY <1>7 DEF EndsOf
      <4>2. QED
        BY <1>5, <1>8, <3>1, <4>1
    <3>2. CASE y # x
      BY <1>7, <1>8, <3>2
    <3>3. QED
      BY <3>1, <3>2
  <2>6. Balanced(tm, q, exch, y)
    BY BooksFacts
  <2>7. one \in Nat
    OBVIOUS
  <2> HIDE DEF rt, mt, e, one
  <2>8. Before(tms, q, y) = Before(tm, q, y)
    <3>1. rt = CountIn(tms, RequestTimers(y))
      BY <2>1, <2>3
    <3>2. QED
      BY <3>1, Zenon DEF Before, rt
  <2>9. After(tms, new, y) = After(tm, exch, y)
    <3>1. /\ After(tms, new, y) = CountIn(tms, MovingTimers(y)) + OnTheWay(new[y], y)
          /\ After(tm, exch, y) = mt + e
      BY Zenon DEF After, mt, e
    <3>2. QED
      BY <2>2, <2>3, <2>4, <2>7, <3>1
  <2>10. QED
    BY <2>5, <2>6, <2>8, <2>9 DEF Balanced
<1>11. Books(tms, q, new, n)
  BY <1>8, <1>9, <1>10 DEF Books
<1>12. QED
  BY <1>11 DEF tms, new, pkt, t

\* popOsQ finds the job if there is one, and leaves the other list alone.
LEMMA PoppedFacts ==
  ASSUME NEW S, NEW q, q.osQ \in Seq(S), q = [waitQ |-> q.waitQ, osQ |-> q.osQ], NEW id,
         \E i \in DOMAIN q.osQ : q.osQ[i].id = id
  PROVE  \E p \in DOMAIN q.osQ :
           /\ q.osQ[p].id = id
           /\ EDF!Popped(q, id) = [waitQ |-> q.waitQ, osQ |-> RemoveAt(q.osQ, p)]
<1> DEFINE o == q.osQ
           I == {i \in 1 .. Len(o) : o[i].id = id}
           p == EDF!Position(q, id)
<1>1. p = IF I # {} THEN Min(I) ELSE 0
  BY Zenon DEF EDF!Position, EDF!SelectInSeq, EDF!Min, Min
<1>2. Len(o) \in Nat /\ DOMAIN o = 1 .. Len(o) /\ I \in SUBSET (1 .. Len(o)) /\ I # {}
  OBVIOUS
<1> HIDE DEF I, p
<1>3. p \in I
  BY <1>1, <1>2, FirstOfKind
<1>4. p \in DOMAIN o /\ o[p].id = id /\ p # 0
  BY <1>2, <1>3 DEF I
<1>5. EDF!Popped(q, id) = [q EXCEPT !.osQ = RemoveAt(@, p)]
  <2>1. EDF!IsOutstanding(q, id)
    BY <1>4 DEF EDF!IsOutstanding, p
  <2>2. QED
    BY <2>1, Zenon DEF EDF!Popped, EDF!RemoveAt, RemoveAt, p
<1>6. [q EXCEPT !.osQ = RemoveAt(@, p)] = [waitQ |-> q.waitQ, osQ |-> RemoveAt(o, p)]
  BY SMT
<1>7. QED
  BY <1>4, <1>5, <1>6

\* The last packet of an exchange finds its request at the server and takes it off.
LEMMA FinBooks ==
  ASSUME config \in Configurations, NEW tm, NEW q, NEW exch, NEW n, Books(tm, q, exch, n),
         NEW k \in DOMAIN tm, tm[k].self = "SELF_FIN",
         NEW id, id = ExchangeOf(tm[k].packet.id) * RidOffset
  PROVE  /\ Books(RemoveAt(tm, k), EDF!Popped(q, id), Delivered(exch, tm[k].packet), n - 1)
         /\ EDF!Popped(q, id).waitQ = q.waitQ
<1> DEFINE t == tm[k]
           pkt == t.packet
           tms == RemoveAt(tm, k)
           new == Delivered(exch, pkt)
           popped == EDF!Popped(q, id)
<1>1. tm \in Seq(SelfMessages) /\ t \in SelfMessages
  BY DEF Books
<1>2. PICK x \in Exchanges : pkt \in PacketsOf(x, LastKinds)
  BY <1>1, SelfMessageFacts
<1>3. t = [self |-> "SELF_FIN", packet |-> pkt]
  BY <1>1, SelfMessageFacts
<1>4. pkt.kind \in LastKinds /\ pkt \in PacketsOf(x, AllKinds) /\ id = x * RidOffset
  BY <1>2, PacketFacts DEF AllKinds
<1>5. /\ pkt.kind \notin RequestKinds /\ pkt.kind \in MovingKinds
      /\ pkt.kind \notin RequestKinds \cup {"PFS_W_RESP", "PFS_W_DATA_LAST"}
  BY <1>4 DEF MinorKinds, LastKinds, RequestKinds, MovingKinds
<1> HIDE DEF t, pkt
<1>6. \A y \in Exchanges : t \notin RequestTimers(y) /\ (t \in MovingTimers(y) <=> y = x)
  BY <1>2, <1>3, <1>5, MovingTimerFacts
<1>7. /\ exch = [y \in Exchanges |-> exch[y]] /\ \A y \in Exchanges : exch[y] \in EndsOf(y)
      /\ q.waitQ \in Seq(Jobs) /\ q.osQ \in Seq(Jobs) /\ q = [waitQ |-> q.waitQ, osQ |-> q.osQ]
      /\ n = Len(q.osQ) /\ (Par.degree >= 0 => Len(q.osQ) <= Par.degree)
  BY DEF Books
<1>8. /\ new = [y \in Exchanges |-> new[y]]
      /\ \A y \in Exchanges : y # x => new[y] = exch[y]
      /\ new[x] \in EndsOf(x)
      /\ new[x].asked = (exch[x].asked /\ pkt.kind \notin LastKinds)
      /\ OnTheWay(new[x], x) =
           OnTheWay(exch[x], x) + IF pkt.kind \in RequestKinds \cup {"PFS_W_RESP", "PFS_W_DATA_LAST"}
                                  THEN 1 ELSE 0
  BY <1>4, <1>7, DeliveredFacts
<1>9. tms \in Seq(SelfMessages)
  BY <1>1, RemoveAtElements
<1>10. /\ CountIn(tm, RequestTimers(x)) = 0 /\ CountIn(tm, MovingTimers(x)) = 1
       /\ CountIn(q.waitQ, RequestsOf(x)) = 0 /\ CountIn(q.osQ, RequestsOf(x)) = 1
       /\ OnTheWay(exch[x], x) = 0
  <2>1. CountIn(tm, MovingTimers(x)) # 0
    BY <1>1, <1>6, CountInNat DEF t
  <2> DEFINE rt == CountIn(tm, RequestTimers(x))
             mt == CountIn(tm, MovingTimers(x))
             w  == CountIn(q.waitQ, RequestsOf(x))
             o  == CountIn(q.osQ, RequestsOf(x))
             e  == OnTheWay(exch[x], x)
  <2>2. /\ rt \in Nat /\ mt \in Nat /\ w \in Nat /\ o \in Nat /\ e \in Nat
        /\ ~exch[x].asked => rt = 0 /\ mt = 0 /\ w = 0 /\ o = 0 /\ e = 0
        /\ exch[x].asked => rt + w + mt + e = 1 /\ o = mt + e
    BY BooksNumbers
  <2> HIDE DEF rt, mt, w, o, e
  <2>3. rt = 0 /\ mt = 1 /\ w = 0 /\ o = 1 /\ e = 0
    BY <2>1, <2>2 DEF mt
  <2>4. QED
    BY <2>3 DEF rt, mt, w, o, e
<1>11. PICK p \in DOMAIN q.osQ : /\ q.osQ[p] \in RequestsOf(x)
                                 /\ popped = [waitQ |-> q.waitQ, osQ |-> RemoveAt(q.osQ, p)]
  <2>1. \E i \in DOMAIN q.osQ : q.osQ[i].id = id
    <3>1. PICK i \in DOMAIN q.osQ : q.osQ[i] \in RequestsOf(x)
      BY <1>7, <1>10, CountInNat
    <3>2. QED
      BY <1>4, <3>1, RequestFacts
  <2>2. PICK p \in DOMAIN q.osQ : q.osQ[p].id = id
                                  /\ popped = [waitQ |-> q.waitQ, osQ |-> RemoveAt(q.osQ, p)]
    BY <1>7, <2>1, PoppedFacts
  <2>3. q.osQ[p] \in RequestsOf(x)
    <3>1. q.osQ[p] \in Jobs
      BY <1>7
    <3>2. ExchangeOf(id) = x
      BY <1>4, ExchangeFacts
    <3>3. QED
      BY <2>2, <3>1, <3>2, JobFacts
  <2>4. QED
    BY <2>2, <2>3
<1>12. /\ popped.waitQ = q.waitQ /\ popped.osQ = RemoveAt(q.osQ, p)
       /\ RemoveAt(q.osQ, p) \in Seq(Jobs) /\ Len(RemoveAt(q.osQ, p)) = Len(q.osQ) - 1
       /\ Len(q.osQ) \in Nat
       /\ popped \in [waitQ : Seq(Jobs), osQ : Seq(Jobs)]
  <2>1. RemoveAt(q.osQ, p) \in Seq(Jobs) /\ Len(RemoveAt(q.osQ, p)) = Len(q.osQ) - 1
        /\ Len(q.osQ) \in Nat
    BY <1>7, RemoveAtElements
  <2> HIDE DEF popped
  <2>2. QED
    BY <1>7, <1>11, <2>1
<1> HIDE DEF new, tms, popped
<1>13. ASSUME NEW y \in Exchanges
       PROVE  new[y] \in EndsOf(y) /\ Balanced(tms, popped, new, y)
  <2> DEFINE rt == CountIn(tm, RequestTimers(y))
             mt == CountIn(tm, MovingTimers(y))
             o  == CountIn(q.osQ, RequestsOf(y))
             rts == CountIn(tms, RequestTimers(y))
             mts == CountIn(tms, MovingTimers(y))
             os  == CountIn(popped.osQ, RequestsOf(y))
             one == IF y = x THEN 1 ELSE 0
  <2>1. rt = rts + 0
    BY <1>1, <1>6, CountInRemoved DEF tms, t
  <2>2. mt = mts + one
    BY <1>1, <1>6, CountInRemoved DEF tms, t
  <2>3. o = os + one
    <3>1. q.osQ[p] \in RequestsOf(y) <=> y = x
      BY <1>11, RequestsApart
    <3>2. o = os + IF q.osQ[p] \in RequestsOf(y) THEN 1 ELSE 0
      BY <1>7, <1>12, CountInRemoved
    <3>3. QED
      BY <3>1, <3>2
  <2>4. rts \in Nat /\ mts \in Nat /\ os \in Nat
    BY <1>9, <1>12, CountInNat
  <2>5. Balanced(tm, q, exch, y)
    BY BooksFacts
  <2>6. /\ Before(tm, q, y) = rt + CountIn(q.waitQ, RequestsOf(y))
        /\ Before(tms, popped, y) = rts + CountIn(q.waitQ, RequestsOf(y))
        /\ After(tm, exch, y) = mt + OnTheWay(exch[y], y)
        /\ After(tms, new, y) = mts + OnTheWay(new[y], y)
    BY <1>12, Zenon DEF Before, After
  <2> HIDE DEF rt, mt, o, rts, mts, os
  <2>7. CASE y # x
    <3>1. new[y] = exch[y] /\ new[y] \in EndsOf(y) /\ rt = rts /\ mt = mts /\ o = os
      BY <1>7, <1>8, <2>1, <2>2, <2>3, <2>4, <2>7
    <3>2. Before(tms, popped, y) = Before(tm, q, y) /\ After(tms, new, y) = After(tm, exch, y)
      BY <2>6, <3>1
    <3>3. QED
      BY <2>5, <3>1, <3>2 DEF Balanced, o, os
  <2>8. CASE y = x
    <3>1. rts = 0 /\ mts = 0 /\ os = 0
      BY <1>10, <2>1, <2>2, <2>3, <2>4, <2>8 DEF rt, mt, o
    <3>2. OnTheWay(new[y], y) = 0 /\ new[y] \in EndsOf(y) /\ ~new[y].asked
      <4>1. OnTheWay(new[x], x) = 0
        BY <1>5, <1>8, <1>10
      <4>2. ~new[x].asked
        BY <1>4, <1>8, Zenon
      <4>3. QED
        BY <1>8, <2>8, <4>1, <4>2
    <3>3. Before(tms, popped, y) = 0 /\ After(tms, new, y) = 0
      BY <1>10, <2>6, <2>8, <3>1, <3>2
    <3>4. QED
      BY <3>1, <3>2, <3>3 DEF Balanced, os
  <2>9. QED
    BY <2>7, <2>8
<1>14. Books(tms, popped, new, n - 1)
  <2>1. n - 1 = Len(popped.osQ) /\ (Par.degree >= 0 => Len(popped.osQ) <= Par.degree)
    <3>1. Par.degree \in Int
      BY ProxyAssumption DEF Par
    <3>2. QED
      BY <1>7, <1>12, <3>1
  <2>2. QED
    BY <1>8, <1>9, <1>12, <1>13, <2>1 DEF Books
<1>15. QED
  BY <1>12, <1>14 DEF tms, new, popped, pkt, t

\* The first request goes to the server, and is the one thing there that brings its
\* exchange on.
LEMMA DispatchBooks ==
  ASSUME config \in Configurations, NEW tm, NEW q, NEW exch, NEW n, Books(tm, q, exch, n),
         EDF!CanDispatch(q, Par.degree)
  PROVE  /\ Books(tm, EDF!Dispatched(q), Delivered(exch, Request(Head(q.waitQ))), n + 1)
         /\ EDF!Dispatched(q).waitQ = Tail(q.waitQ)
<1> DEFINE job == Head(q.waitQ)
           x == ExchangeOf(job.id)
           pkt == Request(job)
           new == Delivered(exch, pkt)
           sent == EDF!Dispatched(q)
<1>1. /\ exch = [y \in Exchanges |-> exch[y]] /\ \A y \in Exchanges : exch[y] \in EndsOf(y)
      /\ q.waitQ \in Seq(Jobs) /\ q.osQ \in Seq(Jobs) /\ tm \in Seq(SelfMessages)
      /\ n = Len(q.osQ) /\ (Par.degree >= 0 => Len(q.osQ) <= Par.degree)
  BY DEF Books
<1>2. q.waitQ # <<>> /\ (Par.degree < 0 \/ Len(q.osQ) < Par.degree)
  BY DEF EDF!CanDispatch
<1>3. job \in Jobs /\ Tail(q.waitQ) \in Seq(Jobs)
  BY <1>1, <1>2, HeadTailElements
<1>4. x \in Exchanges /\ job \in RequestsOf(x)
  BY <1>3, JobFacts
<1>5. sent = [waitQ |-> Tail(q.waitQ), osQ |-> Append(q.osQ, job)]
  BY DEF EDF!Dispatched
<1> HIDE DEF job, x, pkt, new, sent
<1>6. pkt.kind \in RequestKinds /\ pkt \in PacketsOf(x, AllKinds)
  <2>1. pkt \in PacketsOf(x, RequestKinds)
    BY <1>4, RequestFacts DEF pkt
  <2>2. QED
    BY <1>4, <2>1, PacketFacts DEF AllKinds
<1>7. pkt.kind \notin LastKinds
  BY <1>6 DEF LastKinds, RequestKinds
<1>8. /\ new = [y \in Exchanges |-> new[y]]
      /\ \A y \in Exchanges : y # x => new[y] = exch[y]
      /\ new[x] \in EndsOf(x)
      /\ new[x].asked = (exch[x].asked /\ pkt.kind \notin LastKinds)
      /\ Sent(new[x]) <=> Sent(exch[x]) \/ pkt.kind \in RequestKinds
      /\ OnTheWay(new[x], x) =
           OnTheWay(exch[x], x) + IF pkt.kind \in RequestKinds \cup {"PFS_W_RESP", "PFS_W_DATA_LAST"}
                                  THEN 1 ELSE 0
  BY <1>1, <1>4, <1>6, DeliveredFacts DEF new
<1>9. /\ sent.waitQ = Tail(q.waitQ) /\ sent.osQ = Append(q.osQ, job)
      /\ sent \in [waitQ : Seq(Jobs), osQ : Seq(Jobs)] /\ Append(q.osQ, job) \in Seq(Jobs)
      /\ Len(sent.osQ) = Len(q.osQ) + 1 /\ Len(q.osQ) \in Nat
  <2>1. /\ Append(q.osQ, job) \in Seq(Jobs) /\ Len(Append(q.osQ, job)) = Len(q.osQ) + 1
        /\ Len(q.osQ) \in Nat
    BY <1>1, <1>3
  <2>2. QED
    BY <1>3, <1>5, <2>1
<1>10. ASSUME NEW y \in Exchanges
       PROVE  new[y] \in EndsOf(y) /\ Balanced(tm, sent, new, y)
  <2> DEFINE rt == CountIn(tm, RequestTimers(y))
             mt == CountIn(tm, MovingTimers(y))
             w  == CountIn(q.waitQ, RequestsOf(y))
             o  == CountIn(q.osQ, RequestsOf(y))
             e  == OnTheWay(exch[y], y)
             ws == CountIn(sent.waitQ, RequestsOf(y))
             os == CountIn(sent.osQ, RequestsOf(y))
             one == IF y = x THEN 1 ELSE 0
  <2>1. job \in RequestsOf(y) <=> y = x
    BY <1>4, RequestsApart
  <2>2. w = ws + one
    <3>1. w = CountIn(Tail(q.waitQ), RequestsOf(y)) + IF Head(q.waitQ) \in RequestsOf(y) THEN 1 ELSE 0
      BY <1>1, <1>2, CountInTail
    <3>2. QED
      BY <1>9, <2>1, <3>1 DEF job
  <2>3. os = o + one
    <3>1. os = o + IF job \in RequestsOf(y) THEN 1 ELSE 0
      BY <1>1, <1>3, <1>9, CountInAppended
    <3>2. QED
      BY <2>1, <3>1
  <2>4. ws \in Nat
    BY <1>3, <1>9, CountInNat
  <2>5. /\ rt \in Nat /\ mt \in Nat /\ w \in Nat /\ o \in Nat /\ e \in Nat
        /\ ~exch[y].asked => rt = 0 /\ mt = 0 /\ w = 0 /\ o = 0 /\ e = 0
        /\ exch[y].asked => rt + w + mt + e = 1 /\ o = mt + e /\ (Sent(exch[y]) <=> o = 1)
    BY BooksNumbers
  <2>6. Balanced(tm, q, exch, y)
    BY BooksFacts
  <2>7. /\ Before(tm, q, y) = rt + w /\ Before(tm, sent, y) = rt + ws
        /\ After(tm, exch, y) = mt + e /\ After(tm, new, y) = mt + OnTheWay(new[y], y)
    BY Zenon DEF Before, After
  <2> HIDE DEF rt, mt, w, o, e, ws, os
  <2>8. CASE y # x
    <3>1. new[y] = exch[y] /\ new[y] \in EndsOf(y) /\ ws = w /\ os = o
      BY <1>1, <1>8, <2>2, <2>3, <2>4, <2>5, <2>8
    <3>2. Before(tm, sent, y) = Before(tm, q, y) /\ After(tm, new, y) = After(tm, exch, y)
      BY <2>7, <3>1 DEF e
    <3>3. QED
      BY <2>6, <3>1, <3>2 DEF Balanced, o, os
  <2>9. CASE y = x
    <3>1. w = ws + 1 /\ os = o + 1
      BY <2>2, <2>3, <2>9
    <3>2. exch[y].asked
      BY <2>4, <2>5, <3>1
    <3>3. rt = 0 /\ mt = 0 /\ ws = 0 /\ e = 0 /\ o = 0
      BY <2>4, <2>5, <3>1, <3>2
    <3>4. /\ OnTheWay(new[y], y) = e + 1 /\ new[y] \in EndsOf(y)
          /\ Sent(new[y]) /\ new[y].asked
      BY <1>6, <1>7, <1>8, <2>9, <3>2 DEF e
    <3>5. Before(tm, sent, y) = 0 /\ After(tm, new, y) = 1 /\ os = 1
      BY <2>7, <3>1, <3>3, <3>4
    <3>6. QED
      BY <3>4, <3>5 DEF Balanced, os
  <2>10. QED
    BY <2>8, <2>9
<1>11. Books(tm, sent, new, n + 1)
  <2>1. n + 1 = Len(sent.osQ) /\ (Par.degree >= 0 => Len(sent.osQ) <= Par.degree)
    <3>1. Par.degree \in Int
      BY ProxyAssumption DEF Par
    <3>2. QED
      BY <1>1, <1>2, <1>9, <3>1
  <2>2. QED
    BY <1>1, <1>8, <1>9, <1>10, <2>1 DEF Books
<1>12. QED
  BY <1>9, <1>11 DEF new, sent, pkt, job

-----------------------------------------------------------------------------
(* The order in which requests wait. *)

\* The place of the last element of a kind that is at the places I.
LEMMA LastOfKind ==
  ASSUME NEW n \in Nat, NEW I \in SUBSET (1 .. n), NEW k, k = IF I # {} THEN Max(I) ELSE 0
  PROVE  \/ k = 0 /\ I = {}
         \/ k \in I /\ \A i \in I : i <= k
<1>1. CASE I = {}
  BY <1>1
<1>2. CASE I # {}
  <2> DEFINE J == {n - i : i \in I}
  <2>1. J \subseteq Nat /\ J # {}
    <3>1. \A i \in I : n - i \in Nat
      OBVIOUS
    <3>2. \E i \in I : n - i \in J
      BY <1>2
    <3>3. QED
      BY <3>1, <3>2
  <2> HIDE DEF J
  <2>2. PICK j \in J : \A m \in J : j <= m
    BY <2>1, LeastNat
  <2>3. PICK last \in I : j = n - last
    BY <2>2 DEF J
  <2>4. \A i \in I : i <= last
    <3>1. ASSUME NEW i \in I
          PROVE  i <= last
      <4>1. j <= n - i
        BY <2>2 DEF J
      <4>2. i \in Int /\ last \in Int
        OBVIOUS
      <4>3. QED
        BY <2>3, <4>1, <4>2
    <3>2. QED
      BY <3>1
  <2>5. \E x \in I : \A y \in I : x >= y
    BY <2>3, <2>4
  <2>6. Max(I) \in I /\ \A i \in I : Max(I) >= i
    BY <2>5, Zenon DEF Max
  <2>7. QED
    BY <1>2, <2>6
<1>3. QED
  BY <1>1, <1>2

\* A job's arrival is the last of its identifier, and one more arrives after all others.
LEMMA ArrivalFacts ==
  ASSUME NEW S, NEW arr \in Seq(S), NEW e \in S, NEW job
  PROVE  /\ ArrivalIn(arr, job) \in 0 .. Len(arr)
         /\ ArrivalIn(Append(arr, e), job) =
              IF e.id = job.id THEN Len(arr) + 1 ELSE ArrivalIn(arr, job)
<1> DEFINE t == Append(arr, e)
           n == Len(arr)
           I == {i \in 1 .. n : arr[i].id = job.id}
           J == {i \in 1 .. Len(t) : t[i].id = job.id}
           a == ArrivalIn(arr, job)
           b == ArrivalIn(t, job)
<1>1. /\ n \in Nat /\ Len(t) = n + 1 /\ t[n + 1] = e
      /\ \A i \in 1 .. n : t[i] = arr[i]
  OBVIOUS
<1>2. /\ a = IF I # {} THEN Max(I) ELSE 0
      /\ b = IF J # {} THEN Max(J) ELSE 0
  BY Zenon DEF ArrivalIn, SelectLastInSeq
<1>3. I \in SUBSET (1 .. n) /\ J \in SUBSET (1 .. Len(t)) /\ Len(t) \in Nat
  BY <1>1
<1>4. J = I \cup (IF e.id = job.id THEN {n + 1} ELSE {})
  BY <1>1
<1> HIDE DEF a, b, I, J, t
<1>5. \/ a = 0 /\ I = {}
      \/ a \in I /\ \A i \in I : i <= a
  BY <1>1, <1>2, <1>3, LastOfKind
<1>6. \/ b = 0 /\ J = {}
      \/ b \in J /\ \A i \in J : i <= b
  BY <1>2, <1>3, LastOfKind
<1>7. a \in 0 .. n
  BY <1>1, <1>3, <1>5
<1>8. b = IF e.id = job.id THEN n + 1 ELSE a
  <2>1. CASE e.id = job.id
    <3>1. n + 1 \in J
      BY <1>4, <2>1
    <3>2. b \in J /\ n + 1 <= b
      BY <1>6, <3>1
    <3>3. b <= n + 1 /\ b \in Int
      BY <1>1, <1>3, <3>2
    <3>4. QED
      BY <1>1, <2>1, <3>2, <3>3
  <2>2. CASE e.id # job.id
    <3>1. J = I
      BY <1>4, <2>2
    <3>2. QED
      BY <1>2, <2>2, <3>1
  <2>3. QED
    BY <2>1, <2>2
<1>9. QED
  BY <1>7, <1>8 DEF a, b, t

\* The deadline of a request, which is none under FIFO.
LEMMA DueFacts ==
  ASSUME config \in Configurations, Plain, NEW job \in Jobs
  PROVE  /\ Due(job) \in Int
         /\ Algorithm = "FIFO" => Due(job) = 0
         /\ Algorithm = "EDF" => Due(job) = EDF!Deadline(Par.delay, job)
<1>1. EDF!Deadline(Par.delay, job) \in Int
  BY JobFacts, RequestFacts
<1>2. CASE Algorithm = "FIFO"
  BY <1>2 DEF Due
<1>3. CASE Algorithm = "EDF"
  BY <1>1, <1>3 DEF Due
<1>4. QED
  BY <1>2, <1>3 DEF Plain

\* A request put behind all that are due no later and in front of all that are due
\* later is in order, when it arrives last and none that waits has its identifier.
LEMMA InsertedInOrder ==
  ASSUME config \in Configurations, Plain, NEW arr \in Seq(Jobs), NEW w \in Seq(Jobs),
         InOrder(arr, w), NEW job \in Jobs, \A i \in DOMAIN w : w[i].id # job.id,
         NEW new, NEW k \in 1 .. Len(w) + 1, Inserted(w, new, k, job), new \in Seq(Jobs),
         \A i \in 1 .. k - 1 : Due(w[i]) <= Due(job),
         \A i \in k .. Len(w) : Due(job) < Due(w[i])
  PROVE  InOrder(Append(arr, job), new)
<1> DEFINE a(j) == ArrivalIn(arr, j)
           b(j) == ArrivalIn(Append(arr, job), j)
<1>1. /\ DOMAIN w = 1 .. Len(w) /\ Len(w) \in Nat /\ DOMAIN new = 1 .. Len(w) + 1
      /\ \A i \in 1 .. Len(w) + 1 : new[i] = IF i < k THEN w[i] ELSE IF i = k THEN job ELSE w[i-1]
  BY DEF Inserted
<1>2. /\ b(job) = Len(arr) + 1 /\ Len(arr) \in Nat
      /\ \A i \in DOMAIN w : b(w[i]) = a(w[i]) /\ a(w[i]) < b(job) /\ w[i] \in Jobs
  <2>1. b(job) = Len(arr) + 1 /\ Len(arr) \in Nat
    BY ArrivalFacts
  <2>2. ASSUME NEW i \in DOMAIN w
        PROVE  b(w[i]) = a(w[i]) /\ a(w[i]) < b(job) /\ w[i] \in Jobs
    <3>1. a(w[i]) \in 0 .. Len(arr)
      BY ArrivalFacts
    <3>2. b(w[i]) = a(w[i])
      BY ArrivalFacts
    <3> HIDE DEF a, b
    <3>3. QED
      BY <2>1, <3>1, <3>2
  <2>3. QED
    BY <2>1, <2>2
<1>3. Due(job) \in Int /\ \A i \in DOMAIN w : Due(w[i]) \in Int
  BY <1>2, DueFacts
<1>4. \A i, j \in DOMAIN w : i < j => /\ Due(w[i]) <= Due(w[j])
                                      /\ Due(w[i]) = Due(w[j]) => a(w[i]) < a(w[j])
  BY DEF InOrder
<1> HIDE DEF a, b
<1>5. ASSUME NEW i \in DOMAIN new, NEW j \in DOMAIN new, i < j
      PROVE  /\ Due(new[i]) <= Due(new[j])
             /\ Due(new[i]) = Due(new[j]) => b(new[i]) < b(new[j])
  <2>1. i \in 1 .. Len(w) + 1 /\ j \in 1 .. Len(w) + 1
    BY <1>1
  <2>2. CASE j < k
    <3>1. i \in DOMAIN w /\ j \in DOMAIN w /\ new[i] = w[i] /\ new[j] = w[j]
      BY <1>1, <1>5, <2>1, <2>2
    <3>2. QED
      BY <1>2, <1>4, <1>5, <3>1
  <2>3. CASE j = k
    <3>1. i \in 1 .. k - 1 /\ i \in DOMAIN w /\ new[i] = w[i] /\ new[j] = job
      BY <1>1, <1>5, <2>1, <2>3
    <3>2. QED
      BY <1>2, <3>1
  <2>4. CASE j > k /\ i = k
    <3>1. j - 1 \in k .. Len(w) /\ j - 1 \in DOMAIN w /\ new[i] = job /\ new[j] = w[j-1]
      BY <1>1, <1>5, <2>1, <2>4
    <3>2. Due(job) < Due(w[j-1])
      BY <3>1
    <3>3. QED
      BY <1>3, <3>1, <3>2
  <2>5. CASE j > k /\ i < k
    <3>1. /\ j - 1 \in k .. Len(w) /\ j - 1 \in DOMAIN w /\ i \in 1 .. k - 1
          /\ i \in DOMAIN w /\ new[i] = w[i] /\ new[j] = w[j-1]
      BY <1>1, <1>5, <2>1, <2>5
    <3>2. Due(w[i]) <= Due(job) /\ Due(job) < Due(w[j-1])
      BY <3>1
    <3>3. QED
      BY <1>3, <3>1, <3>2
  <2>6. CASE j > k /\ i > k
    <3>1. /\ i - 1 \in DOMAIN w /\ j - 1 \in DOMAIN w /\ i - 1 < j - 1
          /\ new[i] = w[i-1] /\ new[j] = w[j-1]
      BY <1>1, <1>5, <2>1, <2>6
    <3>2. QED
      BY <1>2, <1>4, <3>1
  <2>7. QED
    BY <1>1, <1>5, <2>1, <2>2, <2>3, <2>4, <2>5, <2>6
<1>6. QED
  BY <1>5 DEF InOrder, b

\* pushWaitQ keeps the order, and leaves the other list alone.
LEMMA PushedInOrder ==
  ASSUME config \in Configurations, Plain, NEW arr \in Seq(Jobs),
         NEW q, q = [waitQ |-> q.waitQ, osQ |-> q.osQ], q.waitQ \in Seq(Jobs),
         InOrder(arr, q.waitQ), NEW job \in Jobs, \A i \in DOMAIN q.waitQ : q.waitQ[i].id # job.id
  PROVE  \E new \in Seq(Jobs), k \in 1 .. Len(q.waitQ) + 1 :
           /\ PushWaitQ(q, job) = [waitQ |-> new, osQ |-> q.osQ]
           /\ Inserted(q.waitQ, new, k, job)
           /\ InOrder(Append(arr, job), new)
<1> DEFINE w == q.waitQ
<1>1. CASE Algorithm = "FIFO"
  <2> DEFINE new == Append(w, job)
             k == Len(w) + 1
  <2>1. /\ new \in Seq(Jobs) /\ k \in 1 .. Len(w) + 1 /\ Len(new) = Len(w) + 1 /\ Len(w) \in Nat
        /\ \A i \in 1 .. Len(w) + 1 : new[i] = IF i < k THEN w[i] ELSE IF i = k THEN job ELSE w[i-1]
        /\ \A i \in 1 .. Len(w) : w[i] \in Jobs
    OBVIOUS
  <2>2. PushWaitQ(q, job) = [waitQ |-> new, osQ |-> q.osQ]
    <3>1. PushWaitQ(q, job) = [q EXCEPT !.waitQ = Append(@, job)]
      BY <1>1 DEF PushWaitQ, EDF!PushedBack
    <3>2. QED
      BY <3>1
  <2>3. /\ \A i \in 1 .. k - 1 : Due(w[i]) <= Due(job)
        /\ \A i \in k .. Len(w) : Due(job) < Due(w[i])
    BY <1>1, <2>1, DueFacts
  <2> HIDE DEF new, k, w
  <2>4. Inserted(w, new, k, job)
    BY <2>1 DEF Inserted
  <2>5. InOrder(Append(arr, job), new)
    BY <2>1, <2>3, <2>4, InsertedInOrder DEF w
  <2>6. QED
    BY <2>1, <2>2, <2>4, <2>5 DEF w
<1>2. CASE Algorithm = "EDF"
  <2> DEFINE new == EDF!InsertedByDeadline(w, job, Par.delay)
             DueAt(j) == EDF!Deadline(Par.delay, j)
  <2>1. \A j \in Jobs : Due(j) = DueAt(j) /\ DueAt(j) \in Int
    <3>1. \A j \in Jobs : Due(j) = DueAt(j) /\ Due(j) \in Int
      BY <1>2, DueFacts
    <3> HIDE DEF DueAt
    <3>2. QED
      BY <3>1
  <2>2. ByDeadline(w, Par.delay)
    <3>1. \A i \in DOMAIN w : w[i] \in Jobs
      OBVIOUS
    <3>2. \A i, j \in DOMAIN w : i < j => Due(w[i]) <= Due(w[j])
      BY DEF InOrder
    <3>3. QED
      BY <2>1, <3>1, <3>2 DEF ByDeadline
  <2>3. /\ new \in Seq(Jobs) /\ Len(new) = Len(w) + 1
        /\ \E k \in 1 .. Len(w) + 1 :
             /\ \A i \in 1 .. Len(w) + 1 :
                  new[i] = IF i < k THEN w[i] ELSE IF i = k THEN job ELSE w[i-1]
             /\ \A i \in 1 .. k - 1 : DueAt(w[i]) <= DueAt(job)
             /\ \A i \in k .. Len(w) : DueAt(job) < DueAt(w[i])
    <3> HIDE DEF new
    <3>1. QED
      BY <2>1, <2>2, EDFInsertsInPlace DEF new
  <2>4. PushWaitQ(q, job) = [waitQ |-> new, osQ |-> q.osQ]
    <3>1. PushWaitQ(q, job) = [q EXCEPT !.waitQ = EDF!InsertedByDeadline(@, job, Par.delay)]
      BY <1>2 DEF PushWaitQ, EDF!PushedByDeadline
    <3> HIDE DEF new
    <3>2. [q EXCEPT !.waitQ = new] = [waitQ |-> new, osQ |-> q.osQ]
      OBVIOUS
    <3>3. QED
      BY <3>1, <3>2, Zenon DEF new
  <2> HIDE DEF new, DueAt
  <2>5. PICK k \in 1 .. Len(w) + 1 :
          /\ \A i \in 1 .. Len(w) + 1 :
               new[i] = IF i < k THEN w[i] ELSE IF i = k THEN job ELSE w[i-1]
          /\ \A i \in 1 .. k - 1 : DueAt(w[i]) <= DueAt(job)
          /\ \A i \in k .. Len(w) : DueAt(job) < DueAt(w[i])
    BY <2>3
  <2>6. Inserted(w, new, k, job)
    BY <2>3, <2>5 DEF Inserted
  <2>7. /\ \A i \in 1 .. k - 1 : Due(w[i]) <= Due(job)
        /\ \A i \in k .. Len(w) : Due(job) < Due(w[i])
    <3>1. /\ \A i \in 1 .. k - 1 : w[i] \in Jobs
          /\ \A i \in k .. Len(w) : w[i] \in Jobs
      OBVIOUS
    <3>2. QED
      BY <2>1, <2>5, <3>1
  <2>8. InOrder(Append(arr, job), new)
    BY <2>3, <2>6, <2>7, InsertedInOrder
  <2>9. QED
    BY <2>3, <2>4, <2>6, <2>8
<1>3. QED
  BY <1>1, <1>2 DEF Plain

\* The others keep their order when the first goes.
LEMMA TailInOrder ==
  ASSUME NEW S, NEW w \in Seq(S), w # <<>>, NEW arr, InOrder(arr, w)
  PROVE  InOrder(arr, Tail(w))
<1>1. /\ DOMAIN w = 1 .. Len(w) /\ Len(w) \in Nat
      /\ DOMAIN Tail(w) = 1 .. Len(w) - 1
      /\ \A i \in 1 .. Len(w) - 1 : Tail(w)[i] = w[i+1]
  OBVIOUS
<1>2. ASSUME NEW i \in DOMAIN Tail(w), NEW j \in DOMAIN Tail(w), i < j
      PROVE  /\ Due(Tail(w)[i]) <= Due(Tail(w)[j])
             /\ Due(Tail(w)[i]) = Due(Tail(w)[j])
                  => ArrivalIn(arr, Tail(w)[i]) < ArrivalIn(arr, Tail(w)[j])
  <2>1. /\ i + 1 \in DOMAIN w /\ j + 1 \in DOMAIN w /\ i + 1 < j + 1
        /\ Tail(w)[i] = w[i+1] /\ Tail(w)[j] = w[j+1]
    BY <1>1, <1>2
  <2>2. QED
    BY <2>1 DEF InOrder
<1>3. QED
  BY <1>2 DEF InOrder

-----------------------------------------------------------------------------
(* The packets and their places. *)

\* Each place of an exchange has a packet of its own, of which the kind tells whether
\* it is the first or the last and whether it makes the other end answer.
LEMMA NthFacts ==
  ASSUME config \in Configurations, NEW x \in Exchanges, NEW read \in BOOLEAN
  PROVE  /\ Length(read) \in Nat /\ Length(read) >= 2 /\ Packets \in Nat \ {0}
         /\ Length(read) = IF read THEN Packets + 1 ELSE Packets + 3
         /\ \A i \in 1 .. Length(read) :
              /\ Nth(x, read, i) \in PacketsOf(x, AllKinds) /\ Nth(x, read, i).kind = KindAt(read, i)
              /\ KindAt(read, i) \in AllKinds
              /\ KindAt(read, i) \in LastKinds <=> i = Length(read)
              /\ KindAt(read, i) \in RequestKinds <=> i = 1
              /\ KindAt(read, i) = "PFS_W_RESP" <=> ~read /\ i = 2
              /\ KindAt(read, i) = "PFS_W_DATA_LAST" <=> ~read /\ i = Packets + 2
         /\ \A i, j \in 1 .. Length(read) : Nth(x, read, i) = Nth(x, read, j) => i = j
<1> DEFINE base == x * RidOffset
<1>1. Packets \in Nat \ {0} /\ base \in Nat
  BY ExchangeFacts
<1>2. Length(read) = IF read THEN Packets + 1 ELSE Packets + 3
  BY DEF Length
<1> DEFINE P == Packets
<1> HIDE DEF P
<1>3. ASSUME NEW i \in 1 .. Length(read)
      PROVE  /\ NumberAt(read, i) \in 0 .. Packets
             /\ KindAt(read, i) \in AllKinds
             /\ KindAt(read, i) \in LastKinds <=> i = Length(read)
             /\ KindAt(read, i) \in RequestKinds <=> i = 1
             /\ KindAt(read, i) = "PFS_W_RESP" <=> ~read /\ i = 2
             /\ KindAt(read, i) = "PFS_W_DATA_LAST" <=> ~read /\ i = Packets + 2
  <2>1. CASE read
    BY <1>1, <1>2, <2>1 DEF NumberAt, KindAt, AllKinds, LastKinds, MinorKinds, RequestKinds
  <2>2. CASE ~read
    BY <1>1, <1>2, <2>2 DEF NumberAt, KindAt, AllKinds, LastKinds, MinorKinds, RequestKinds
  <2>3. QED
    BY <2>1, <2>2
<1>4. ASSUME NEW i \in 1 .. Length(read), NEW j \in 1 .. Length(read),
             KindAt(read, i) = KindAt(read, j), NumberAt(read, i) = NumberAt(read, j)
      PROVE  i = j
  <2>1. CASE read
    BY <1>1, <1>2, <1>4, <2>1 DEF NumberAt, KindAt
  <2>2. CASE ~read
    BY <1>1, <1>2, <1>4, <2>2 DEF NumberAt, KindAt
  <2>3. QED
    BY <2>1, <2>2
<1> HIDE DEF base
<1>5. ASSUME NEW i \in 1 .. Length(read)
      PROVE  /\ Nth(x, read, i).kind = KindAt(read, i)
             /\ Nth(x, read, i).id = base + NumberAt(read, i)
             /\ Nth(x, read, i) \in PacketsOf(x, AllKinds)
  <2>1. base + NumberAt(read, i) \in base .. base + Packets
    BY <1>1, <1>3
  <2>2. Nth(x, read, i) = [kind |-> KindAt(read, i), id |-> base + NumberAt(read, i)]
    BY DEF Nth, base
  <2> HIDE DEF Nth
  <2>3. QED
    BY <1>3, <2>1, <2>2 DEF PacketsOf, base
<1>6. ASSUME NEW i \in 1 .. Length(read), NEW j \in 1 .. Length(read), Nth(x, read, i) = Nth(x, read, j)
      PROVE  i = j
  <2>1. KindAt(read, i) = KindAt(read, j) /\ base + NumberAt(read, i) = base + NumberAt(read, j)
    BY <1>5, <1>6
  <2>2. NumberAt(read, i) = NumberAt(read, j)
    <3>1. NumberAt(read, i) \in Nat /\ NumberAt(read, j) \in Nat
      BY <1>1, <1>3
    <3>2. QED
      BY <1>1, <2>1, <3>1
  <2>3. QED
    BY <1>4, <2>1, <2>2
<1>7. Length(read) \in Nat /\ Length(read) >= 2
  BY <1>1, <1>2
<1>8. QED
  BY <1>1, <1>2, <1>3, <1>5, <1>6, <1>7

\* The data packets are those of their places.
LEMMA DataPlaces ==
  ASSUME config \in Configurations, NEW x \in Exchanges
  PROVE  /\ Len(ReadData(x)) = Packets /\ Len(WriteData(x)) = Packets
         /\ \A i \in 1 .. Packets : ReadData(x)[i] = Nth(x, TRUE, i + 1)
         /\ \A i \in 1 .. Packets : WriteData(x)[i] = Nth(x, FALSE, i + 2)
<1> DEFINE n == Packets
           base == x * RidOffset
           w == WriteData(x)
           f == DataPackets(x, "PFS_R_DATA", "PFS_R_DATA_LAST")
           r == ReadData(x)
<1>1. n \in Nat \ {0} /\ base \in Nat
  BY ExchangeFacts
<1>2. w = [k \in 1 .. n |-> [kind |-> IF k = n THEN "PFS_W_DATA_LAST" ELSE "PFS_W_DATA",
                             id |-> base + k]]
  BY DEF WriteData, DataPackets
<1>3. /\ f = [k \in 1 .. n |-> [kind |-> IF k = n THEN "PFS_R_DATA_LAST" ELSE "PFS_R_DATA",
                                id |-> base + k]]
      /\ r = [f EXCEPT ![n] = [f[n] EXCEPT !.id = base]]
  BY DEF ReadData, DataPackets
<1> HIDE DEF w, f, r
<1>4. Len(w) = n /\ Len(r) = n
  <2>1. DOMAIN w = 1 .. n /\ DOMAIN r = 1 .. n
    BY <1>2, <1>3
  <2>2. w \in Seq(PacketsOf(x, MinorKinds)) /\ r \in Seq(PacketsOf(x, MinorKinds \cup LastKinds))
    BY DataFacts DEF w, r
  <2>3. QED
    BY <1>1, <2>1, <2>2
<1> HIDE DEF n, base
<1>5. ASSUME NEW i \in 1 .. n
      PROVE  w[i] = Nth(x, FALSE, i + 2)
  <2>1. w[i] = [kind |-> IF i = n THEN "PFS_W_DATA_LAST" ELSE "PFS_W_DATA", id |-> base + i]
    BY <1>2
  <2>2. KindAt(FALSE, i + 2) = IF i = n THEN "PFS_W_DATA_LAST" ELSE "PFS_W_DATA"
    BY <1>1 DEF KindAt, n
  <2>3. NumberAt(FALSE, i + 2) = i
    BY <1>1 DEF NumberAt, n
  <2>4. QED
    BY <2>1, <2>2, <2>3 DEF Nth, base
<1>6. ASSUME NEW i \in 1 .. n
      PROVE  r[i] = Nth(x, TRUE, i + 1)
  <2>1. f[i] = [kind |-> IF i = n THEN "PFS_R_DATA_LAST" ELSE "PFS_R_DATA", id |-> base + i]
    BY <1>3
  <2>2. r[i] = [kind |-> IF i = n THEN "PFS_R_DATA_LAST" ELSE "PFS_R_DATA",
                id |-> IF i = n THEN base ELSE base + i]
    <3>1. CASE i = n
      <4>1. r[i] = [f[i] EXCEPT !.id = base]
        BY <1>3, <3>1
      <4>2. QED
        BY <2>1, <3>1, <4>1
    <3>2. CASE i # n
      <4>1. r[i] = f[i]
        BY <1>3, <3>2
      <4>2. QED
        BY <2>1, <3>2, <4>1
    <3>3. QED
      BY <3>1, <3>2
  <2>3. KindAt(TRUE, i + 1) = IF i = n THEN "PFS_R_DATA_LAST" ELSE "PFS_R_DATA"
    BY <1>1 DEF KindAt, n
  <2>4. NumberAt(TRUE, i + 1) = IF i = n THEN 0 ELSE i
    BY <1>1 DEF NumberAt, n
  <2>5. base + NumberAt(TRUE, i + 1) = IF i = n THEN base ELSE base + i
    <3>1. CASE i = n
      <4>1. NumberAt(TRUE, i + 1) = 0
        BY <2>4, <3>1
      <4>2. base + 0 = base
        BY <1>1
      <4>3. QED
        BY <3>1, <4>1, <4>2
    <3>2. CASE i # n
      <4>1. NumberAt(TRUE, i + 1) = i
        BY <2>4, <3>2
      <4>2. QED
        BY <3>2, <4>1
    <3>3. QED
      BY <3>1, <3>2
  <2>6. Nth(x, TRUE, i + 1) = [kind |-> KindAt(TRUE, i + 1), id |-> base + NumberAt(TRUE, i + 1)]
    BY DEF Nth, base
  <2>7. QED
    BY <2>2, <2>3, <2>5, <2>6
<1>7. QED
  BY <1>4, <1>5, <1>6 DEF n, w, r

\* What the ends have made is what has passed, or more, and grows by what a packet makes
\* the other end answer.
LEMMA MadeFacts ==
  ASSUME config \in Configurations, NEW x \in Exchanges, NEW read \in BOOLEAN,
         NEW n \in 0 .. Length(read)
  PROVE  /\ Made(read, n) \in Nat /\ n <= Made(read, n) /\ Made(read, n) <= Length(read)
         /\ n \in {0, Length(read)} => Made(read, n) = n
         /\ ~read /\ n < Packets + 2 => Made(read, n) < Length(read)
         /\ ByClient(read, n) => n >= 2 /\ Made(read, n) = Packets + 2
         /\ ~read /\ ~ByClient(read, n) => Made(read, n) <= n + 1
         /\ n # 0 /\ n < Length(read) =>
              Made(read, n + 1) = Made(read, n) + (IF ~read /\ n = 1 THEN Packets ELSE 0)
                                                + (IF ~read /\ n = Packets + 1 THEN 1 ELSE 0)
         /\ Made(read, 1) = 1 + IF read THEN Packets ELSE 1
<1>1. Packets \in Nat \ {0} /\ Length(read) = IF read THEN Packets + 1 ELSE Packets + 3
  BY NthFacts
<1> DEFINE P == Packets
<1> HIDE DEF P
<1>2. CASE read
  BY <1>1, <1>2 DEF Made, ByClient
<1>3. CASE ~read
  <2>1. n = 0 \/ n = 1 \/ (n \in 2 .. Packets + 1) \/ n = Packets + 2 \/ n = Packets + 3
    BY <1>1, <1>3
  <2>2. CASE n = 0
    BY <1>1, <1>3, <2>2 DEF Made, ByClient
  <2>3. CASE n = 1
    BY <1>1, <1>3, <2>3 DEF Made, ByClient
  <2>4. CASE n \in 2 .. Packets + 1
    BY <1>1, <1>3, <2>4 DEF Made, ByClient
  <2>5. CASE n = Packets + 2
    BY <1>1, <1>3, <2>5 DEF Made, ByClient
  <2>6. CASE n = Packets + 3
    BY <1>1, <1>3, <2>6 DEF Made, ByClient
  <2>7. QED
    BY <2>1, <2>2, <2>3, <2>4, <2>5, <2>6
<1>4. QED
  BY <1>2, <1>3

-----------------------------------------------------------------------------
(* The packets that wait. *)

\* A message of another exchange, or a request, does not matter.
LEMMA WaitingAppended ==
  ASSUME NEW tm \in Seq(SelfMessages), NEW t \in SelfMessages, NEW x, NEW read, NEW lo, NEW hi,
         Waiting(tm, x, read, lo, hi), ~Later(t, x)
  PROVE  Waiting(Append(tm, t), x, read, lo, hi)
<1> DEFINE new == Append(tm, t)
<1>1. /\ Len(tm) \in Nat /\ DOMAIN tm = 1 .. Len(tm) /\ DOMAIN new = 1 .. Len(tm) + 1
      /\ new[Len(tm) + 1] = t /\ \A k \in 1 .. Len(tm) : new[k] = tm[k]
  OBVIOUS
<1> HIDE DEF new
<1>2. \A k \in DOMAIN new : Later(new[k], x) => k \in DOMAIN tm /\ new[k] = tm[k]
  BY <1>1
<1>3. \A k \in DOMAIN tm : k \in DOMAIN new /\ new[k] = tm[k]
  BY <1>1
<1>4. QED
  BY <1>2, <1>3, Zenon DEF Waiting, new

\* The next packet joins them.
LEMMA WaitingJoined ==
  ASSUME config \in Configurations, NEW tm \in Seq(SelfMessages), NEW t \in SelfMessages,
         NEW x \in Exchanges, NEW read \in BOOLEAN,
         NEW lo \in Nat \ {0}, NEW hi \in Nat, lo <= hi + 1, hi < Length(read),
         Waiting(tm, x, read, lo, hi), Later(t, x), t.packet = Nth(x, read, hi + 1)
  PROVE  Waiting(Append(tm, t), x, read, lo, hi + 1)
<1> DEFINE new == Append(tm, t)
           N(i) == Nth(x, read, i)
           last == Len(tm) + 1
<1>1. /\ Len(tm) \in Nat /\ DOMAIN tm = 1 .. Len(tm) /\ DOMAIN new = 1 .. last
      /\ new[last] = t /\ \A k \in 1 .. Len(tm) : new[k] = tm[k]
  OBVIOUS
<1>2. \A i, j \in 1 .. Length(read) : N(i) = N(j) => i = j
  BY NthFacts
<1>3. Length(read) \in Nat
  BY NthFacts
<1> HIDE DEF new, N
<1>4. /\ \A k \in DOMAIN tm : Later(tm[k], x) => \E i \in lo .. hi : tm[k].packet = N(i)
      /\ \A i \in lo .. hi : \E k \in DOMAIN tm : Later(tm[k], x) /\ tm[k].packet = N(i)
      /\ \A j, k \in DOMAIN tm : \A g, i \in lo .. hi :
           j < k /\ Later(tm[j], x) /\ Later(tm[k], x) /\ tm[j].packet = N(g) /\ tm[k].packet = N(i)
           => g < i
  BY Zenon DEF Waiting, N
<1>5. t.packet = N(hi + 1)
  BY DEF N
<1>6. ASSUME NEW k \in DOMAIN new, Later(new[k], x)
      PROVE  \E i \in lo .. hi + 1 : new[k].packet = N(i)
  BY <1>1, <1>4, <1>5, <1>6
<1>7. ASSUME NEW i \in lo .. hi + 1
      PROVE  \E k \in DOMAIN new : Later(new[k], x) /\ new[k].packet = N(i)
  <2>1. CASE i = hi + 1
    BY <1>1, <1>5, <2>1
  <2>2. CASE i # hi + 1
    <3>1. i \in lo .. hi
      BY <2>2
    <3>2. PICK k \in DOMAIN tm : Later(tm[k], x) /\ tm[k].packet = N(i)
      BY <1>4, <3>1
    <3>3. QED
      BY <1>1, <3>2
  <2>3. QED
    BY <2>1, <2>2
<1>8. ASSUME NEW j \in DOMAIN new, NEW k \in DOMAIN new, NEW g \in lo .. hi + 1, NEW i \in lo .. hi + 1,
             j < k, Later(new[j], x), Later(new[k], x), new[j].packet = N(g), new[k].packet = N(i)
      PROVE  g < i
  <2>1. j \in DOMAIN tm /\ new[j] = tm[j]
    BY <1>1, <1>8
  <2>2. PICK h \in lo .. hi : tm[j].packet = N(h)
    BY <1>4, <1>8, <2>1
  <2>3. h = g
    BY <1>2, <1>3, <1>8, <2>1, <2>2
  <2>4. CASE k = last
    <3>1. i = hi + 1
      BY <1>1, <1>2, <1>3, <1>5, <1>8, <2>4
    <3>2. QED
      BY <2>3, <3>1
  <2>5. CASE k # last
    <3>1. k \in DOMAIN tm /\ new[k] = tm[k]
      BY <1>1, <2>5
    <3>2. PICK m \in lo .. hi : tm[k].packet = N(m)
      BY <1>4, <1>8, <3>1
    <3>3. m = i
      BY <1>2, <1>3, <1>8, <3>1, <3>2
    <3>4. QED
      BY <1>4, <1>8, <2>1, <2>3, <3>1, <3>3
  <2>6. QED
    BY <2>4, <2>5
<1>9. QED
  BY <1>6, <1>7, <1>8, Zenon DEF Waiting, new, N

\* Which messages are left when one has come.
LEMMA RemovedPlaces ==
  ASSUME NEW tm \in Seq(SelfMessages), NEW k \in DOMAIN tm
  PROVE  LET new == RemoveAt(tm, k)
         IN  /\ new \in Seq(SelfMessages)
             /\ \A i \in DOMAIN new : \E j \in DOMAIN tm \ {k} : new[i] = tm[j]
             /\ \A j \in DOMAIN tm \ {k} : \E i \in DOMAIN new : new[i] = tm[j]
             /\ \A g, i \in DOMAIN new : g < i =>
                  \E h, j \in DOMAIN tm \ {k} : h < j /\ new[g] = tm[h] /\ new[i] = tm[j]
<1> DEFINE new == RemoveAt(tm, k)
           old(i) == IF i < k THEN i ELSE i + 1
<1>1. /\ new \in Seq(SelfMessages) /\ Len(new) = Len(tm) - 1
      /\ \A i \in 1 .. Len(tm) - 1 : new[i] = IF i < k THEN tm[i] ELSE tm[i+1]
  BY RemoveAtElements
<1>2. Len(tm) \in Nat /\ DOMAIN tm = 1 .. Len(tm) /\ DOMAIN new = 1 .. Len(tm) - 1 /\ k \in 1 .. Len(tm)
  BY <1>1
<1> HIDE DEF new
<1>3. \A i \in DOMAIN new : old(i) \in DOMAIN tm \ {k} /\ new[i] = tm[old(i)]
  BY <1>1, <1>2
<1>4. \A g, i \in DOMAIN new : g < i => old(g) < old(i)
  BY <1>2
<1>5. ASSUME NEW j \in DOMAIN tm \ {k}
      PROVE  \E i \in DOMAIN new : new[i] = tm[j]
  <2>1. CASE j < k
    <3>1. j \in DOMAIN new /\ new[j] = tm[j]
      BY <1>1, <1>2, <2>1
    <3>2. QED
      BY <3>1
  <2>2. CASE ~(j < k)
    <3>1. j - 1 \in DOMAIN new /\ new[j-1] = tm[j]
      BY <1>1, <1>2, <2>2
    <3>2. QED
      BY <3>1
  <2>3. QED
    BY <2>1, <2>2
<1> HIDE DEF old
<1>6. QED
  BY <1>1, <1>3, <1>4, <1>5, Zenon DEF new

\* A message of another exchange goes, and nothing changes for this one.
LEMMA WaitingRemoved ==
  ASSUME NEW tm \in Seq(SelfMessages), NEW k \in DOMAIN tm, NEW x, NEW read, NEW lo, NEW hi,
         Waiting(tm, x, read, lo, hi), ~Later(tm[k], x)
  PROVE  Waiting(RemoveAt(tm, k), x, read, lo, hi)
<1> DEFINE new == RemoveAt(tm, k)
           N(i) == Nth(x, read, i)
<1>1. /\ \A i \in DOMAIN new : \E j \in DOMAIN tm \ {k} : new[i] = tm[j]
      /\ \A j \in DOMAIN tm \ {k} : \E i \in DOMAIN new : new[i] = tm[j]
      /\ \A g, i \in DOMAIN new : g < i =>
           \E h, j \in DOMAIN tm \ {k} : h < j /\ new[g] = tm[h] /\ new[i] = tm[j]
  BY RemovedPlaces
<1>2. /\ \A j \in DOMAIN tm : Later(tm[j], x) => \E i \in lo .. hi : tm[j].packet = N(i)
      /\ \A i \in lo .. hi : \E j \in DOMAIN tm : Later(tm[j], x) /\ tm[j].packet = N(i)
      /\ \A h, j \in DOMAIN tm : \A g, i \in lo .. hi :
           h < j /\ Later(tm[h], x) /\ Later(tm[j], x) /\ tm[h].packet = N(g) /\ tm[j].packet = N(i)
           => g < i
  BY Zenon DEF Waiting, N
<1> HIDE DEF new, N
<1>3. ASSUME NEW j \in DOMAIN new, Later(new[j], x)
      PROVE  \E i \in lo .. hi : new[j].packet = N(i)
  <2>1. PICK h \in DOMAIN tm \ {k} : new[j] = tm[h]
    BY <1>1
  <2>2. QED
    BY <1>2, <1>3, <2>1
<1>4. ASSUME NEW i \in lo .. hi
      PROVE  \E j \in DOMAIN new : Later(new[j], x) /\ new[j].packet = N(i)
  <2>1. PICK h \in DOMAIN tm : Later(tm[h], x) /\ tm[h].packet = N(i)
    BY <1>2
  <2>2. PICK j \in DOMAIN new : new[j] = tm[h]
    BY <1>1, <2>1
  <2>3. QED
    BY <2>1, <2>2
<1>5. ASSUME NEW h \in DOMAIN new, NEW j \in DOMAIN new, NEW g \in lo .. hi, NEW i \in lo .. hi,
             h < j, Later(new[h], x), Later(new[j], x), new[h].packet = N(g), new[j].packet = N(i)
      PROVE  g < i
  <2>1. PICK l \in DOMAIN tm \ {k}, m \in DOMAIN tm \ {k} : l < m /\ new[h] = tm[l] /\ new[j] = tm[m]
    BY <1>1, <1>5
  <2>2. QED
    BY <1>2, <1>5, <2>1
<1>6. QED
  BY <1>3, <1>4, <1>5, Zenon DEF Waiting, new, N

\* The first of them comes.
LEMMA WaitingCame ==
  ASSUME config \in Configurations, NEW tm \in Seq(SelfMessages), NEW k \in DOMAIN tm,
         NEW x \in Exchanges, NEW read \in BOOLEAN,
         NEW lo \in Nat \ {0}, NEW hi \in Nat, lo <= hi, hi <= Length(read),
         Waiting(tm, x, read, lo, hi), Later(tm[k], x), tm[k].packet = Nth(x, read, lo)
  PROVE  Waiting(RemoveAt(tm, k), x, read, lo + 1, hi)
<1> DEFINE new == RemoveAt(tm, k)
           N(i) == Nth(x, read, i)
<1>1. /\ \A i \in DOMAIN new : \E j \in DOMAIN tm \ {k} : new[i] = tm[j]
      /\ \A j \in DOMAIN tm \ {k} : \E i \in DOMAIN new : new[i] = tm[j]
      /\ \A g, i \in DOMAIN new : g < i =>
           \E h, j \in DOMAIN tm \ {k} : h < j /\ new[g] = tm[h] /\ new[i] = tm[j]
  BY RemovedPlaces
<1>2. /\ \A j \in DOMAIN tm : Later(tm[j], x) => \E i \in lo .. hi : tm[j].packet = N(i)
      /\ \A i \in lo .. hi : \E j \in DOMAIN tm : Later(tm[j], x) /\ tm[j].packet = N(i)
      /\ \A h, j \in DOMAIN tm : \A g, i \in lo .. hi :
           h < j /\ Later(tm[h], x) /\ Later(tm[j], x) /\ tm[h].packet = N(g) /\ tm[j].packet = N(i)
           => g < i
  BY Zenon DEF Waiting, N
<1>3. \A i, j \in 1 .. Length(read) : N(i) = N(j) => i = j
  BY NthFacts
<1>4. Length(read) \in Nat /\ DOMAIN tm = 1 .. Len(tm) /\ Len(tm) \in Nat
  BY NthFacts
<1>5. tm[k].packet = N(lo) /\ lo \in lo .. hi
  OBVIOUS
<1> HIDE DEF new, N
<1>6. ASSUME NEW j \in DOMAIN tm \ {k}, Later(tm[j], x)
      PROVE  \E i \in lo + 1 .. hi : tm[j].packet = N(i)
  <2>1. PICK i \in lo .. hi : tm[j].packet = N(i)
    BY <1>2, <1>6
  <2>2. i # lo
    <3>1. k < j \/ j < k
      BY <1>4
    <3>2. CASE k < j
      BY <1>2, <1>5, <1>6, <2>1, <3>2
    <3>3. CASE j < k
      <4>1. i < lo
        BY <1>2, <1>5, <1>6, <2>1, <3>3
      <4>2. QED
        BY <2>1, <4>1
    <3>4. QED
      BY <3>1, <3>2, <3>3
  <2>3. i \in lo + 1 .. hi
    BY <2>2
  <2>4. QED
    BY <2>1, <2>3
<1>7. ASSUME NEW i \in lo + 1 .. hi
      PROVE  \E j \in DOMAIN tm \ {k} : Later(tm[j], x) /\ tm[j].packet = N(i)
  <2>1. i \in lo .. hi /\ i \in 1 .. Length(read) /\ lo \in 1 .. Length(read) /\ i # lo
    BY <1>4
  <2>2. PICK j \in DOMAIN tm : Later(tm[j], x) /\ tm[j].packet = N(i)
    BY <1>2, <2>1
  <2>3. j # k
    BY <1>3, <1>5, <2>1, <2>2
  <2>4. QED
    BY <2>2, <2>3
<1>8. ASSUME NEW j \in DOMAIN new, Later(new[j], x)
      PROVE  \E i \in lo + 1 .. hi : new[j].packet = N(i)
  <2>1. PICK h \in DOMAIN tm \ {k} : new[j] = tm[h]
    BY <1>1
  <2>2. QED
    BY <1>6, <1>8, <2>1
<1>9. ASSUME NEW i \in lo + 1 .. hi
      PROVE  \E j \in DOMAIN new : Later(new[j], x) /\ new[j].packet = N(i)
  <2>1. PICK h \in DOMAIN tm \ {k} : Later(tm[h], x) /\ tm[h].packet = N(i)
    BY <1>7
  <2>2. PICK j \in DOMAIN new : new[j] = tm[h]
    BY <1>1
  <2>3. QED
    BY <2>1, <2>2
<1>10. ASSUME NEW h \in DOMAIN new, NEW j \in DOMAIN new, NEW g \in lo + 1 .. hi, NEW i \in lo + 1 .. hi,
              h < j, Later(new[h], x), Later(new[j], x), new[h].packet = N(g), new[j].packet = N(i)
       PROVE  g < i
  <2>1. g \in lo .. hi /\ i \in lo .. hi
    OBVIOUS
  <2>2. PICK l \in DOMAIN tm \ {k}, m \in DOMAIN tm \ {k} : l < m /\ new[h] = tm[l] /\ new[j] = tm[m]
    BY <1>1, <1>10
  <2>3. QED
    BY <1>2, <1>10, <2>1, <2>2
<1>11. QED
  BY <1>8, <1>9, <1>10, Zenon DEF Waiting, new, N

-----------------------------------------------------------------------------
(* An exchange of which a packet passes. *)

\* What the packet makes the ends of exchange x send, and what they then have to send.
ClientAnswer(x, pkt) == IF pkt.kind = "PFS_W_RESP" THEN WriteData(x) ELSE <<>>
ServerAnswer(x, pkt) ==
  CASE pkt.kind = "PFS_R_REQ" -> ReadData(x)
    [] pkt.kind = "PFS_W_REQ" -> <<[kind |-> "PFS_W_RESP", id |-> pkt.id]>>
    [] pkt.kind = "PFS_W_DATA_LAST" -> <<[kind |-> "PFS_W_FIN", id |-> pkt.id]>>
    [] OTHER -> <<>>
ClientLeft(e, x, pkt) == e.fromClient \o ClientAnswer(x, pkt)
ServerLeft(e, x, pkt) == e.fromServer \o ServerAnswer(x, pkt)

\* The fields of an exchange once a packet has passed.
LEMMA PassedFields ==
  ASSUME NEW x, NEW e \in EndsOf(x), NEW pkt, NEW new, new = Passed(e, x, pkt)
  PROVE  /\ new.asked \in BOOLEAN /\ (new.asked <=> e.asked /\ pkt.kind \notin LastKinds)
         /\ new.round = e.round /\ new.read = e.read
         /\ new.forwarded = Append(e.forwarded, pkt.kind)
         /\ new.fromClient = ClientLeft(e, x, pkt) /\ new.fromServer = ServerLeft(e, x, pkt)
<1> DEFINE asked == e.asked /\ pkt.kind \notin LastKinds
           client == ClientLeft(e, x, pkt)
           server == ServerLeft(e, x, pkt)
           forwarded == Append(e.forwarded, pkt.kind)
<1>1. e = [asked |-> e.asked, round |-> e.round, read |-> e.read, fromClient |-> e.fromClient,
           fromServer |-> e.fromServer, forwarded |-> e.forwarded]
  BY DEF EndsOf
<1>2. new = [e EXCEPT !.forwarded = forwarded, !.asked = asked, !.fromClient = client,
                      !.fromServer = server]
  BY Zenon DEF Passed, ClientLeft, ServerLeft, ClientAnswer, ServerAnswer, LastKinds
<1> HIDE DEF asked, client, server, forwarded
<1>3. /\ new.asked = asked /\ new.fromClient = client /\ new.fromServer = server
      /\ new.forwarded = forwarded /\ new.round = e.round /\ new.read = e.read
  BY <1>1, <1>2
<1>4. QED
  BY <1>3 DEF asked, client, server, forwarded

\* An empty sequence adds nothing, and an element more changes none before it.
LEMMA ShortSequences ==
  ASSUME NEW S, NEW s \in Seq(S)
  PROVE  /\ s \o <<>> = s /\ <<>> \o s = s
         /\ Len(s) = 0 => s = <<>>
         /\ \A e \in S : /\ Len(Append(s, e)) = Len(s) + 1 /\ Append(s, e)[Len(s) + 1] = e
                        /\ \A i \in 1 .. Len(s) : Append(s, e)[i] = s[i]
  OBVIOUS

\* The parts of an exchange, as the invariant reads them.
LEMMA FlowFacts ==
  ASSUME config \in Configurations, NEW tm, NEW x \in Exchanges, NEW e \in EndsOf(x), Flow(tm, e, x)
  PROVE  LET n == Len(e.forwarded)
             c == SentOff(e)
         IN  /\ e.read \in BOOLEAN /\ n \in Nat /\ c \in Nat
             /\ Len(e.fromClient) \in Nat /\ Len(e.fromServer) \in Nat
             /\ c = Made(e.read, n) - Len(e.fromClient) - Len(e.fromServer)
             /\ n <= c /\ n <= Length(e.read) /\ c <= Made(e.read, n) /\ c <= Length(e.read)
             /\ \A i \in 1 .. n : e.forwarded[i] = KindAt(e.read, i)
             /\ e.asked \in BOOLEAN
             /\ IF e.asked THEN n < Length(e.read) ELSE n \in {0, Length(e.read)}
             /\ IF ByClient(e.read, n) THEN e.fromServer = <<>> ELSE e.fromClient = <<>>
             /\ \A i \in DOMAIN e.fromClient : e.fromClient[i] = Nth(x, e.read, c + i)
             /\ \A i \in DOMAIN e.fromServer : e.fromServer[i] = Nth(x, e.read, c + i)
             /\ Waiting(tm, x, e.read, n + 1, c)
             /\ e.fromClient \in Seq(PacketsOf(x, MinorKinds))
             /\ e.fromServer \in Seq(PacketsOf(x, MinorKinds \cup LastKinds))
             /\ e.forwarded \in Seq(AllKinds)
             /\ n = 0 => c = 0 /\ e.fromClient = <<>> /\ e.fromServer = <<>>
             /\ n = Length(e.read) => c = n /\ e.fromClient = <<>> /\ e.fromServer = <<>>
<1> DEFINE n == Len(e.forwarded)
           c == SentOff(e)
<1>1. /\ e.fromClient \in Seq(PacketsOf(x, MinorKinds))
      /\ e.fromServer \in Seq(PacketsOf(x, MinorKinds \cup LastKinds))
      /\ e.forwarded \in Seq(AllKinds) /\ e.asked \in BOOLEAN /\ e.read \in config.reads[x] \cup {FALSE}
  BY DEF EndsOf
<1>2. e.read \in BOOLEAN
  <2>1. config.reads[x] \subseteq BOOLEAN
    BY ProxyAssumption DEF Exchanges
  <2>2. QED
    BY <1>1, <2>1
<1>3. n \in Nat /\ Len(e.fromClient) \in Nat /\ Len(e.fromServer) \in Nat
  BY <1>1
<1>4. /\ n <= c /\ n <= Length(e.read)
      /\ \A i \in 1 .. n : e.forwarded[i] = KindAt(e.read, i)
      /\ IF e.asked THEN n < Length(e.read) ELSE n \in {0, Length(e.read)}
      /\ IF ByClient(e.read, n) THEN e.fromServer = <<>> ELSE e.fromClient = <<>>
      /\ \A i \in DOMAIN e.fromClient : e.fromClient[i] = Nth(x, e.read, c + i)
      /\ \A i \in DOMAIN e.fromServer : e.fromServer[i] = Nth(x, e.read, c + i)
      /\ Waiting(tm, x, e.read, n + 1, c)
  BY Zenon DEF Flow
<1>5. c = Made(e.read, n) - Len(e.fromClient) - Len(e.fromServer)
  BY DEF SentOff
<1> DEFINE L == Length(e.read)
           M == Made(e.read, n)
<1> HIDE DEF c, n, L, M
<1>6. L \in Nat /\ n \in 0 .. L
  BY <1>2, <1>3, <1>4, NthFacts DEF L
<1>7. M \in Nat /\ n <= M /\ M <= L /\ (n \in {0, L} => M = n)
  BY <1>2, <1>6, MadeFacts DEF M, L
<1>8. c \in Nat /\ c <= M /\ c <= L
  BY <1>3, <1>4, <1>5, <1>6, <1>7 DEF M, L
<1>9. ASSUME n \in {0, L}
      PROVE  c = n /\ e.fromClient = <<>> /\ e.fromServer = <<>>
  <2>1. c = n /\ Len(e.fromClient) = 0 /\ Len(e.fromServer) = 0
    BY <1>3, <1>4, <1>5, <1>7, <1>8, <1>9 DEF M
  <2>2. QED
    BY <1>1, <2>1
<1>10. QED
  BY <1>1, <1>2, <1>3, <1>4, <1>5, <1>7, <1>8, <1>9 DEF c, n, L, M

\* The next of its packets passes.
LEMMA FlowPassed ==
  ASSUME config \in Configurations, NEW tm, NEW x \in Exchanges, NEW e \in EndsOf(x), Flow(tm, e, x),
         Len(e.forwarded) < SentOff(e), NEW tms,
         Waiting(tms, x, e.read, Len(e.forwarded) + 2, SentOff(e)),
         NEW pkt, pkt.kind = KindAt(e.read, Len(e.forwarded) + 1),
         pkt.id = x * RidOffset + NumberAt(e.read, Len(e.forwarded) + 1)
  PROVE  Flow(tms, Passed(e, x, pkt), x)
<1> DEFINE n == Len(e.forwarded)
           c == SentOff(e)
           r == e.read
           new == Passed(e, x, pkt)
           L == Length(r)
           M == Made(r, n)
<1>1. /\ r \in BOOLEAN /\ n \in Nat /\ c \in Nat
      /\ Len(e.fromClient) \in Nat /\ Len(e.fromServer) \in Nat
      /\ c = M - Len(e.fromClient) - Len(e.fromServer)
      /\ n < c /\ n <= L /\ c <= M /\ c <= L
      /\ \A i \in 1 .. n : e.forwarded[i] = KindAt(r, i)
      /\ e.asked \in BOOLEAN
      /\ IF e.asked THEN n < L ELSE n \in {0, L}
      /\ IF ByClient(r, n) THEN e.fromServer = <<>> ELSE e.fromClient = <<>>
      /\ \A i \in DOMAIN e.fromClient : e.fromClient[i] = Nth(x, r, c + i)
      /\ \A i \in DOMAIN e.fromServer : e.fromServer[i] = Nth(x, r, c + i)
      /\ Waiting(tms, x, r, n + 2, c)
      /\ e.fromClient \in Seq(PacketsOf(x, MinorKinds))
      /\ e.fromServer \in Seq(PacketsOf(x, MinorKinds \cup LastKinds))
      /\ e.forwarded \in Seq(AllKinds)
      /\ n = 0 => c = 0
  <2> HIDE DEF n, c, r, L, M
  <2>1. n < c /\ Waiting(tms, x, r, n + 2, c)
    BY DEF n, c, r
  <2>2. QED
    BY <2>1, FlowFacts DEF n, c, r, L, M
<1>2. /\ new.asked \in BOOLEAN /\ (new.asked <=> e.asked /\ pkt.kind \notin LastKinds)
      /\ new.read = r
      /\ new.forwarded = Append(e.forwarded, pkt.kind)
      /\ new.fromClient = e.fromClient \o ClientAnswer(x, pkt)
      /\ new.fromServer = e.fromServer \o ServerAnswer(x, pkt)
  <2>1. new = Passed(e, x, pkt)
    OBVIOUS
  <2> HIDE DEF new
  <2> HIDE DEF n, c, L, M
  <2>2. new.asked \in BOOLEAN /\ (new.asked <=> e.asked /\ pkt.kind \notin LastKinds)
    BY <2>1, PassedFields
  <2>3. new.read = r /\ new.forwarded = Append(e.forwarded, pkt.kind)
    BY <2>1, PassedFields
  <2>4. new.fromClient = ClientLeft(e, x, pkt) /\ new.fromServer = ServerLeft(e, x, pkt)
    BY <2>1, PassedFields
  <2>5. QED
    BY <2>2, <2>3, <2>4, Zenon DEF ClientLeft, ServerLeft
<1> DEFINE P == Packets
<1>3. /\ L \in Nat /\ P \in Nat \ {0} /\ L = (IF r THEN P + 1 ELSE P + 3)
      /\ pkt.kind = KindAt(r, n + 1) /\ pkt.id = x * RidOffset + NumberAt(r, n + 1)
  BY <1>1, NthFacts
<1> HIDE DEF n, c, new, L, M, P, r
<1> DEFINE cl == Len(e.fromClient)
           sl == Len(e.fromServer)
<1>15. /\ cl \in Nat /\ sl \in Nat /\ c = M - cl - sl /\ n < c /\ n \in Nat /\ c \in Nat /\ P \in Nat
       /\ cl = 0 => e.fromClient = <<>>
       /\ sl = 0 => e.fromServer = <<>>
       /\ e.fromClient = <<>> => cl = 0
       /\ e.fromServer = <<>> => sl = 0
  BY <1>1, <1>3, ShortSequences
<1> HIDE DEF cl, sl
<1>4. n # 0 /\ n + 1 \in 1 .. L /\ n \in 0 .. L /\ n < L
  BY <1>1, <1>3
<1>5. /\ pkt.kind = KindAt(r, n + 1) /\ pkt.kind \in AllKinds
      /\ pkt.kind \in LastKinds <=> n + 1 = L
      /\ pkt.kind \notin RequestKinds
      /\ pkt.kind = "PFS_W_RESP" <=> ~r /\ n = 1
      /\ pkt.kind = "PFS_W_DATA_LAST" <=> ~r /\ n = P + 1
      /\ \A i \in 1 .. L : /\ Nth(x, r, i) \in PacketsOf(x, AllKinds)
  <2>1. /\ pkt.kind = KindAt(r, n + 1) /\ KindAt(r, n + 1) \in AllKinds
        /\ KindAt(r, n + 1) \in LastKinds <=> n + 1 = L
        /\ KindAt(r, n + 1) \in RequestKinds <=> n + 1 = 1
        /\ KindAt(r, n + 1) = "PFS_W_RESP" <=> ~r /\ n + 1 = 2
        /\ KindAt(r, n + 1) = "PFS_W_DATA_LAST" <=> ~r /\ n + 1 = P + 2
    <3>1. \A i \in 1 .. L :
            /\ KindAt(r, i) \in AllKinds
            /\ KindAt(r, i) \in LastKinds <=> i = L
            /\ KindAt(r, i) \in RequestKinds <=> i = 1
            /\ KindAt(r, i) = "PFS_W_RESP" <=> ~r /\ i = 2
            /\ KindAt(r, i) = "PFS_W_DATA_LAST" <=> ~r /\ i = P + 2
      BY <1>1, NthFacts DEF L, P
    <3>2. QED
      BY <1>3, <1>4, <3>1
  <2>2. \A i \in 1 .. L : Nth(x, r, i) \in PacketsOf(x, AllKinds)
    BY <1>1, NthFacts DEF L
  <2>3. QED
    BY <1>1, <1>3, <1>4, <2>1, <2>2
<1>6. Len(new.forwarded) = n + 1 /\ \A i \in 1 .. n + 1 : new.forwarded[i] = KindAt(r, i)
  <2>1. /\ Len(Append(e.forwarded, pkt.kind)) = n + 1 /\ Append(e.forwarded, pkt.kind)[n+1] = pkt.kind
        /\ \A i \in 1 .. n : Append(e.forwarded, pkt.kind)[i] = e.forwarded[i]
    <3> DEFINE f == e.forwarded
               kind == pkt.kind
    <3>1. f \in Seq(AllKinds) /\ kind \in AllKinds /\ n = Len(f)
      BY <1>1, <1>5 DEF n
    <3> HIDE DEF f, kind
    <3>2. /\ Len(Append(f, kind)) = n + 1 /\ Append(f, kind)[n+1] = kind
          /\ \A i \in 1 .. n : Append(f, kind)[i] = f[i]
      BY <3>1, ShortSequences
    <3>3. QED
      BY <3>2 DEF f, kind
  <2>2. \A i \in 1 .. n + 1 : i = n + 1 \/ i \in 1 .. n
    BY <1>1
  <2>3. QED
    BY <1>1, <1>2, <1>5, <2>1, <2>2
<1>7. IF new.asked THEN n + 1 < L ELSE n + 1 \in {0, L}
  <2>1. e.asked
    BY <1>1, <1>4
  <2>2. new.asked <=> n + 1 # L
    BY <1>2, <1>5, <2>1, Zenon
  <2>3. CASE n + 1 = L
    BY <2>2, <2>3
  <2>4. CASE n + 1 # L
    <3>1. n + 1 < L
      BY <1>3, <1>4, <2>4
    <3>2. QED
      BY <2>2, <2>4, <3>1
  <2>5. QED
    BY <2>3, <2>4
<1>8. /\ Made(r, n + 1) = M + (IF ~r /\ n = 1 THEN P ELSE 0) + (IF ~r /\ n = P + 1 THEN 1 ELSE 0)
      /\ M \in Nat /\ Made(r, 1) = 1 + (IF r THEN P ELSE 1)
      /\ ByClient(r, n) => M = P + 2
  BY <1>1, <1>4, MadeFacts DEF M, L, P
<1>9. /\ ~r /\ n = 1 => ClientAnswer(x, pkt) = WriteData(x)
      /\ ~(~r /\ n = 1) => ClientAnswer(x, pkt) = <<>>
      /\ ~r /\ n = P + 1 => ServerAnswer(x, pkt) = <<[kind |-> "PFS_W_FIN", id |-> pkt.id]>>
      /\ ~(~r /\ n = P + 1) => ServerAnswer(x, pkt) = <<>>
  BY <1>5 DEF ClientAnswer, ServerAnswer, RequestKinds
<1> DEFINE cn == SentOff(new)
<1>10. cn = Made(r, n + 1) - Len(new.fromClient) - Len(new.fromServer)
  BY <1>2, <1>6 DEF SentOff
<1> HIDE DEF cn
<1>11. /\ cn = c
       /\ IF ByClient(r, n + 1) THEN new.fromServer = <<>> ELSE new.fromClient = <<>>
       /\ \A i \in DOMAIN new.fromClient : new.fromClient[i] = Nth(x, r, c + i)
       /\ \A i \in DOMAIN new.fromServer : new.fromServer[i] = Nth(x, r, c + i)
  <2>1. CASE ~r /\ n = 1
    <3>1. M = 2
      BY <1>8, <2>1 DEF M
    <3>2. e.fromClient = <<>> /\ e.fromServer = <<>> /\ c = 2
      <4>1. ~ByClient(r, n)
        BY <2>1 DEF ByClient
      <4>2. e.fromClient = <<>>
        BY <1>1, <4>1, Zenon
      <4>3. sl = 0 /\ c = 2
        BY <1>15, <2>1, <3>1, <4>2
      <4>4. QED
        BY <1>15, <4>2, <4>3
    <3>3. WriteData(x) \in Seq(PacketsOf(x, MinorKinds)) /\ Len(WriteData(x)) = P
      BY DataFacts, DataPlaces DEF P
    <3>4. n # P + 1
      BY <1>3, <2>1
    <3>5. new.fromClient = WriteData(x) /\ new.fromServer = <<>>
      BY <1>1, <1>2, <1>9, <2>1, <3>2, <3>3, <3>4
    <3>6. cn = c
      BY <1>3, <1>8, <1>10, <2>1, <3>1, <3>2, <3>3, <3>4, <3>5
    <3>7. ByClient(r, n + 1)
      BY <1>3, <2>1 DEF ByClient, P
    <3>8. \A i \in DOMAIN new.fromClient : new.fromClient[i] = Nth(x, r, c + i)
      <4>1. ASSUME NEW i \in 1 .. P
            PROVE  WriteData(x)[i] = Nth(x, r, 2 + i)
        <5>1. WriteData(x)[i] = Nth(x, FALSE, i + 2)
          BY DataPlaces DEF P
        <5>2. i + 2 = 2 + i /\ r = FALSE
          BY <1>1, <1>3, <2>1
        <5>3. QED
          BY <5>1, <5>2
      <4>2. DOMAIN new.fromClient = 1 .. P
        BY <3>3, <3>5
      <4>3. QED
        BY <3>2, <3>5, <4>1, <4>2
    <3>9. QED
      BY <3>5, <3>6, <3>7, <3>8
  <2>2. CASE ~r /\ n = P + 1
    <3>1. ByClient(r, n) /\ ~ByClient(r, n + 1) /\ n # 1
      BY <1>3, <2>2 DEF ByClient, P
    <3>2. e.fromClient = <<>> /\ e.fromServer = <<>> /\ c = P + 2
      <4>1. M = P + 2
        BY <1>8, <3>1
      <4>2. e.fromServer = <<>>
        BY <1>1, <3>1, Zenon
      <4>3. cl = 0 /\ c = P + 2
        BY <1>15, <2>2, <4>1, <4>2
      <4>4. QED
        BY <1>15, <4>2, <4>3
    <3> DEFINE fin == [kind |-> "PFS_W_FIN", id |-> pkt.id]
    <3>3. new.fromClient = <<>> /\ new.fromServer = <<fin>>
      <4> HIDE DEF fin
      <4>1. ClientAnswer(x, pkt) = <<>> /\ ServerAnswer(x, pkt) = <<fin>>
        BY <1>9, <2>2, <3>1 DEF fin
      <4>2. QED
        BY <1>2, <3>2, <4>1
    <3>4. fin = Nth(x, r, P + 3)
      <4>1. NumberAt(r, P + 3) = P /\ NumberAt(r, P + 2) = P /\ KindAt(r, P + 3) = "PFS_W_FIN"
        <5>1. r = FALSE /\ Packets \in Nat \ {0}
          BY <1>1, <1>3, <2>2 DEF P
        <5>2. NumberAt(FALSE, Packets + 3) = Packets /\ KindAt(FALSE, Packets + 3) = "PFS_W_FIN"
          BY <5>1 DEF NumberAt, KindAt
        <5>3. NumberAt(FALSE, Packets + 2) = Packets
          BY <5>1 DEF NumberAt
        <5>4. QED
          BY <5>1, <5>2, <5>3 DEF P
      <4>2. n + 1 = P + 2
        BY <1>3, <2>2
      <4>3. pkt.id = x * RidOffset + NumberAt(r, P + 2)
        BY <1>3, <4>2
      <4>4. QED
        BY <4>1, <4>3 DEF Nth
    <3> HIDE DEF fin
    <3>5. Len(new.fromServer) = 1 /\ DOMAIN new.fromServer = {1} /\ new.fromServer[1] = fin
      BY <3>3
    <3>6. Len(new.fromClient) = 0 /\ DOMAIN new.fromClient = {}
      BY <3>3
    <3>7. M = P + 2
      BY <1>8, <3>1
    <3>8. cn = c
      BY <1>3, <1>8, <1>10, <2>2, <3>1, <3>2, <3>5, <3>6, <3>7
    <3>9. c + 1 = P + 3
      BY <1>3, <3>2
    <3>10. QED
      BY <3>1, <3>3, <3>4, <3>5, <3>6, <3>8, <3>9
  <2>3. CASE ~(~r /\ n = 1) /\ ~(~r /\ n = P + 1)
    <3>1. new.fromClient = e.fromClient /\ new.fromServer = e.fromServer
      <4>1. new.fromClient = e.fromClient \o <<>> /\ new.fromServer = e.fromServer \o <<>>
        BY <1>2, <1>9, <2>3
      <4>2. QED
        BY <1>1, <4>1, ShortSequences
    <3>2. ByClient(r, n + 1) <=> ByClient(r, n)
      BY <1>1, <1>3, <1>4, <2>3 DEF ByClient, P
    <3>3. Made(r, n + 1) = M
      BY <1>8, <2>3
    <3>4. QED
      BY <1>1, <1>10, <3>1, <3>2, <3>3
  <2>4. QED
    BY <2>1, <2>2, <2>3
<1>12. Waiting(tms, x, r, (n + 1) + 1, c)
  <2>1. (n + 1) + 1 = n + 2
    BY <1>1
  <2>2. QED
    BY <1>1, <2>1
<1>13. n + 1 <= c /\ n + 1 <= L
  BY <1>1, <1>3
<1>14. QED
  BY <1>2, <1>6, <1>7, <1>11, <1>12, <1>13, Zenon DEF Flow, cn, L, new

\* Its request goes to the server.
LEMMA FlowRequested ==
  ASSUME config \in Configurations, NEW tm, NEW x \in Exchanges, NEW e \in EndsOf(x), Flow(tm, e, x),
         Len(e.forwarded) = 0, e.asked,
         NEW pkt, pkt.kind = KindAt(e.read, 1), pkt.id = x * RidOffset
  PROVE  Flow(tm, Passed(e, x, pkt), x)
<1> DEFINE r == e.read
           new == Passed(e, x, pkt)
           L == Length(r)
           P == Packets
<1>1. /\ r \in BOOLEAN /\ e.fromClient = <<>> /\ e.fromServer = <<>> /\ SentOff(e) = 0
      /\ e.forwarded = <<>> /\ Waiting(tm, x, r, 1, 0)
  <2>1. /\ r \in BOOLEAN /\ e.fromClient = <<>> /\ e.fromServer = <<>> /\ SentOff(e) = 0
        /\ e.forwarded \in Seq(AllKinds) /\ Waiting(tm, x, r, Len(e.forwarded) + 1, SentOff(e))
    BY FlowFacts
  <2>2. Len(e.forwarded) + 1 = 1
    OBVIOUS
  <2>3. QED
    BY <2>1, <2>2, ShortSequences
<1>2. L \in Nat /\ L >= 2 /\ P \in Nat \ {0} /\ L = IF r THEN P + 1 ELSE P + 3
  BY <1>1, NthFacts
<1>3. /\ pkt.kind = IF r THEN "PFS_R_REQ" ELSE "PFS_W_REQ"
      /\ pkt.kind \notin LastKinds /\ pkt.kind = KindAt(r, 1)
  <2>1. KindAt(TRUE, 1) = "PFS_R_REQ" /\ KindAt(FALSE, 1) = "PFS_W_REQ"
    BY <1>2 DEF KindAt, P
  <2> HIDE DEF r
  <2>2. pkt.kind = KindAt(r, 1)
    BY DEF r
  <2>3. CASE r = TRUE
    BY <2>1, <2>2, <2>3 DEF LastKinds
  <2>4. CASE r = FALSE
    BY <2>1, <2>2, <2>4 DEF LastKinds
  <2>5. QED
    BY <1>1, <2>3, <2>4
<1>4. /\ new.read = r /\ new.asked /\ new.forwarded = Append(e.forwarded, pkt.kind)
      /\ new.fromClient = e.fromClient \o ClientAnswer(x, pkt)
      /\ new.fromServer = e.fromServer \o ServerAnswer(x, pkt)
  <2>1. new = Passed(e, x, pkt)
    OBVIOUS
  <2> HIDE DEF new
  <2>2. new.asked
    BY <1>3, <2>1, PassedFields
  <2>3. new.read = r /\ new.forwarded = Append(e.forwarded, pkt.kind)
    BY <2>1, PassedFields
  <2>4. new.fromClient = ClientLeft(e, x, pkt) /\ new.fromServer = ServerLeft(e, x, pkt)
    BY <2>1, PassedFields
  <2>5. QED
    BY <2>2, <2>3, <2>4, Zenon DEF ClientLeft, ServerLeft
<1> DEFINE answer == IF r THEN ReadData(x) ELSE <<Nth(x, r, 2)>>
<1>5. ClientAnswer(x, pkt) = <<>> /\ ServerAnswer(x, pkt) = answer
  <2>1. ClientAnswer(x, pkt) = <<>>
    BY <1>1, <1>3 DEF ClientAnswer
  <2>2. CASE r
    <3>1. pkt.kind = "PFS_R_REQ"
      BY <1>3, <2>2
    <3>2. ServerAnswer(x, pkt) = ReadData(x)
      BY <3>1 DEF ServerAnswer
    <3>3. QED
      BY <2>1, <2>2, <3>2
  <2>3. CASE ~r
    <3>1. r = FALSE /\ pkt.kind = "PFS_W_REQ"
      BY <1>1, <1>3, <2>3
    <3>2. KindAt(r, 2) = "PFS_W_RESP" /\ x * RidOffset + NumberAt(r, 2) = x * RidOffset
      <4>1. KindAt(FALSE, 2) = "PFS_W_RESP" /\ NumberAt(FALSE, 2) = 0
        BY <1>2 DEF KindAt, NumberAt, P
      <4>2. x * RidOffset + 0 = x * RidOffset
        <5>1. x * RidOffset \in Nat
          BY ExchangeFacts
        <5>2. QED
          BY <5>1
      <4> HIDE DEF r
      <4>3. QED
        BY <3>1, <4>1, <4>2
    <3>3. Nth(x, r, 2) = [kind |-> "PFS_W_RESP", id |-> pkt.id]
      BY <3>2 DEF Nth
    <3> HIDE DEF r
    <3>4. ServerAnswer(x, pkt) = <<[kind |-> "PFS_W_RESP", id |-> pkt.id]>>
      BY <3>1 DEF ServerAnswer
    <3>5. QED
      BY <2>1, <2>3, <3>3, <3>4
  <2>4. QED
    BY <2>1, <2>2, <2>3
<1>6. /\ Len(answer) = IF r THEN P ELSE 1
      /\ answer \in Seq(PacketsOf(x, AllKinds))
      /\ \A i \in DOMAIN answer : answer[i] = Nth(x, r, 1 + i)
  <2>1. CASE r
    <3>1. /\ answer = ReadData(x) /\ Len(answer) = P
          /\ ReadData(x) \in Seq(PacketsOf(x, MinorKinds \cup LastKinds))
          /\ \A i \in 1 .. P : ReadData(x)[i] = Nth(x, TRUE, i + 1)
      BY <2>1, DataFacts, DataPlaces
    <3>2. r = TRUE
      BY <1>1, <2>1
    <3> HIDE DEF answer, r, P
    <3>3. DOMAIN answer = 1 .. P /\ Len(answer) = P
      BY <3>1
    <3>4. \A i \in 1 .. P : i + 1 = 1 + i
      BY <1>2
    <3>5. \A i \in DOMAIN answer : answer[i] = Nth(x, r, 1 + i)
      BY <3>1, <3>2, <3>3, <3>4
    <3>6. answer \in Seq(PacketsOf(x, AllKinds))
      <4>1. \A i \in 1 .. P : answer[i] \in PacketsOf(x, AllKinds)
        <5>1. \A i \in 1 .. P : answer[i] \in PacketsOf(x, MinorKinds \cup LastKinds)
          BY <3>1, <3>3
        <5>2. QED
          BY <5>1 DEF PacketsOf, AllKinds
      <4>2. QED
        BY <3>1, <3>3, <4>1
    <3>7. QED
      BY <2>1, <3>3, <3>5, <3>6
  <2>2. CASE ~r
    <3> DEFINE p == Nth(x, r, 2)
    <3>1. answer = <<p>>
      BY <2>2
    <3>2. p \in PacketsOf(x, AllKinds)
      BY <1>1, <1>2, NthFacts
    <3>3. p = Nth(x, r, 1 + 1)
      OBVIOUS
    <3> HIDE DEF p, answer
    <3>4. QED
      BY <2>2, <3>1, <3>2, <3>3
  <2>3. QED
    BY <2>1, <2>2
<1> HIDE DEF answer, new, L, P, r
<1>7. new.fromClient = <<>> /\ new.fromServer = answer /\ new.forwarded = <<pkt.kind>>
  <2>1. <<>> \o answer = answer
    BY <1>6, ShortSequences
  <2>2. new.fromClient = <<>> \o <<>> /\ new.fromServer = <<>> \o answer
    BY <1>1, <1>4, <1>5
  <2>3. new.forwarded = Append(<<>>, pkt.kind)
    BY <1>1, <1>4
  <2>4. QED
    BY <2>1, <2>2, <2>3
<1>8. Len(new.forwarded) = 1 /\ new.forwarded[1] = pkt.kind /\ Len(new.fromClient) = 0
  BY <1>7
<1>9. Made(r, 1) = 1 + IF r THEN P ELSE 1
  <2>1. 0 \in 0 .. Length(r)
    BY <1>2 DEF L
  <2>2. QED
    BY <1>1, <2>1, MadeFacts DEF P
<1>10. SentOff(new) = 1
  <2>1. SentOff(new) = Made(r, 1) - 0 - Len(answer)
    BY <1>4, <1>7, <1>8 DEF SentOff
  <2>2. QED
    BY <1>2, <1>6, <1>9, <2>1
<1>11. ~ByClient(r, 1)
  BY DEF ByClient
<1>12. Waiting(tm, x, r, 1 + 1, 1)
  <2>1. 1 .. 0 = {} /\ (1 + 1) .. 1 = {}
    OBVIOUS
  <2>2. \A k \in DOMAIN tm : ~Later(tm[k], x)
    BY <1>1, <2>1 DEF Waiting
  <2>3. QED
    BY <2>1, <2>2 DEF Waiting
<1>13. \A i \in 1 .. 1 : new.forwarded[i] = KindAt(r, i)
  BY <1>3, <1>8
<1>14. \A i \in DOMAIN new.fromClient : new.fromClient[i] = Nth(x, r, 1 + i)
  BY <1>7
<1>15. 1 <= 1 /\ 1 <= L /\ 1 < L
  BY <1>2
<1>16. \A i \in DOMAIN new.fromServer : new.fromServer[i] = Nth(x, r, 1 + i)
  BY <1>6, <1>7
<1>17. IF new.asked THEN 1 < L ELSE 1 \in {0, L}
  BY <1>4, <1>15
<1>18. IF ByClient(r, 1) THEN new.fromServer = <<>> ELSE new.fromClient = <<>>
  BY <1>7, <1>11
<1> DEFINE n == Len(new.forwarded)
           c == SentOff(new)
<1>19. n = 1 /\ c = 1 /\ new.read = r
  BY <1>4, <1>8, <1>10
<1> HIDE DEF n, c
<1>20. /\ n <= c /\ n <= Length(r)
       /\ \A i \in 1 .. n : new.forwarded[i] = KindAt(r, i)
       /\ IF new.asked THEN n < Length(r) ELSE n \in {0, Length(r)}
       /\ IF ByClient(r, n) THEN new.fromServer = <<>> ELSE new.fromClient = <<>>
       /\ \A i \in DOMAIN new.fromClient : new.fromClient[i] = Nth(x, r, c + i)
       /\ \A i \in DOMAIN new.fromServer : new.fromServer[i] = Nth(x, r, c + i)
       /\ Waiting(tm, x, r, n + 1, c)
  BY <1>12, <1>13, <1>14, <1>15, <1>16, <1>17, <1>18, <1>19 DEF L
<1>21. QED
  BY <1>19, <1>20, Zenon DEF Flow, n, c, new

\* One of its ends sends a packet, which joins those that wait.
LEMMA FlowSent ==
  ASSUME config \in Configurations, NEW tm \in Seq(SelfMessages), NEW x \in Exchanges,
         NEW e \in EndsOf(x), Flow(tm, e, x), NEW t \in SelfMessages, Later(t, x),
         NEW new, new.asked = e.asked, new.read = e.read, new.forwarded = e.forwarded,
         \/ /\ e.fromClient # <<>> /\ t.packet = Head(e.fromClient)
            /\ new.fromClient = Tail(e.fromClient) /\ new.fromServer = e.fromServer
         \/ /\ e.fromServer # <<>> /\ t.packet = Head(e.fromServer)
            /\ new.fromServer = Tail(e.fromServer) /\ new.fromClient = e.fromClient
  PROVE  Flow(Append(tm, t), new, x)
<1> DEFINE n == Len(e.forwarded)
           c == SentOff(e)
           r == e.read
           L == Length(r)
           M == Made(r, n)
           cl == Len(e.fromClient)
           sl == Len(e.fromServer)
<1>1. /\ r \in BOOLEAN /\ n \in Nat /\ c \in Nat /\ cl \in Nat /\ sl \in Nat
      /\ c = M - cl - sl /\ n <= c /\ n <= L /\ c <= M /\ c <= L
      /\ \A i \in 1 .. n : e.forwarded[i] = KindAt(r, i)
      /\ IF e.asked THEN n < L ELSE n \in {0, L}
      /\ IF ByClient(r, n) THEN e.fromServer = <<>> ELSE e.fromClient = <<>>
      /\ \A i \in DOMAIN e.fromClient : e.fromClient[i] = Nth(x, r, c + i)
      /\ \A i \in DOMAIN e.fromServer : e.fromServer[i] = Nth(x, r, c + i)
      /\ Waiting(tm, x, r, n + 1, c)
      /\ e.fromClient \in Seq(PacketsOf(x, MinorKinds))
      /\ e.fromServer \in Seq(PacketsOf(x, MinorKinds \cup LastKinds))
  <2> HIDE DEF n, c, r, L, M, cl, sl
  <2>1. QED
    BY FlowFacts DEF n, c, r, L, M, cl, sl
<1>2. L \in Nat /\ M \in Nat /\ M <= L
  <2>1. L \in Nat
    BY <1>1, NthFacts
  <2>2. n \in 0 .. L
    BY <1>1, <2>1
  <2>3. QED
    BY <1>1, <2>1, <2>2, MadeFacts
<1> HIDE DEF n, c, L, M, r
<1>3. ASSUME NEW S, NEW s \in Seq(S), s # <<>>,
             \A i \in DOMAIN s : s[i] = Nth(x, r, c + i)
      PROVE  /\ Len(Tail(s)) = Len(s) - 1 /\ Len(s) \in Nat \ {0} /\ Head(s) = Nth(x, r, c + 1)
             /\ \A i \in DOMAIN Tail(s) : Tail(s)[i] = Nth(x, r, (c + 1) + i)
  <2>1. /\ Len(s) \in Nat \ {0} /\ DOMAIN s = 1 .. Len(s) /\ Head(s) = s[1]
        /\ Tail(s) \in Seq(S) /\ Len(Tail(s)) = Len(s) - 1 /\ DOMAIN Tail(s) = 1 .. Len(s) - 1
        /\ \A i \in 1 .. Len(s) - 1 : Tail(s)[i] = s[i+1]
    BY <1>3
  <2>2. 1 \in DOMAIN s
    BY <2>1
  <2>3. \A i \in 1 .. Len(s) - 1 : i + 1 \in DOMAIN s /\ c + (i + 1) = (c + 1) + i
    BY <1>1, <2>1
  <2>4. QED
    BY <1>3, <2>1, <2>2, <2>3
<1> DEFINE cn == SentOff(new)
<1>4. cn = M - Len(new.fromClient) - Len(new.fromServer)
  BY DEF SentOff, M, r, n
<1> HIDE DEF cn
<1>5. /\ cn = c + 1 /\ t.packet = Nth(x, r, c + 1) /\ c < L
      /\ IF ByClient(r, n) THEN new.fromServer = <<>> ELSE new.fromClient = <<>>
      /\ \A i \in DOMAIN new.fromClient : new.fromClient[i] = Nth(x, r, (c + 1) + i)
      /\ \A i \in DOMAIN new.fromServer : new.fromServer[i] = Nth(x, r, (c + 1) + i)
  <2>1. CASE /\ e.fromClient # <<>> /\ t.packet = Head(e.fromClient)
             /\ new.fromClient = Tail(e.fromClient) /\ new.fromServer = e.fromServer
    <3>1. /\ Len(Tail(e.fromClient)) = cl - 1 /\ cl \in Nat \ {0}
          /\ Head(e.fromClient) = Nth(x, r, c + 1)
          /\ \A i \in DOMAIN Tail(e.fromClient) : Tail(e.fromClient)[i] = Nth(x, r, (c + 1) + i)
      BY <1>1, <1>3, <2>1
    <3>2. ByClient(r, n) /\ e.fromServer = <<>>
      BY <1>1, <2>1, Zenon
    <3> HIDE DEF cl, sl
    <3>3. cn = M - (cl - 1) - sl
      BY <1>4, <2>1, <3>1 DEF sl
    <3>4. cn = c + 1 /\ c < L
      BY <1>1, <1>2, <3>1, <3>3
    <3>5. \A i \in DOMAIN new.fromServer : new.fromServer[i] = Nth(x, r, (c + 1) + i)
      BY <2>1, <3>2
    <3>6. QED
      BY <2>1, <3>1, <3>2, <3>4, <3>5
  <2>2. CASE /\ e.fromServer # <<>> /\ t.packet = Head(e.fromServer)
             /\ new.fromServer = Tail(e.fromServer) /\ new.fromClient = e.fromClient
    <3>1. /\ Len(Tail(e.fromServer)) = sl - 1 /\ sl \in Nat \ {0}
          /\ Head(e.fromServer) = Nth(x, r, c + 1)
          /\ \A i \in DOMAIN Tail(e.fromServer) : Tail(e.fromServer)[i] = Nth(x, r, (c + 1) + i)
      BY <1>1, <1>3, <2>2
    <3>2. ~ByClient(r, n) /\ e.fromClient = <<>>
      BY <1>1, <2>2, Zenon
    <3> HIDE DEF cl, sl
    <3>3. cn = M - cl - (sl - 1)
      BY <1>4, <2>2, <3>1 DEF cl
    <3>4. cn = c + 1 /\ c < L
      BY <1>1, <1>2, <3>1, <3>3
    <3>5. \A i \in DOMAIN new.fromClient : new.fromClient[i] = Nth(x, r, (c + 1) + i)
      BY <2>2, <3>2
    <3>6. QED
      BY <2>2, <3>1, <3>2, <3>4, <3>5
  <2>3. QED
    BY <2>1, <2>2
<1>6. Waiting(Append(tm, t), x, r, n + 1, c + 1)
  <2>1. n + 1 \in Nat \ {0} /\ n + 1 <= c + 1
    BY <1>1
  <2>2. QED
    BY <1>1, <1>5, <2>1, WaitingJoined DEF L
<1>7. n <= c + 1
  BY <1>1
<1>8. new.read = r /\ new.forwarded = e.forwarded /\ Len(new.forwarded) = n
  BY DEF r, n
<1>9. QED
  BY <1>1, <1>5, <1>6, <1>7, <1>8, Zenon DEF Flow, cn, L

\* Which packets wait for which processing time.
LEMMA WaitingKinds ==
  ASSUME config \in Configurations, NEW t \in SelfMessages, NEW x \in Exchanges, Later(t, x),
         NEW read \in BOOLEAN, NEW i \in 1 .. Length(read), t.packet = Nth(x, read, i)
  PROVE  (i = Length(read) <=> Delay(t.self) = "finjob") /\ (i # Length(read) <=> Delay(t.self) = "newjob")
<1>1. t.packet.kind = KindAt(read, i) /\ (KindAt(read, i) \in LastKinds <=> i = Length(read))
  BY NthFacts
<1>2. t.self # "SELF_REQ" /\ t.self \in {"SELF_REQ", "SELF_MINOR", "SELF_FIN"}
  BY DEF Later, SelfMessages
<1>3. CASE t.self = "SELF_MINOR"
  <2>1. PICK y \in Exchanges : t.packet \in PacketsOf(y, MinorKinds)
    BY <1>3, SelfMessageFacts
  <2>2. t.packet.kind \in MinorKinds
    BY <2>1 DEF PacketsOf
  <2>3. t.packet.kind \notin LastKinds
    BY <2>2 DEF MinorKinds, LastKinds
  <2>4. Delay(t.self) = "newjob"
    BY <1>3 DEF Delay
  <2>5. QED
    BY <1>1, <2>3, <2>4
<1>4. CASE t.self = "SELF_FIN"
  <2>1. PICK y \in Exchanges : t.packet \in PacketsOf(y, LastKinds)
    BY <1>4, SelfMessageFacts
  <2>2. t.packet.kind \in LastKinds
    BY <2>1 DEF PacketsOf
  <2>3. Delay(t.self) = "finjob"
    BY <1>4 DEF Delay
  <2>4. QED
    BY <1>1, <2>2, <2>3
<1>5. QED
  BY <1>2, <1>3, <1>4

\* What a server sends waits for nothing of its exchange, nor does what a client sends if
\* newjob_proc_time is 0.
LEMMA NothingAhead ==
  ASSUME config \in Configurations, NEW tm \in Seq(SelfMessages), NEW x \in Exchanges,
         NEW e \in EndsOf(x), Flow(tm, e, x), Ordered(e), OnlyDelayed(tm),
         \/ e.fromServer # <<>>
         \/ e.fromClient # <<>> /\ "newjob" \notin Delays
  PROVE  SentOff(e) = Len(e.forwarded)
<1> DEFINE n == Len(e.forwarded)
           c == SentOff(e)
           r == e.read
           L == Length(r)
           M == Made(r, n)
           cl == Len(e.fromClient)
           sl == Len(e.fromServer)
<1>1. /\ r \in BOOLEAN /\ n \in Nat /\ c \in Nat /\ cl \in Nat /\ sl \in Nat
      /\ c = M - cl - sl /\ n <= c /\ n <= L /\ c <= M /\ c <= L
      /\ IF ByClient(r, n) THEN e.fromServer = <<>> ELSE e.fromClient = <<>>
      /\ Waiting(tm, x, r, n + 1, c)
      /\ e.fromClient \in Seq(PacketsOf(x, MinorKinds))
      /\ e.fromServer \in Seq(PacketsOf(x, MinorKinds \cup LastKinds))
  <2> HIDE DEF n, c, r, L, M, cl, sl
  <2>1. QED
    BY FlowFacts DEF n, c, r, L, M, cl, sl
<1>2. (cl = 0 => e.fromClient = <<>>) /\ (sl = 0 => e.fromServer = <<>>)
  BY <1>1, ShortSequences
<1>3. L \in Nat /\ M \in Nat /\ M <= L /\ (~r /\ ~ByClient(r, n) => M <= n + 1)
  <2>1. L \in Nat
    BY <1>1, NthFacts
  <2>2. n \in 0 .. L
    BY <1>1, <2>1
  <2>3. QED
    BY <1>1, <2>1, <2>2, MadeFacts
<1>4. "newjob" \notin Delays \/ ~r
  BY DEF Ordered
<1> HIDE DEF n, c, r, L, M, cl, sl
<1>5. cl + sl >= 1
  BY <1>1, <1>2
<1>6. ASSUME n < c, "newjob" \notin Delays
      PROVE  FALSE
  <2>1. n + 1 \in n + 1 .. c /\ n + 1 \in 1 .. L
    BY <1>1, <1>3, <1>6
  <2>2. PICK k \in DOMAIN tm : Later(tm[k], x) /\ tm[k].packet = Nth(x, r, n + 1)
    BY <1>1, <2>1, Zenon DEF Waiting
  <2>3. Delay(tm[k].self) # "newjob"
    BY <1>6 DEF OnlyDelayed
  <2>4. tm[k] \in SelfMessages
    OBVIOUS
  <2>5. n + 1 = L
    BY <1>1, <2>1, <2>2, <2>3, <2>4, WaitingKinds DEF L
  <2>6. QED
    BY <1>1, <1>3, <1>5, <1>6, <2>5
<1>7. ASSUME n < c, e.fromServer # <<>>, ~r
      PROVE  FALSE
  <2>1. ~ByClient(r, n)
    BY <1>1, <1>7, Zenon
  <2>2. M <= n + 1
    BY <1>3, <1>7, <2>1
  <2>3. QED
    BY <1>1, <1>3, <1>5, <1>7, <2>2
<1>8. ~(n < c)
  BY <1>4, <1>6, <1>7
<1>9. QED
  BY <1>1, <1>8 DEF n, c

\* The first message of its processing time to come is the next packet of its exchange.
LEMMA FirstIsNext ==
  ASSUME config \in Configurations, NEW tm \in Seq(SelfMessages), NEW x \in Exchanges,
         NEW e \in EndsOf(x), Flow(tm, e, x), Ordered(e), OnlyDelayed(tm),
         NEW k \in DOMAIN tm, Later(tm[k], x),
         \A j \in 1 .. k - 1 : Delay(tm[j].self) # Delay(tm[k].self)
  PROVE  tm[k].packet = Nth(x, e.read, Len(e.forwarded) + 1)
<1> DEFINE n == Len(e.forwarded)
           c == SentOff(e)
           r == e.read
           L == Length(r)
           M == Made(r, n)
           N(i) == Nth(x, r, i)
<1>1. /\ r \in BOOLEAN /\ n \in Nat /\ c \in Nat /\ n <= c /\ n <= L /\ c <= M /\ c <= L
      /\ Waiting(tm, x, r, n + 1, c)
  <2> HIDE DEF n, c, r, L, M
  <2>1. QED
    BY FlowFacts DEF n, c, r, L, M
<1>2. /\ L \in Nat /\ M \in Nat /\ (~r /\ n < Packets + 2 => M < L) /\ Packets \in Nat
      /\ L = IF r THEN Packets + 1 ELSE Packets + 3
  <2>1. L \in Nat /\ Packets \in Nat /\ L = IF r THEN Packets + 1 ELSE Packets + 3
    BY <1>1, NthFacts
  <2>2. n \in 0 .. L
    BY <1>1, <2>1
  <2>3. QED
    BY <1>1, <2>1, <2>2, MadeFacts
<1>3. /\ \A j \in DOMAIN tm : Later(tm[j], x) => \E i \in n + 1 .. c : tm[j].packet = N(i)
      /\ \A i \in n + 1 .. c : \E j \in DOMAIN tm : Later(tm[j], x) /\ tm[j].packet = N(i)
      /\ \A h, j \in DOMAIN tm : \A g, i \in n + 1 .. c :
           h < j /\ Later(tm[h], x) /\ Later(tm[j], x) /\ tm[h].packet = N(g) /\ tm[j].packet = N(i)
           => g < i
  BY <1>1, Zenon DEF Waiting, N
<1>4. \A i, j \in 1 .. L : N(i) = N(j) => i = j
  BY <1>1, NthFacts
<1>5. "newjob" \notin Delays \/ ~r
  BY DEF Ordered
<1>6. DOMAIN tm = 1 .. Len(tm) /\ Len(tm) \in Nat
  OBVIOUS
<1>7. \A j \in DOMAIN tm : tm[j] \in SelfMessages /\ Delay(tm[j].self) \in Delays
  BY DEF OnlyDelayed
<1> HIDE DEF n, c, r, L, M
<1>8. ASSUME NEW j \in DOMAIN tm, Later(tm[j], x), NEW i \in n + 1 .. c, tm[j].packet = N(i)
      PROVE  (i = L <=> Delay(tm[j].self) = "finjob") /\ (i # L <=> Delay(tm[j].self) = "newjob")
  <2>1. i \in 1 .. L
    BY <1>1, <1>2
  <2>2. QED
    BY <1>1, <1>7, <1>8, <2>1, WaitingKinds DEF L
<1> HIDE DEF N
<1>9. PICK i \in n + 1 .. c : tm[k].packet = N(i)
  BY <1>3
<1>10. i = n + 1
  <2> SUFFICES ASSUME i # n + 1 PROVE FALSE
    OBVIOUS
  <2>1. n + 1 < i /\ n + 1 \in n + 1 .. c /\ i \in 1 .. L /\ n + 1 \in 1 .. L
    BY <1>1, <1>2, <1>9
  <2>2. PICK j \in DOMAIN tm : Later(tm[j], x) /\ tm[j].packet = N(n + 1)
    BY <1>3, <2>1
  <2>3. j # k
    BY <1>4, <1>9, <2>1, <2>2
  <2>4. ~(k < j)
    <3>1. ~(i < n + 1)
      BY <1>1, <2>1
    <3>2. QED
      BY <1>3, <1>9, <2>1, <2>2, <3>1
  <2>5. j \in 1 .. k - 1
    BY <1>6, <2>3, <2>4
  <2>6. Delay(tm[j].self) # Delay(tm[k].self)
    BY <2>5
  <2>7. n + 1 # L
    BY <1>1, <1>2, <2>1
  <2>8. Delay(tm[j].self) = "newjob"
    BY <1>8, <2>1, <2>2, <2>7
  <2>9. i = L
    BY <1>8, <1>9, <2>6, <2>8
  <2>10. ~r
    BY <1>5, <1>7, <2>8
  <2>11. c = L /\ M >= L
    BY <1>1, <1>2, <2>9
  <2>12. ~(n < Packets + 2)
    BY <1>2, <2>10, <2>11
  <2>13. QED
    BY <1>1, <1>2, <2>1, <2>10, <2>12
<1>11. QED
  BY <1>9, <1>10 DEF N, n, r

-----------------------------------------------------------------------------
(* All exchanges. *)

\* Other messages wait, but the same of exchange x.
LEMMA FlowWaiting ==
  ASSUME NEW tm, NEW tms, NEW e, NEW x, Flow(tm, e, x),
         Waiting(tm, x, e.read, Len(e.forwarded) + 1, SentOff(e))
           => Waiting(tms, x, e.read, Len(e.forwarded) + 1, SentOff(e))
  PROVE  Flow(tms, e, x)
  BY Zenon DEF Flow

\* What a self message of a packet says of its exchange.
LEMMA LaterFacts ==
  ASSUME config \in Configurations, NEW t \in SelfMessages, t.self # "SELF_REQ"
  PROVE  LET x == ExchangeOf(t.packet.id)
         IN  /\ x \in Exchanges /\ t.packet \in PacketsOf(x, AllKinds) /\ Later(t, x)
             /\ \A y : Later(t, y) => y = x
<1>1. PICK x \in Exchanges : t.packet \in PacketsOf(x, MinorKinds) \/ t.packet \in PacketsOf(x, LastKinds)
  <2>1. t.self = "SELF_MINOR" \/ t.self = "SELF_FIN"
    BY DEF SelfMessages
  <2>2. QED
    BY <2>1, SelfMessageFacts
<1>2. ExchangeOf(t.packet.id) = x
  BY <1>1, PacketFacts
<1>3. t.packet \in PacketsOf(x, AllKinds)
  BY <1>1 DEF PacketsOf, AllKinds
<1>4. QED
  BY <1>2, <1>3 DEF Later

\* An exchange that nobody asked for yet.
LEMMA IdleFacts ==
  /\ Idle.asked = FALSE /\ Idle.round = 0 /\ Idle.read = FALSE
  /\ Idle.fromClient = <<>> /\ Idle.fromServer = <<>> /\ Idle.forwarded = <<>>
  /\ Ordered(Idle)
  BY DEF Idle, Ordered

\* The next packet of an exchange comes.
LEMMA FlowsCame ==
  ASSUME config \in Configurations, NEW tm \in Seq(SelfMessages),
         NEW exch, exch = [y \in Exchanges |-> exch[y]],
         \A y \in Exchanges : exch[y] \in EndsOf(y),
         NEW waitQ \in Seq(Jobs), Flowing(tm, waitQ, exch), NEW k \in DOMAIN tm,
         tm[k].self # "SELF_REQ", IsNext(tm[k], exch)
  PROVE  Flowing(RemoveAt(tm, k), waitQ, Delivered(exch, tm[k].packet))
<1> DEFINE t == tm[k]
           pkt == t.packet
           x == ExchangeOf(pkt.id)
           tms == RemoveAt(tm, k)
           new == Delivered(exch, pkt)
           e == exch[x]
<1>1. /\ x \in Exchanges /\ pkt \in PacketsOf(x, AllKinds) /\ Later(t, x)
      /\ \A y : Later(t, y) => y = x
  BY LaterFacts
<1>2. /\ new = [y \in Exchanges |-> new[y]]
      /\ \A y \in Exchanges : y # x => new[y] = exch[y]
  BY <1>1, DeliveredFacts
<1>3. new[x] = Passed(e, x, pkt)
  BY <1>1 DEF Delivered
<1>4. /\ Ordered(e) => pkt = Nth(x, e.read, Len(e.forwarded) + 1)
      /\ e \in EndsOf(x)
  BY <1>1 DEF IsNext
<1>5. Flows(tm, exch) /\ AsAsked(tm, waitQ, exch)
  BY DEF Flowing
<1> HIDE DEF new, tms
<1>6. new[x].read = e.read /\ new[x].round = e.round
  <2> DEFINE p == new[x]
  <2>1. p = Passed(e, x, pkt)
    BY <1>3
  <2> HIDE DEF p
  <2>2. p.read = e.read /\ p.round = e.round
    BY <1>4, <2>1, PassedFields
  <2>3. QED
    BY <2>2 DEF p
<1>7. ASSUME NEW y \in Exchanges, y # x
      PROVE  /\ new[y].round = 0 => new[y] = Idle
             /\ Ordered(new[y]) => Flow(tms, new[y], y)
  <2>1. new[y] = exch[y] /\ ~Later(tm[k], y)
    BY <1>1, <1>2, <1>7
  <2>2. ASSUME Ordered(exch[y])
        PROVE  Flow(tms, exch[y], y)
    <3>1. Flow(tm, exch[y], y)
      BY <1>5, <2>2 DEF Flows
    <3>2. QED
      BY <2>1, <3>1, WaitingRemoved, FlowWaiting DEF tms
  <2>3. QED
    BY <1>5, <2>1, <2>2 DEF Flows
<1>8. ASSUME Ordered(e)
      PROVE  e.round # 0 /\ Flow(tms, new[x], x)
  <2> DEFINE n == Len(e.forwarded)
             c == SentOff(e)
             r == e.read
  <2>1. Flow(tm, e, x)
    BY <1>1, <1>5, <1>8 DEF Flows
  <2>2. /\ r \in BOOLEAN /\ n \in Nat /\ c \in Nat /\ c <= Length(r) /\ (n = 0 => c = 0)
        /\ Waiting(tm, x, r, n + 1, c)
    <3> HIDE DEF n, c, r, e, x
    <3>1. QED
      BY <1>1, <1>4, <2>1, FlowFacts DEF n, c, r
  <2>3. n < c
    <3>1. PICK i \in n + 1 .. c : pkt = Nth(x, r, i)
      BY <1>1, <2>2 DEF Waiting
    <3>2. QED
      BY <2>2, <3>1
  <2>4. pkt = Nth(x, r, n + 1)
    BY <1>4, <1>8
  <2>5. Waiting(tms, x, r, n + 2, c)
    <3>1. n + 1 \in Nat \ {0} /\ n + 1 <= c /\ (n + 1) + 1 = n + 2
      BY <2>2, <2>3
    <3>2. Waiting(tms, x, r, (n + 1) + 1, c)
      <4> HIDE DEF x, n, c, r
      <4>1. QED
        BY <1>1, <2>2, <2>4, <3>1, WaitingCame DEF tms
    <3>3. QED
      BY <3>1, <3>2
  <2>6. pkt.kind = KindAt(r, n + 1) /\ pkt.id = x * RidOffset + NumberAt(r, n + 1)
    <3> DEFINE p == pkt
    <3>1. p = [kind |-> KindAt(r, n + 1), id |-> x * RidOffset + NumberAt(r, n + 1)]
      BY <2>4 DEF Nth
    <3> HIDE DEF p, x, r, n
    <3>2. p.kind = KindAt(r, n + 1) /\ p.id = x * RidOffset + NumberAt(r, n + 1)
      BY <3>1
    <3>3. QED
      BY <3>2 DEF p
  <2>7. Flow(tms, Passed(e, x, pkt), x)
    <3> DEFINE p == pkt
    <3> HIDE DEF e, x, p, tms
    <3>1. Flow(tms, Passed(e, x, p), x)
      BY <1>1, <1>4, <2>1, <2>3, <2>5, <2>6, FlowPassed DEF p
    <3>2. QED
      BY <3>1 DEF p
  <2>8. e.round # 0
    <3>1. e # Idle
      <4>1. Len(Idle.forwarded) = 0
        BY IdleFacts
      <4>2. QED
        BY <2>2, <2>3, <4>1
    <3>2. QED
      BY <1>1, <1>5, <3>1 DEF Flows
  <2>9. QED
    BY <1>3, <2>7, <2>8
<1>9. ASSUME ~Ordered(e)
      PROVE  e.round # 0 /\ ~Ordered(new[x])
  <2>1. ~Ordered(new[x])
    BY <1>6, <1>9 DEF Ordered
  <2>2. e.round # 0
    <3>1. e # Idle
      BY <1>9, IdleFacts
    <3>2. QED
      BY <1>1, <1>5, <3>1 DEF Flows
  <2>3. QED
    BY <2>1, <2>2
<1>10. Flows(tms, new)
  BY <1>6, <1>7, <1>8, <1>9, Zenon DEF Flows
<1>11. AsAsked(tms, waitQ, new)
  <2>1. \A y \in Exchanges : new[y].read = exch[y].read
    BY <1>2, <1>6
  <2>2. ASSUME NEW j \in DOMAIN tms, tms[j].self = "SELF_REQ"
        PROVE  tms[j].packet.read = new[ExchangeOf(tms[j].packet.id)].read
    <3>1. PICK i \in DOMAIN tm : tms[j] = tm[i]
      BY RemovedPlaces DEF tms
    <3>2. tm[i].packet \in Jobs
      BY <2>2, <3>1, SelfMessageFacts
    <3>3. ExchangeOf(tm[i].packet.id) \in Exchanges
      BY <3>2, JobFacts
    <3>4. QED
      BY <1>5, <2>1, <2>2, <3>1, <3>3 DEF AsAsked
  <2>3. ASSUME NEW i \in DOMAIN waitQ
        PROVE  waitQ[i].read = new[ExchangeOf(waitQ[i].id)].read
    <3>1. ExchangeOf(waitQ[i].id) \in Exchanges
      BY JobFacts
    <3>2. QED
      BY <1>5, <2>1, <3>1 DEF AsAsked
  <2>4. QED
    BY <2>2, <2>3 DEF AsAsked
<1>12. QED
  BY <1>10, <1>11 DEF Flowing, tms, new

\* A request comes, and joins the queue as q2.
LEMMA FlowsJoined ==
  ASSUME config \in Configurations, NEW tm \in Seq(SelfMessages), NEW exch,
         NEW waitQ \in Seq(Jobs), Flowing(tm, waitQ, exch), NEW k \in DOMAIN tm,
         tm[k].self = "SELF_REQ", NEW new \in Seq(Jobs), NEW p \in 1 .. Len(waitQ) + 1,
         Inserted(waitQ, new, p, tm[k].packet)
  PROVE  Flowing(RemoveAt(tm, k), new, exch)
<1> DEFINE tms == RemoveAt(tm, k)
<1>1. Flows(tm, exch) /\ AsAsked(tm, waitQ, exch)
  BY DEF Flowing
<1>2. ASSUME NEW y \in Exchanges, Ordered(exch[y])
      PROVE  Flow(tms, exch[y], y)
  <2>1. Flow(tm, exch[y], y)
    BY <1>1, <1>2 DEF Flows
  <2>2. ~Later(tm[k], y)
    BY DEF Later
  <2>3. QED
    BY <2>1, <2>2, WaitingRemoved, FlowWaiting
<1>3. Flows(tms, exch)
  BY <1>1, <1>2, Zenon DEF Flows
<1> HIDE DEF tms
<1>4. ASSUME NEW j \in DOMAIN tms, tms[j].self = "SELF_REQ"
      PROVE  tms[j].packet.read = exch[ExchangeOf(tms[j].packet.id)].read
  <2>1. PICK i \in DOMAIN tm : tms[j] = tm[i]
    BY RemovedPlaces DEF tms
  <2>2. QED
    BY <1>1, <1>4, <2>1 DEF AsAsked
<1>5. ASSUME NEW i \in DOMAIN new
      PROVE  new[i].read = exch[ExchangeOf(new[i].id)].read
  <2>1. \/ new[i] = tm[k].packet
        \/ \E j \in DOMAIN waitQ : new[i] = waitQ[j]
    <3>1. /\ Len(new) = Len(waitQ) + 1 /\ Len(waitQ) \in Nat /\ i \in 1 .. Len(waitQ) + 1
          /\ new[i] = IF i < p THEN waitQ[i] ELSE IF i = p THEN tm[k].packet ELSE waitQ[i-1]
      BY DEF Inserted
    <3>2. CASE i < p
      BY <3>1, <3>2
    <3>3. CASE i = p
      BY <3>1, <3>3
    <3>4. CASE p < i
      <4>1. i - 1 \in DOMAIN waitQ /\ new[i] = waitQ[i-1]
        BY <3>1, <3>4
      <4>2. QED
        BY <4>1
    <3>5. QED
      BY <3>1, <3>2, <3>3, <3>4
  <2>2. QED
    BY <1>1, <2>1 DEF AsAsked
<1>6. QED
  BY <1>3, <1>4, <1>5 DEF Flowing, AsAsked, tms

\* The first request that waits goes to the server.
LEMMA FlowsDispatched ==
  ASSUME config \in Configurations, NEW tm, NEW q, NEW exch, NEW n, Books(tm, q, exch, n),
         EDF!CanDispatch(q, Par.degree), Flowing(tm, q.waitQ, exch)
  PROVE  Flowing(tm, Tail(q.waitQ), Delivered(exch, Request(Head(q.waitQ))))
<1> DEFINE job == Head(q.waitQ)
           x == ExchangeOf(job.id)
           pkt == Request(job)
           new == Delivered(exch, pkt)
           e == exch[x]
<1>1. /\ exch = [y \in Exchanges |-> exch[y]] /\ \A y \in Exchanges : exch[y] \in EndsOf(y)
      /\ q.waitQ \in Seq(Jobs) /\ tm \in Seq(SelfMessages) /\ q.waitQ # <<>>
  BY DEF Books, EDF!CanDispatch
<1>2. /\ Flows(tm, exch) /\ AsAsked(tm, q.waitQ, exch)
  BY DEF Flowing
<1>3. /\ job \in Jobs /\ job = q.waitQ[1] /\ 1 \in DOMAIN q.waitQ /\ Tail(q.waitQ) \in Seq(Jobs)
      /\ \A i \in DOMAIN Tail(q.waitQ) : i + 1 \in DOMAIN q.waitQ /\ Tail(q.waitQ)[i] = q.waitQ[i+1]
  BY <1>1
<1>4. x \in Exchanges /\ job \in RequestsOf(x) /\ job.id = x * RidOffset /\ job.read = e.read
  <2>1. x \in Exchanges /\ job \in RequestsOf(x) /\ job.id = x * RidOffset
    BY <1>3, JobFacts
  <2>2. job.read = e.read
    BY <1>2, <1>3 DEF AsAsked
  <2>3. QED
    BY <2>1, <2>2
<1>5. pkt \in PacketsOf(x, AllKinds) /\ ExchangeOf(pkt.id) = x
  <2>1. pkt \in PacketsOf(x, RequestKinds)
    BY <1>4, RequestFacts
  <2>2. QED
    BY <1>4, <2>1, PacketFacts DEF AllKinds
<1>6. /\ new = [y \in Exchanges |-> new[y]]
      /\ \A y \in Exchanges : y # x => new[y] = exch[y]
  BY <1>1, <1>4, <1>5, DeliveredFacts
<1>7. new[x] = Passed(e, x, pkt) /\ e \in EndsOf(x)
  <2>1. new = [exch EXCEPT ![x] = Passed(e, x, pkt)]
    BY <1>5 DEF Delivered
  <2>2. QED
    BY <1>1, <1>4, <2>1
<1>8. e.asked /\ ~Sent(e)
  <2> DEFINE rt == CountIn(tm, RequestTimers(x))
             mt == CountIn(tm, MovingTimers(x))
             w  == CountIn(q.waitQ, RequestsOf(x))
             o  == CountIn(q.osQ, RequestsOf(x))
             f  == OnTheWay(e, x)
  <2>1. /\ rt \in Nat /\ mt \in Nat /\ w \in Nat /\ o \in Nat /\ f \in Nat
        /\ ~e.asked => rt = 0 /\ mt = 0 /\ w = 0 /\ o = 0 /\ f = 0
        /\ e.asked => rt + w + mt + f = 1 /\ o = mt + f /\ (Sent(e) <=> o = 1)
    BY <1>4, BooksNumbers
  <2>2. w # 0
    BY <1>1, <1>3, <1>4, CountInNat
  <2> HIDE DEF rt, mt, w, o, f
  <2>3. QED
    BY <2>1, <2>2
<1>9. pkt = [kind |-> IF e.read THEN "PFS_R_REQ" ELSE "PFS_W_REQ", id |-> x * RidOffset]
  BY <1>4 DEF Request
<1> HIDE DEF new, pkt
<1>10. new[x].read = e.read /\ new[x].round = e.round /\ e.round # 0
  <2> DEFINE p == new[x]
  <2>1. p = Passed(e, x, pkt)
    BY <1>7
  <2> HIDE DEF p
  <2>2. p.read = e.read /\ p.round = e.round
    BY <1>7, <2>1, PassedFields
  <2>3. e.round # 0
    BY <1>2, <1>4, <1>8, IdleFacts DEF Flows
  <2>4. QED
    BY <2>2, <2>3 DEF p
<1>11. ASSUME Ordered(e)
       PROVE  Flow(tm, new[x], x)
  <2> HIDE DEF x, e, job
  <2>1. Flow(tm, e, x)
    BY <1>2, <1>4, <1>11 DEF Flows, e
  <2>2. /\ e.read \in BOOLEAN /\ e.forwarded \in Seq(AllKinds)
        /\ \A i \in 1 .. Len(e.forwarded) : e.forwarded[i] = KindAt(e.read, i)
    BY <1>4, <1>7, <2>1, FlowFacts
  <2>3. KindAt(e.read, 1) \in RequestKinds
    BY <1>4, <2>2, NthFacts
  <2>4. Len(e.forwarded) = 0
    <3> SUFFICES ASSUME Len(e.forwarded) # 0 PROVE FALSE
      OBVIOUS
    <3>1. 1 \in 1 .. Len(e.forwarded) /\ 1 \in DOMAIN e.forwarded
      BY <2>2
    <3>2. e.forwarded[1] \in RequestKinds /\ e.forwarded[1] \in ToSet(e.forwarded)
      BY <2>2, <2>3, <3>1 DEF ToSet
    <3>3. QED
      BY <1>8, <3>2 DEF Sent
  <2>5. pkt.kind = KindAt(e.read, 1) /\ pkt.id = x * RidOffset
    <3>1. Packets \in Nat \ {0}
      BY <1>4, ExchangeFacts
    <3>2. KindAt(TRUE, 1) = "PFS_R_REQ" /\ KindAt(FALSE, 1) = "PFS_W_REQ"
      BY <3>1 DEF KindAt
    <3>3. CASE e.read = TRUE
      BY <1>9, <3>2, <3>3
    <3>4. CASE e.read = FALSE
      BY <1>9, <3>2, <3>4
    <3>5. QED
      BY <2>2, <3>3, <3>4
  <2>6. Flow(tm, Passed(e, x, pkt), x)
    BY <1>4, <1>7, <1>8, <2>1, <2>4, <2>5, FlowRequested
  <2>7. QED
    BY <1>7, <2>6
<1>12. Flows(tm, new)
  <2>1. Ordered(new[x]) => Ordered(e)
    BY <1>10 DEF Ordered
  <2>2. ASSUME NEW y \in Exchanges
        PROVE  /\ new[y].round = 0 => new[y] = Idle
               /\ Ordered(new[y]) => Flow(tm, new[y], y)
    <3>1. CASE y = x
      BY <1>10, <1>11, <2>1, <3>1
    <3>2. CASE y # x
      <4>1. new[y] = exch[y]
        BY <1>6, <3>2
      <4>2. QED
        BY <1>2, <4>1 DEF Flows
    <3>3. QED
      BY <3>1, <3>2
  <2>3. QED
    BY <2>2, Zenon DEF Flows
<1>13. AsAsked(tm, Tail(q.waitQ), new)
  <2>1. \A y \in Exchanges : new[y].read = exch[y].read
    BY <1>6, <1>10
  <2>2. ASSUME NEW j \in DOMAIN tm, tm[j].self = "SELF_REQ"
        PROVE  tm[j].packet.read = new[ExchangeOf(tm[j].packet.id)].read
    <3>1. tm[j].packet \in Jobs
      BY <1>1, <2>2, SelfMessageFacts
    <3>2. ExchangeOf(tm[j].packet.id) \in Exchanges
      BY <3>1, JobFacts
    <3>3. QED
      BY <1>2, <2>1, <2>2, <3>2 DEF AsAsked
  <2>3. ASSUME NEW i \in DOMAIN Tail(q.waitQ)
        PROVE  Tail(q.waitQ)[i].read = new[ExchangeOf(Tail(q.waitQ)[i].id)].read
    <3> DEFINE j == i + 1
    <3>1. j \in DOMAIN q.waitQ /\ Tail(q.waitQ)[i] = q.waitQ[j]
      BY <1>3
    <3> HIDE DEF j
    <3>2. q.waitQ[j] \in Jobs
      BY <1>1, <3>1
    <3>3. ExchangeOf(q.waitQ[j].id) \in Exchanges
      BY <3>2, JobFacts
    <3>4. QED
      BY <1>2, <2>1, <3>1, <3>3 DEF AsAsked
  <2>4. QED
    BY <2>2, <2>3 DEF AsAsked
<1>14. QED
  BY <1>12, <1>13 DEF Flowing, new, pkt

\* One of the ends of exchange x sends a packet, which waits as message t.
LEMMA FlowsSent ==
  ASSUME config \in Configurations, NEW tm \in Seq(SelfMessages),
         NEW exch, \A y \in Exchanges : exch[y] \in EndsOf(y),
         NEW waitQ \in Seq(Jobs), Flowing(tm, waitQ, exch),
         NEW x \in Exchanges, NEW t \in SelfMessages, t.self # "SELF_REQ", ExchangeOf(t.packet.id) = x,
         NEW new, \A y \in Exchanges : y # x => new[y] = exch[y],
         new[x].asked = exch[x].asked, new[x].round = exch[x].round, new[x].read = exch[x].read,
         new[x].forwarded = exch[x].forwarded,
         \/ /\ exch[x].fromClient # <<>> /\ t.packet = Head(exch[x].fromClient)
            /\ new[x].fromClient = Tail(exch[x].fromClient) /\ new[x].fromServer = exch[x].fromServer
         \/ /\ exch[x].fromServer # <<>> /\ t.packet = Head(exch[x].fromServer)
            /\ new[x].fromServer = Tail(exch[x].fromServer) /\ new[x].fromClient = exch[x].fromClient
  PROVE  Flowing(Append(tm, t), waitQ, new)
<1> DEFINE tms == Append(tm, t)
<1>1. Flows(tm, exch) /\ AsAsked(tm, waitQ, exch)
  BY DEF Flowing
<1>2. Later(t, x) /\ \A y : Later(t, y) => y = x
  BY DEF Later
<1> HIDE DEF tms
<1>3. ASSUME NEW y \in Exchanges
      PROVE  /\ new[y].round = 0 => new[y] = Idle
             /\ Ordered(new[y]) => Flow(tms, new[y], y)
  <2>1. CASE y # x
    <3>1. new[y] = exch[y] /\ ~Later(t, y)
      BY <1>2, <2>1
    <3>2. ASSUME Ordered(exch[y])
          PROVE  Flow(tms, exch[y], y)
      <4>1. Flow(tm, exch[y], y)
        BY <1>1, <3>2 DEF Flows
      <4>2. QED
        BY <3>1, <4>1, WaitingAppended, FlowWaiting DEF tms
    <3>3. QED
      BY <1>1, <3>1, <3>2 DEF Flows
  <2>2. CASE y = x
    <3>1. new[x].round # 0
      <4>1. exch[x] # Idle
        BY IdleFacts
      <4>2. QED
        BY <1>1, <4>1 DEF Flows
    <3>2. ASSUME Ordered(new[x])
          PROVE  Flow(tms, new[x], x)
      <4>1. Ordered(exch[x])
        BY <3>2 DEF Ordered
      <4>2. Flow(tm, exch[x], x) /\ exch[x] \in EndsOf(x)
        BY <1>1, <4>1 DEF Flows
      <4> DEFINE e == exch[x]
                 f == new[x]
      <4>3. /\ f.asked = e.asked /\ f.read = e.read /\ f.forwarded = e.forwarded
            /\ \/ /\ e.fromClient # <<>> /\ t.packet = Head(e.fromClient)
                  /\ f.fromClient = Tail(e.fromClient) /\ f.fromServer = e.fromServer
               \/ /\ e.fromServer # <<>> /\ t.packet = Head(e.fromServer)
                  /\ f.fromServer = Tail(e.fromServer) /\ f.fromClient = e.fromClient
        OBVIOUS
      <4>4. Flow(tm, e, x) /\ e \in EndsOf(x)
        BY <4>2
      <4> HIDE DEF e, f
      <4>5. Flow(tms, f, x)
        BY <1>2, <4>3, <4>4, FlowSent DEF tms
      <4>6. QED
        BY <4>5 DEF f
    <3>3. QED
      BY <2>2, <3>1, <3>2
  <2>3. QED
    BY <2>1, <2>2
<1>4. ASSUME NEW j \in DOMAIN tms, tms[j].self = "SELF_REQ"
      PROVE  tms[j].packet.read = new[ExchangeOf(tms[j].packet.id)].read
  <2>1. j \in DOMAIN tm /\ tms[j] = tm[j]
    <3>1. /\ Len(tm) \in Nat /\ DOMAIN tm = 1 .. Len(tm) /\ DOMAIN tms = 1 .. Len(tm) + 1
          /\ tms[Len(tm) + 1] = t /\ \A k \in 1 .. Len(tm) : tms[k] = tm[k]
      BY DEF tms
    <3>2. QED
      BY <1>4, <3>1
  <2>2. tm[j].packet \in Jobs
    BY <1>4, <2>1, SelfMessageFacts
  <2>3. ExchangeOf(tm[j].packet.id) \in Exchanges
    BY <2>2, JobFacts
  <2>4. QED
    BY <1>1, <1>4, <2>1, <2>3 DEF AsAsked
<1>5. ASSUME NEW i \in DOMAIN waitQ
      PROVE  waitQ[i].read = new[ExchangeOf(waitQ[i].id)].read
  <2>1. ExchangeOf(waitQ[i].id) \in Exchanges
    BY JobFacts
  <2>2. QED
    BY <1>1, <2>1 DEF AsAsked
<1>6. QED
  BY <1>3, <1>4, <1>5, Zenon DEF Flowing, Flows, AsAsked, tms

\* The request that a client makes says what it asks for.
LEMMA AsksFor ==
  ASSUME NEW x, NEW read, NEW rise
  PROVE  Job(x, read, rise).read = read
<1> DEFINE f == config.jobs[x]
           g == [id |-> x * RidOffset, read |-> read, rise |-> rise]
           job == Job(x, read, rise)
<1>1. job = [z \in DOMAIN f \cup DOMAIN g |-> IF z \in DOMAIN g THEN g[z] ELSE f[z]]
  BY DEF Job
<1>2. "read" \in DOMAIN g /\ g["read"] = read
  OBVIOUS
<1> HIDE DEF f, g, job
<1>3. job["read"] = read
  BY <1>1, <1>2
<1>4. QED
  BY <1>3 DEF job

\* A client asks for exchange x again, and its request waits as message t.
LEMMA FlowsAsked ==
  ASSUME config \in Configurations, OneUse, NEW tm, NEW q, NEW exch, NEW n, Books(tm, q, exch, n),
         Flowing(tm, q.waitQ, exch), NEW x \in Exchanges, ~exch[x].asked,
         exch[x].round < config.rounds,
         NEW read \in config.reads[x], NEW job \in RequestsOf(x), job.read = read,
         NEW round \in Nat \ {0},
         NEW new, new = [exch EXCEPT ![x] = [Idle EXCEPT !.asked = TRUE, !.read = read, !.round = round]]
  PROVE  Flowing(Append(tm, [self |-> "SELF_REQ", packet |-> job]), q.waitQ, new)
<1> DEFINE t == [self |-> "SELF_REQ", packet |-> job]
           tms == Append(tm, t)
           e == exch[x]
           z == [Idle EXCEPT !.asked = TRUE, !.read = read, !.round = round]
           f == new[x]
<1>1. /\ exch = [y \in Exchanges |-> exch[y]] /\ \A y \in Exchanges : exch[y] \in EndsOf(y)
      /\ q.waitQ \in Seq(Jobs) /\ tm \in Seq(SelfMessages)
  BY DEF Books
<1>2. Flows(tm, exch) /\ AsAsked(tm, q.waitQ, exch)
  BY DEF Flowing
<1>3. t \in SelfMessages /\ t.self = "SELF_REQ" /\ t.packet = job
  BY RequestTimerFacts
<1>4. /\ z.asked = TRUE /\ z.read = read /\ z.round = round
      /\ z.fromClient = <<>> /\ z.fromServer = <<>> /\ z.forwarded = <<>>
  <2>1. DOMAIN Idle = {"asked", "round", "read", "fromClient", "fromServer", "forwarded"}
    BY DEF Idle
  <2>2. QED
    BY <2>1, IdleFacts
<1>5. new[x] = z /\ \A y \in Exchanges : y # x => new[y] = exch[y]
  <2> HIDE DEF z
  <2>1. new = [exch EXCEPT ![x] = z]
    BY Zenon DEF z
  <2>2. QED
    BY <1>1, <2>1
<1>6. /\ f.asked = TRUE /\ f.read = read /\ f.round = round
      /\ f.fromClient = <<>> /\ f.fromServer = <<>> /\ f.forwarded = <<>>
  BY <1>4, <1>5, Zenon
<1> HIDE DEF z, t, e, f
<1>7. job.id = x * RidOffset /\ ExchangeOf(job.id) = x /\ job \in Jobs
  BY RequestFacts
<1>8. /\ DOMAIN tms = 1 .. Len(tm) + 1 /\ DOMAIN tm = 1 .. Len(tm) /\ Len(tm) \in Nat
      /\ tms[Len(tm) + 1] = t /\ \A k \in 1 .. Len(tm) : tms[k] = tm[k]
  BY <1>1, <1>3
<1>9. /\ \A k \in DOMAIN tm : tm[k].self = "SELF_REQ" => ExchangeOf(tm[k].packet.id) # x
      /\ \A i \in DOMAIN q.waitQ : ExchangeOf(q.waitQ[i].id) # x
  <2> DEFINE rt == CountIn(tm, RequestTimers(x))
             mt == CountIn(tm, MovingTimers(x))
             w  == CountIn(q.waitQ, RequestsOf(x))
             o  == CountIn(q.osQ, RequestsOf(x))
             l  == OnTheWay(exch[x], x)
  <2>1. ~exch[x].asked => rt = 0 /\ mt = 0 /\ w = 0 /\ o = 0 /\ l = 0
    BY BooksNumbers
  <2>2. rt = 0 /\ w = 0
    BY <2>1
  <2>3. /\ \A k \in DOMAIN tm : tm[k] \notin RequestTimers(x)
        /\ \A i \in DOMAIN q.waitQ : q.waitQ[i] \notin RequestsOf(x)
    BY <1>1, <2>2, CountInNat
  <2>4. ASSUME NEW k \in DOMAIN tm, tm[k].self = "SELF_REQ", ExchangeOf(tm[k].packet.id) = x
        PROVE  FALSE
    <3>1. tm[k] = [self |-> tm[k].self, packet |-> tm[k].packet] /\ tm[k].packet \in Jobs
      BY <1>1, <2>4, SelfMessageFacts
    <3>2. tm[k].packet \in RequestsOf(x)
      BY <2>4, <3>1, JobFacts
    <3>3. tm[k] \in RequestTimers(x)
      BY <2>4, <3>1, <3>2 DEF RequestTimers
    <3>4. QED
      BY <2>3, <3>3
  <2>5. ASSUME NEW i \in DOMAIN q.waitQ, ExchangeOf(q.waitQ[i].id) = x
        PROVE  FALSE
    <3>1. q.waitQ[i] \in Jobs
      BY <1>1
    <3>2. QED
      BY <2>3, <2>5, <3>1, JobFacts
  <2>6. QED
    BY <2>4, <2>5
<1> HIDE DEF tms
<1>10. ASSUME Ordered(f)
       PROVE  Ordered(e)
  <2> SUFFICES ASSUME ~Ordered(e) PROVE FALSE
    OBVIOUS
  <2>1. "newjob" \in Delays /\ e.read /\ ~read
    BY <1>6, <1>10 DEF Ordered
  <2>2. e \in EndsOf(x)
    BY <1>1 DEF e
  <2>3. e.read \in config.reads[x] \cup {FALSE} /\ e.round \in Nat
    BY <2>2 DEF EndsOf
  <2>4. e.round # 0
    <3>1. e.round = 0 => e = Idle
      BY <1>2, Zenon DEF Flows, e
    <3>2. QED
      BY <2>1, <3>1, IdleFacts
  <2>5. config.reads[x] \subseteq BOOLEAN /\ config.rounds \in Nat /\ e.round < config.rounds
    BY ProxyAssumption DEF Exchanges, e
  <2>6. config.rounds > 1
    BY <2>3, <2>4, <2>5
  <2>7. config.reads[x] # BOOLEAN
    BY <2>1, <2>6, Zenon DEF OneUse
  <2>8. read = FALSE /\ e.read = TRUE
    BY <2>1, <2>3, <2>5
  <2>9. TRUE \in config.reads[x] /\ FALSE \in config.reads[x]
    BY <2>3, <2>8
  <2>10. QED
    BY <2>5, <2>7, <2>9
<1>11. ASSUME Ordered(f)
       PROVE  Flow(tms, f, x)
  <2>1. Ordered(e) /\ e \in EndsOf(x)
    BY <1>1, <1>10, <1>11 DEF e
  <2>2. Flow(tm, e, x)
    BY <1>2, <2>1, Zenon DEF Flows, e
  <2> DEFINE m == Len(e.forwarded)
             c == SentOff(e)
  <2>3. /\ m \in Nat /\ c \in Nat /\ e.asked \in BOOLEAN
        /\ IF e.asked THEN m < Length(e.read) ELSE m \in {0, Length(e.read)}
        /\ Waiting(tm, x, e.read, m + 1, c)
        /\ m = 0 => c = 0
        /\ m = Length(e.read) => c = m
    BY <2>1, <2>2, FlowFacts
  <2>4. ~e.asked
    BY DEF e
  <2>5. c = m
    BY <2>3, <2>4
  <2> HIDE DEF m, c
  <2>6. \A k \in DOMAIN tm : ~Later(tm[k], x)
    <3>1. m + 1 .. c = {}
      BY <2>3, <2>5
    <3>2. QED
      BY <2>3, <3>1, Zenon DEF Waiting
  <2>7. \A k \in DOMAIN tms : ~Later(tms[k], x)
    <3>1. ~Later(t, x)
      BY <1>3 DEF Later
    <3>2. QED
      BY <1>8, <2>6, <3>1
  <2>8. read \in BOOLEAN
    BY ProxyAssumption DEF Exchanges
  <2>9. /\ Length(read) \in Nat /\ Length(read) >= 2
    BY <2>8, NthFacts
  <2>10. Len(f.forwarded) = 0 /\ Len(f.fromClient) = 0 /\ Len(f.fromServer) = 0
    BY <1>6
  <2>11. SentOff(f) = 0
    <3>1. Made(f.read, 0) = 0
      BY DEF Made
    <3>2. QED
      BY <2>10, <3>1 DEF SentOff
  <2>12. ~ByClient(f.read, 0)
    <3>1. ~(0 \in 2 .. Packets + 1)
      OBVIOUS
    <3>2. QED
      BY <3>1 DEF ByClient
  <2>13. Waiting(tms, x, f.read, 0 + 1, 0)
    <3>1. 0 + 1 .. 0 = {}
      OBVIOUS
    <3>2. QED
      BY <2>7, <3>1, Zenon DEF Waiting
  <2>14. DOMAIN f.fromClient = {} /\ DOMAIN f.fromServer = {} /\ DOMAIN f.forwarded = {} /\ 1 .. 0 = {}
    BY <1>6
  <2>15. 0 < Length(f.read) /\ 0 <= Length(f.read)
    BY <1>6, <2>9
  <2>16. 0 <= SentOff(f)
    BY <2>11
  <2>17. QED
    BY <1>6, <2>10, <2>11, <2>12, <2>13, <2>14, <2>15, <2>16 DEF Flow
<1>12. Flows(tms, new)
  <2>1. ASSUME NEW y \in Exchanges
        PROVE  /\ new[y].round = 0 => new[y] = Idle
               /\ Ordered(new[y]) => Flow(tms, new[y], y)
    <3>1. CASE y = x
      BY <1>6, <1>11, <3>1 DEF f
    <3>2. CASE y # x
      <4>1. new[y] = exch[y] /\ ~Later(t, y)
        BY <1>3, <1>5, <3>2 DEF Later
      <4>2. ASSUME Ordered(exch[y])
            PROVE  Flow(tms, exch[y], y)
        <5>1. Flow(tm, exch[y], y)
          BY <1>2, <4>2 DEF Flows
        <5>2. QED
          BY <1>1, <1>3, <4>1, <5>1, WaitingAppended, FlowWaiting DEF tms
      <4>3. QED
        BY <1>2, <4>1, <4>2 DEF Flows
    <3>3. QED
      BY <3>1, <3>2
  <2>2. QED
    BY <2>1, Zenon DEF Flows
<1>13. ASSUME NEW k \in DOMAIN tms, tms[k].self = "SELF_REQ"
       PROVE  tms[k].packet.read = new[ExchangeOf(tms[k].packet.id)].read
  <2>1. CASE k = Len(tm) + 1
    BY <1>3, <1>6, <1>7, <1>8, <2>1 DEF f
  <2>2. CASE k # Len(tm) + 1
    <3>1. k \in DOMAIN tm /\ tms[k] = tm[k]
      BY <1>8, <2>2
    <3>2. tm[k].packet \in Jobs
      BY <1>1, <1>13, <3>1, SelfMessageFacts
    <3>3. ExchangeOf(tm[k].packet.id) \in Exchanges /\ ExchangeOf(tm[k].packet.id) # x
      BY <1>9, <1>13, <3>1, <3>2, JobFacts
    <3>4. QED
      BY <1>2, <1>5, <1>13, <3>1, <3>3 DEF AsAsked
  <2>3. QED
    BY <2>1, <2>2
<1>14. ASSUME NEW i \in DOMAIN q.waitQ
       PROVE  q.waitQ[i].read = new[ExchangeOf(q.waitQ[i].id)].read
  <2>1. q.waitQ[i] \in Jobs
    BY <1>1
  <2>2. ExchangeOf(q.waitQ[i].id) \in Exchanges /\ ExchangeOf(q.waitQ[i].id) # x
    BY <1>9, <2>1, JobFacts
  <2>3. QED
    BY <1>2, <1>5, <2>2 DEF AsAsked
<1>15. QED
  BY <1>12, <1>13, <1>14, Zenon DEF Flowing, AsAsked, tms, t

-----------------------------------------------------------------------------
(* The loop of scheduleJobs. *)

\* As many places as a finite set has elements at most, if each holds another of them.
LEMMA PlacesOfDistinct ==
  ASSUME NEW n \in Nat, NEW T, IsFiniteSet(T), NEW f \in [1 .. n -> T],
         \A i, j \in 1 .. n : f[i] = f[j] => i = j
  PROVE  /\ n <= Cardinality(T) /\ Cardinality(T) \in Nat
         /\ (\A y \in T : \E i \in 1 .. n : f[i] = y) => n = Cardinality(T)
<1> DEFINE I == 1 .. n
<1>1. IsFiniteSet(I) /\ Cardinality(I) = n
  <2>1. IsFiniteSet(I) /\ Cardinality(I) = IF 1 > n THEN 0 ELSE n - 1 + 1
    BY FS_Interval
  <2>2. QED
    BY <2>1
<1>2. f \in Injection(I, T)
  BY DEF Injection, IsInjective
<1>3. (\A y \in T : \E i \in 1 .. n : f[i] = y) => f \in Surjection(I, T)
  BY DEF Surjection
<1> HIDE DEF I
<1>4. /\ Cardinality(I) <= Cardinality(T)
      /\ Cardinality(I) = Cardinality(T) <=> f \in Surjection(I, T)
  BY <1>2, FS_Injection
<1>5. Cardinality(T) \in Nat
  BY FS_CardinalityType
<1>6. QED
  BY <1>1, <1>3, <1>4, <1>5

\* No exchange has two requests in one of the lists.
LEMMA OneRequestEach ==
  ASSUME config \in Configurations, NEW tm, NEW q, NEW exch, NEW n, Books(tm, q, exch, n),
         NEW s, s = q.waitQ \/ s = q.osQ,
         NEW i \in DOMAIN s, NEW j \in DOMAIN s, ExchangeOf(s[i].id) = ExchangeOf(s[j].id)
  PROVE  i = j
<1> DEFINE x == ExchangeOf(s[i].id)
<1>1. s \in Seq(Jobs)
  BY DEF Books
<1>2. s[i] \in Jobs /\ s[j] \in Jobs
  BY <1>1
<1>3. x \in Exchanges /\ s[i] \in RequestsOf(x) /\ s[j] \in RequestsOf(x)
  BY <1>2, JobFacts
<1> HIDE DEF x
<1>4. CountIn(s, RequestsOf(x)) <= 1
  <2> DEFINE rt == CountIn(tm, RequestTimers(x))
             mt == CountIn(tm, MovingTimers(x))
             w  == CountIn(q.waitQ, RequestsOf(x))
             o  == CountIn(q.osQ, RequestsOf(x))
             e  == OnTheWay(exch[x], x)
  <2>1. /\ rt \in Nat /\ mt \in Nat /\ w \in Nat /\ o \in Nat /\ e \in Nat
        /\ ~exch[x].asked => rt = 0 /\ mt = 0 /\ w = 0 /\ o = 0 /\ e = 0
        /\ exch[x].asked => rt + w + mt + e = 1 /\ o = mt + e
    BY <1>3, BooksNumbers
  <2> HIDE DEF rt, mt, w, o, e
  <2>2. w <= 1 /\ o <= 1
    BY <2>1
  <2>3. QED
    BY <2>2 DEF w, o
<1>5. QED
  BY <1>1, <1>3, <1>4, CountInNat

\* No more requests wait than there are exchanges.
LEMMA FewWait ==
  ASSUME config \in Configurations, NEW tm, NEW q, NEW exch, NEW n, Books(tm, q, exch, n)
  PROVE  /\ Len(q.waitQ) <= Cardinality(Exchanges)
         /\ Len(q.waitQ) \in Nat /\ Cardinality(Exchanges) \in Nat
<1> DEFINE w == q.waitQ
           f == [i \in 1 .. Len(w) |-> ExchangeOf(w[i].id)]
<1>1. w \in Seq(Jobs)
  BY DEF Books
<1>2. Len(w) \in Nat /\ DOMAIN w = 1 .. Len(w) /\ \A i \in 1 .. Len(w) : w[i] \in Jobs
  BY <1>1
<1>3. f \in [1 .. Len(w) -> Exchanges]
  BY <1>2, JobFacts
<1>4. \A i, j \in 1 .. Len(w) : f[i] = f[j] => i = j
  BY <1>2, OneRequestEach
<1>5. IsFiniteSet(Exchanges)
  BY ProxyAssumption DEF Exchanges
<1> HIDE DEF f
<1>6. QED
  BY <1>2, <1>3, <1>4, <1>5, PlacesOfDistinct

\* One turn more, from each of the states R that the loop may be in.
OneMore(R) == UNION {Turn(r) : r \in R}

\* The loop is well defined: what it may be in, with the turns counted up.
LEMMA RunOfLoop ==
  ASSUME NEW R, NEW k \in Nat
  PROVE  \E f : f = [i \in 0 .. k |-> IF i = 0 THEN R ELSE OneMore(f[i-1])]
<1> DEFINE Run(f, m) == f = [i \in 0 .. m |-> IF i = 0 THEN R ELSE OneMore(f[i-1])]
           Bad == {m \in Nat : ~\E f : Run(f, m)}
<1>1. CASE Bad = {}
  BY <1>1
<1>2. CASE Bad # {}
  <2>1. PICK m \in Bad : \A j \in Bad : m <= j
    BY <1>2, LeastNat
  <2>2. m # 0
    <3> DEFINE f == [i \in 0 .. 0 |-> R]
    <3>1. \A i \in 0 .. 0 : R = IF i = 0 THEN R ELSE OneMore(f[i-1])
      OBVIOUS
    <3>2. f = [i \in 0 .. 0 |-> IF i = 0 THEN R ELSE OneMore(f[i-1])]
      BY <3>1, Zenon
    <3>3. QED
      BY <3>2
  <2>3. m - 1 \in Nat /\ m \in Nat
    BY <2>2
  <2> HIDE DEF Run
  <2>4. PICK g : Run(g, m - 1)
    <3>1. ~(m <= m - 1)
      BY <2>3
    <3>2. m - 1 \notin Bad
      BY <2>1, <3>1
    <3>3. QED
      BY <2>3, <3>2
  <2>5. g = [i \in 0 .. m - 1 |-> IF i = 0 THEN R ELSE OneMore(g[i-1])]
    BY <2>4 DEF Run
  <2> DEFINE f == [i \in 0 .. m |-> IF i = m THEN OneMore(g[m-1]) ELSE g[i]]
  <2>6. ASSUME NEW i \in 0 .. m
        PROVE  f[i] = IF i = 0 THEN R ELSE OneMore(f[i-1])
    <3>1. CASE i = 0
      BY <2>2, <2>3, <2>5, <3>1
    <3>2. CASE i # 0
      <4>1. i - 1 \in 0 .. m - 1 /\ i - 1 \in 0 .. m /\ i - 1 # m
        BY <2>3, <3>2
      <4>2. f[i-1] = g[i-1]
        BY <4>1
      <4>3. CASE i = m
        BY <3>2, <4>2, <4>3
      <4>4. CASE i # m
        <5>1. i \in 0 .. m - 1
          BY <2>3, <4>4
        <5>2. g[i] = OneMore(g[i-1])
          BY <2>5, <3>2, <5>1
        <5>3. QED
          BY <3>2, <4>2, <4>4, <5>2
      <4>5. QED
        BY <4>3, <4>4
    <3>3. QED
      BY <3>1, <3>2
  <2>7. Run(f, m)
    <3>1. f = [i \in 0 .. m |-> f[i]]
      BY Zenon
    <3> HIDE DEF f
    <3>2. f = [i \in 0 .. m |-> IF i = 0 THEN R ELSE OneMore(f[i-1])]
      BY <2>6, <3>1, Zenon
    <3>3. QED
      BY <3>2 DEF Run
  <2>8. QED
    BY <2>1, <2>7
<1>3. QED
  BY <1>1, <1>2


\* What holds in the loop after k turns.
LoopInv(r, tm, arr, k) ==
  /\ r = [queue |-> r.queue, exchange |-> r.exchange, reqNum |-> r.reqNum, ended |-> r.ended]
  /\ r.ended \in BOOLEAN
  /\ Books(tm, r.queue, r.exchange, r.reqNum)
  /\ InOrder(arr, r.queue.waitQ) /\ FlowKept(tm, r.queue.waitQ, r.exchange)
  /\ r.ended => ~EDF!CanDispatch(r.queue, Par.degree)
  /\ ~r.ended => Len(r.queue.waitQ) + k <= Cardinality(Exchanges)

\* A turn of scheduleJobs' loop keeps what the loop is entered with.
LEMMA TurnKeeps ==
  ASSUME config \in Configurations, Plain, NEW tm, NEW arr, NEW k \in Nat,
         NEW r, LoopInv(r, tm, arr, k), NEW s \in Turn(r)
  PROVE  LoopInv(s, tm, arr, k + 1)
<1> DEFINE q == r.queue
           d == DispatchedFirst(q)
           job == Head(q.waitQ)
<1>1. CASE r.ended
  <2>1. s = r
    BY <1>1 DEF Turn
  <2>2. QED
    BY <1>1, <2>1 DEF LoopInv
<1>2. CASE ~r.ended
  <2>1. DispatchNext(q) = {d}
    BY DEF DispatchNext, Plain
  <2>2. s = IF d.sent = <<>>
            THEN [r EXCEPT !.queue = d.queue, !.ended = TRUE]
            ELSE [r EXCEPT !.queue = d.queue, !.reqNum = @ + 1,
                           !.exchange = Delivered(@, Request(Head(d.sent)))]
    <3> HIDE DEF d
    <3>1. QED
      BY <1>2, <2>1 DEF Turn
  <2>3. /\ r = [queue |-> q, exchange |-> r.exchange, reqNum |-> r.reqNum, ended |-> r.ended]
        /\ Books(tm, q, r.exchange, r.reqNum) /\ InOrder(arr, q.waitQ)
        /\ FlowKept(tm, q.waitQ, r.exchange)
        /\ Len(q.waitQ) + k <= Cardinality(Exchanges)
    BY <1>2 DEF LoopInv
  <2>4. CASE EDF!CanDispatch(q, Par.degree)
    <3>1. d = [sent |-> <<job>>, queue |-> EDF!Dispatched(q)]
      BY <2>4 DEF DispatchedFirst
    <3>2. d.sent = <<job>> /\ d.queue = EDF!Dispatched(q) /\ Head(d.sent) = job /\ d.sent # <<>>
      <4> HIDE DEF d
      <4>1. QED
        BY <3>1
    <3> HIDE DEF d
    <3>3. s = [r EXCEPT !.queue = EDF!Dispatched(q), !.reqNum = @ + 1,
                        !.exchange = Delivered(@, Request(job))]
      BY <2>2, <3>2
    <3> DEFINE newq == EDF!Dispatched(q)
               newe == Delivered(r.exchange, Request(job))
    <3>4. /\ Books(tm, newq, newe, r.reqNum + 1)
          /\ newq.waitQ = Tail(q.waitQ)
      BY <2>3, <2>4, DispatchBooks
    <3>5. q.waitQ \in Seq(Jobs) /\ q.waitQ # <<>>
      BY <2>3, <2>4 DEF Books, EDF!CanDispatch
    <3>6. InOrder(arr, newq.waitQ)
      BY <2>3, <3>4, <3>5, TailInOrder
    <3>7. Len(newq.waitQ) + (k + 1) <= Cardinality(Exchanges)
      <4>1. Len(newq.waitQ) = Len(q.waitQ) - 1 /\ Len(q.waitQ) \in Nat
        BY <3>4, <3>5, HeadTailElements
      <4>2. QED
        BY <2>3, <4>1
    <3>13. FlowKept(tm, newq.waitQ, newe)
      BY <2>3, <2>4, <3>4, FlowsDispatched DEF FlowKept
    <3> HIDE DEF newq, newe
    <3>8. s = [r EXCEPT !.queue = newq, !.reqNum = @ + 1, !.exchange = newe]
      BY <3>3, Zenon DEF newq, newe
    <3>9. /\ DOMAIN r = {"queue", "exchange", "reqNum", "ended"}
          /\ DOMAIN s = DOMAIN r /\ s = [f \in DOMAIN s |-> s[f]]
      BY <2>3, <3>8
    <3>10. s.queue = newq /\ s.reqNum = r.reqNum + 1 /\ s.exchange = newe /\ s.ended = r.ended
      BY <3>8, <3>9
    <3>11. s = [queue |-> s.queue, exchange |-> s.exchange, reqNum |-> s.reqNum, ended |-> s.ended]
      BY <3>9
    <3>12. QED
      BY <1>2, <3>4, <3>6, <3>7, <3>10, <3>11, <3>13 DEF LoopInv
  <2>5. CASE ~EDF!CanDispatch(q, Par.degree)
    <3>1. d = [sent |-> <<>>, queue |-> q]
      BY <2>5 DEF DispatchedFirst
    <3> HIDE DEF d
    <3>2. s = [r EXCEPT !.queue = q, !.ended = TRUE]
      BY <2>2, <3>1
    <3>3. s = [queue |-> q, exchange |-> r.exchange, reqNum |-> r.reqNum, ended |-> TRUE]
      BY <2>3, <3>2
    <3> HIDE DEF q
    <3>4. /\ s.queue = q /\ s.exchange = r.exchange /\ s.reqNum = r.reqNum /\ s.ended = TRUE
      BY <3>3
    <3>5. QED
      BY <2>3, <2>5, <3>3, <3>4 DEF LoopInv
  <2>6. QED
    BY <2>4, <2>5
<1>3. QED
  BY <1>1, <1>2 DEF LoopInv

\* scheduleJobs keeps the books and the order, and goes on until nothing more can go.
LEMMA ScheduleJobsKeeps ==
  ASSUME config \in Configurations, Plain, NEW tm, NEW arr, NEW q, NEW exch, NEW n,
         Books(tm, q, exch, n), InOrder(arr, q.waitQ), FlowKept(tm, q.waitQ, exch),
         NEW s \in Dispatched(q, exch, n)
  PROVE  /\ Books(tm, s.queue, s.exchange, s.reqNum)
         /\ InOrder(arr, s.queue.waitQ) /\ FlowKept(tm, s.queue.waitQ, s.exchange)
         /\ ~EDF!CanDispatch(s.queue, Par.degree)
<1> DEFINE R == {[queue |-> q, exchange |-> exch, reqNum |-> n, ended |-> FALSE]}
           turns == Cardinality(Exchanges) + 1
           F(f) == [i \in 0 .. turns |-> IF i = 0 THEN R ELSE OneMore(f[i-1])]
           run == CHOOSE f : f = F(f)
           Good(i) == \A r \in run[i] : LoopInv(r, tm, arr, i)
<1>1. /\ Len(q.waitQ) <= Cardinality(Exchanges)
      /\ Len(q.waitQ) \in Nat /\ Cardinality(Exchanges) \in Nat
  BY FewWait
<1>2. turns \in Nat
  BY <1>1
<1>3. s \in run[turns]
  BY Zenon DEF Dispatched, OneMore
<1> HIDE DEF turns
<1>4. run = F(run)
  <2>1. \E f : f = F(f)
    BY <1>2, RunOfLoop
  <2> HIDE DEF F
  <2>2. QED
    BY <2>1, Zenon
<1> HIDE DEF run, R
<1>5. /\ run[0] = R
      /\ \A i \in 1 .. turns : run[i] = OneMore(run[i-1])
  BY <1>2, <1>4
<1> DEFINE Bad == {i \in 0 .. turns : ~Good(i)}
<1>6. Bad = {}
  <2> SUFFICES ASSUME Bad # {}
               PROVE  FALSE
    OBVIOUS
  <2>1. PICK i \in Bad : \A j \in Bad : i <= j
    <3>1. Bad \subseteq Nat
      BY <1>2
    <3> HIDE DEF Bad
    <3>2. QED
      BY <3>1, LeastNat
  <2>2. Good(0)
    <3> DEFINE r == [queue |-> q, exchange |-> exch, reqNum |-> n, ended |-> FALSE]
    <3>1. /\ r.queue = q /\ r.exchange = exch /\ r.reqNum = n /\ r.ended = FALSE
      OBVIOUS
    <3>2. r = [queue |-> r.queue, exchange |-> r.exchange, reqNum |-> r.reqNum, ended |-> r.ended]
      OBVIOUS
    <3>3. Len(q.waitQ) + 0 <= Cardinality(Exchanges)
      BY <1>1
    <3>4. run[0] = {r}
      BY <1>5 DEF R
    <3> HIDE DEF r
    <3>5. LoopInv(r, tm, arr, 0)
      BY <3>1, <3>2, <3>3 DEF LoopInv
    <3>6. QED
      BY <3>4, <3>5
  <2> HIDE DEF Good
  <2>3. i - 1 \in 0 .. turns /\ i - 1 \in Nat /\ i \in 1 .. turns /\ ~(i <= i - 1) /\ i - 1 + 1 = i
    BY <1>2, <2>1, <2>2
  <2>4. Good(i-1)
    BY <2>1, <2>3
  <2>5. Good(i)
    <3>1. ASSUME NEW r \in run[i]
          PROVE  LoopInv(r, tm, arr, i)
      <4>1. PICK p \in run[i-1] : r \in Turn(p)
        BY <1>5, <2>3 DEF OneMore
      <4>2. LoopInv(p, tm, arr, i - 1)
        BY <2>4, Zenon DEF Good
      <4>3. LoopInv(r, tm, arr, i - 1 + 1)
        BY <2>3, <4>1, <4>2, TurnKeeps
      <4>4. QED
        BY <2>3, <4>3
    <3>2. QED
      BY <3>1, Zenon DEF Good
  <2>6. QED
    BY <2>1, <2>5
<1>7. LoopInv(s, tm, arr, turns)
  <2>1. turns \in 0 .. turns
    BY <1>2
  <2>2. Good(turns)
    BY <1>6, <2>1
  <2>3. QED
    BY <1>3, <2>2
<1>8. s.ended
  <2> SUFFICES ASSUME ~s.ended
               PROVE  FALSE
    OBVIOUS
  <2>1. Len(s.queue.waitQ) + turns <= Cardinality(Exchanges) /\ Books(tm, s.queue, s.exchange, s.reqNum)
    BY <1>7 DEF LoopInv
  <2>2. Len(s.queue.waitQ) \in Nat
    BY <2>1, FewWait
  <2>3. QED
    BY <1>1, <2>1, <2>2 DEF turns
<1>9. QED
  BY <1>7, <1>8 DEF LoopInv

-----------------------------------------------------------------------------
(* The steps of the proxy. *)

\* The configuration stays, and with it what it determines.
LEMMA SameBooks ==
  ASSUME config' = config, Books(timers', queue', exchange', osReqNum')
  PROVE  Books(timers, queue, exchange, osReqNum)'
<1>1. /\ Exchanges' = Exchanges /\ Packets' = Packets /\ Par' = Par
      /\ Algorithm' = Algorithm /\ Plain' = Plain
  BY DEF Exchanges, Packets, Par, Algorithm, Plain
<1>2. ASSUME NEW x, NEW read, NEW rise
      PROVE  Job(x, read, rise)' = Job(x, read, rise)
  BY DEF Job
<1>3. ASSUME NEW x
      PROVE  RequestsOf(x)' = RequestsOf(x)
  BY DEF RequestsOf, Job
<1>4. ASSUME NEW x, NEW kinds
      PROVE  PacketsOf(x, kinds)' = PacketsOf(x, kinds)
  BY DEF PacketsOf, Packets
<1>5. Jobs' = Jobs
  BY <1>1 DEF Jobs, RequestsOf, Job
<1>6. MinorPackets' = MinorPackets /\ LastPackets' = LastPackets
  BY <1>1 DEF MinorPackets, LastPackets, PacketsOf
<1>7. SelfMessages' = SelfMessages
  BY <1>5, <1>6, Zenon DEF SelfMessages
<1>8. ASSUME NEW x
      PROVE  /\ RequestTimers(x)' = RequestTimers(x) /\ MovingTimers(x)' = MovingTimers(x)
             /\ EndsOf(x)' = EndsOf(x)
  <2>1. RequestTimers(x)' = RequestTimers(x)
    BY <1>3 DEF RequestTimers
  <2>2. MovingTimers(x)' = MovingTimers(x)
    BY <1>4 DEF MovingTimers
  <2>3. EndsOf(x)' = EndsOf(x)
    BY <1>4 DEF EndsOf
  <2>4. QED
    BY <2>1, <2>2, <2>3
<1>9. ASSUME NEW x \in Exchanges
      PROVE  Balanced(timers, queue, exchange, x)' <=> Balanced(timers', queue', exchange', x)
  <2>1. Before(timers, queue, x)' = Before(timers', queue', x)
    BY <1>3, <1>8, Zenon DEF Before
  <2>2. After(timers, exchange, x)' = After(timers', exchange', x)
    BY <1>4, <1>8, Zenon DEF After, OnTheWay
  <2>3. CountIn(queue.osQ, RequestsOf(x))' = CountIn(queue'.osQ, RequestsOf(x))
    BY <1>3, Zenon
  <2>4. QED
    BY <2>1, <2>2, <2>3, Zenon DEF Balanced, Sent
<1>10. QED
  BY <1>1, <1>5, <1>7, <1>8, <1>9, Zenon DEF Books

\* The order of requests depends on config and the variables it names only.
LEMMA SameOrder ==
  ASSUME config' = config, InOrder(arrivals', queue'.waitQ)
  PROVE  InOrder(arrivals, queue.waitQ)'
<1>1. ASSUME NEW job
      PROVE  Due(job)' = Due(job)
  BY DEF Due, Algorithm, Par
<1>2. ASSUME NEW i \in DOMAIN queue'.waitQ, NEW j \in DOMAIN queue'.waitQ, i < j
      PROVE  /\ (Due(queue.waitQ[i]) <= Due(queue.waitQ[j]))'
             /\ (Due(queue.waitQ[i]) = Due(queue.waitQ[j]))'
                  => ArrivalIn(arrivals', queue'.waitQ[i]) < ArrivalIn(arrivals', queue'.waitQ[j])
  BY <1>2 DEF InOrder, Due, Algorithm, Par
<1>3. QED
  BY <1>2, Zenon DEF InOrder

\* The order of packets depends on config and the variables it names only.
LEMMA SameFlow ==
  ASSUME config' = config, FlowKept(timers', queue'.waitQ, exchange')
  PROVE  FlowKept(timers, queue.waitQ, exchange)'
<1>1. /\ Exchanges' = Exchanges /\ Packets' = Packets /\ Delays' = Delays /\ OneUse' = OneUse
  BY DEF Exchanges, Packets, Delays, OneUse
<1>2. ASSUME NEW read
      PROVE  Length(read)' = Length(read)
  BY DEF Length, Packets
<1>3. ASSUME NEW read, NEW i
      PROVE  KindAt(read, i)' = KindAt(read, i) /\ ByClient(read, i)' = ByClient(read, i)
  BY DEF KindAt, ByClient, Packets
<1>4. ASSUME NEW x, NEW read, NEW i
      PROVE  Nth(x, read, i)' = Nth(x, read, i)
  BY DEF Nth, KindAt, NumberAt, Packets
<1>5. ASSUME NEW e
      PROVE  SentOff(e)' = SentOff(e) /\ Ordered(e)' = Ordered(e)
  BY DEF SentOff, Made, Ordered, Delays, Packets
<1>6. ASSUME NEW x, NEW read, NEW lo, NEW hi
      PROVE  Waiting(timers, x, read, lo, hi)' <=> Waiting(timers', x, read, lo, hi)
  BY <1>4, Zenon DEF Waiting
<1>7. ASSUME NEW x \in Exchanges
      PROVE  Flow(timers, exchange[x], x)' <=> Flow(timers', exchange'[x], x)
  BY <1>2, <1>3, <1>4, <1>5, <1>6, Zenon DEF Flow
<1>8. Flows(timers, exchange)' <=> Flows(timers', exchange')
  BY <1>1, <1>5, <1>7, Zenon DEF Flows
<1>9. AsAsked(timers, queue.waitQ, exchange)' <=> AsAsked(timers', queue'.waitQ, exchange')
  BY DEF AsAsked
<1>10. QED
  BY <1>1, <1>8, <1>9, Zenon DEF FlowKept, Flowing

\* What a step of a proxy with one of the plain queues has to leave behind.
Kept == /\ Books(timers', queue', exchange', osReqNum')
        /\ arrivals' \in Seq(Jobs) /\ InOrder(arrivals', queue'.waitQ)
        /\ ~EDF!CanDispatch(queue', Par.degree)
        /\ FlowKept(timers', queue'.waitQ, exchange')

\* A handler that keeps the parts of the invariant keeps the invariant.
LEMMA KeptInv ==
  ASSUME config \in Configurations, config' = config, Plain => Kept /\ OnlyDelayed(timers')
  PROVE  ProxyInv'
<1>1. Plain' = Plain /\ Jobs' = Jobs /\ Par' = Par
  BY DEF Plain, Algorithm, Jobs, RequestsOf, Job, Exchanges, Par
<1>2. ASSUME Plain'
      PROVE  /\ Books(timers, queue, exchange, osReqNum)'
             /\ InOrder(arrivals, queue.waitQ)'
             /\ arrivals' \in Seq(Jobs')
             /\ ~EDF!CanDispatch(queue', Par.degree)
             /\ FlowKept(timers, queue.waitQ, exchange)'
             /\ OnlyDelayed(timers)'
  <2>1. Kept
    BY <1>1, <1>2
  <2>2. /\ Books(timers', queue', exchange', osReqNum') /\ InOrder(arrivals', queue'.waitQ)
        /\ FlowKept(timers', queue'.waitQ, exchange')
    BY <2>1, Zenon DEF Kept
  <2>3. OnlyDelayed(timers)'
    BY <1>1, <1>2 DEF OnlyDelayed, Delays
  <2>4. QED
    BY <1>1, <2>1, <2>2, <2>3, SameBooks, SameOrder, SameFlow, Zenon DEF Kept
<1>3. (~EDF!CanDispatch(queue, Par.degree))' <=> ~EDF!CanDispatch(queue', Par.degree)
  BY <1>1 DEF EDF!CanDispatch, Par
<1>4. QED
  BY <1>2, <1>3, Zenon DEF ProxyInv

\* What joined a list last is its last element, and can be removed again.
LEMMA LastRemoved ==
  ASSUME NEW S, NEW s \in Seq(S), NEW e \in S
  PROVE  LET n == Len(s) + 1
         IN  /\ n \in DOMAIN Append(s, e) /\ Append(s, e)[n] = e
             /\ RemoveAt(Append(s, e), n) = s
<1> DEFINE t == Append(s, e)
           n == Len(s) + 1
           u == RemoveAt(t, n)
<1>1. /\ t \in Seq(S) /\ Len(t) = n /\ n \in DOMAIN t /\ t[n] = e /\ Len(s) \in Nat
      /\ \A i \in 1 .. Len(s) : t[i] = s[i]
  OBVIOUS
<1> HIDE DEF t
<1>2. /\ u \in Seq(S) /\ Len(u) = Len(t) - 1
      /\ \A i \in 1 .. Len(t) - 1 : u[i] = IF i < n THEN t[i] ELSE t[i+1]
  BY <1>1, RemoveAtElements
<1> HIDE DEF u
<1>3. Len(u) = Len(s) /\ \A i \in 1 .. Len(s) : u[i] = s[i]
  BY <1>1, <1>2
<1>4. u = s
  BY <1>2, <1>3
<1>5. QED
  BY <1>1, <1>4 DEF t, u

\* A handler that ends with scheduleJobs keeps the parts of the invariant.
LEMMA ScheduleStep ==
  ASSUME config \in Configurations, Plain, NEW q, NEW exch, NEW n, Books(timers', q, exch, n),
         arrivals' \in Seq(Jobs), InOrder(arrivals', q.waitQ), FlowKept(timers', q.waitQ, exch),
         ScheduleJobs(q, exch, n)
  PROVE  Kept
<1>1. PICK r \in Dispatched(q, exch, n) :
        queue' = r.queue /\ exchange' = r.exchange /\ osReqNum' = r.reqNum
  BY Zenon DEF ScheduleJobs
<1>2. /\ Books(timers', r.queue, r.exchange, r.reqNum)
      /\ InOrder(arrivals', r.queue.waitQ) /\ FlowKept(timers', r.queue.waitQ, r.exchange)
      /\ ~EDF!CanDispatch(r.queue, Par.degree)
  BY ScheduleJobsKeeps
<1>3. QED
  BY <1>1, <1>2 DEF Kept

\* A request joins the queue, at once or after newjob_proc_time.
LEMMA RequestStep ==
  ASSUME ProxyInv, Plain, NEW tm, NEW exch, Books(tm, queue, exch, osReqNum),
         FlowKept(tm, queue.waitQ, exch), NEW k \in DOMAIN tm, tm[k].self = "SELF_REQ", timers' = RemoveAt(tm, k),
         HandleJobReq2(tm[k].packet, exch)
  PROVE  Kept
<1> DEFINE job == tm[k].packet
<1>1. /\ config \in Configurations /\ arrivals \in Seq(Jobs) /\ InOrder(arrivals, queue.waitQ)
  BY DEF ProxyInv
<1>2. /\ arrivals' = Append(arrivals, job)
      /\ ScheduleJobs(PushWaitQ(queue, job), exch, osReqNum)
  BY Zenon DEF HandleJobReq2
<1>3. queue.waitQ \in Seq(Jobs) /\ queue = [waitQ |-> queue.waitQ, osQ |-> queue.osQ]
  BY DEF Books
<1>4. job \in Jobs
  <2>1. tm[k] \in SelfMessages
    BY DEF Books
  <2>2. QED
    BY <1>1, <2>1, SelfMessageFacts
<1>5. \A i \in DOMAIN queue.waitQ : queue.waitQ[i].id # job.id
  <2>1. \E w \in Seq(Jobs) : Inserted(queue.waitQ, w, Len(queue.waitQ) + 1, job)
    <3>1. /\ Append(queue.waitQ, job) \in Seq(Jobs)
          /\ Len(Append(queue.waitQ, job)) = Len(queue.waitQ) + 1
          /\ \A i \in 1 .. Len(queue.waitQ) + 1 :
               Append(queue.waitQ, job)[i] =
                 IF i < Len(queue.waitQ) + 1 THEN queue.waitQ[i]
                 ELSE IF i = Len(queue.waitQ) + 1 THEN job ELSE queue.waitQ[i-1]
      BY <1>3, <1>4
    <3>2. QED
      BY <3>1 DEF Inserted
  <2>2. Len(queue.waitQ) + 1 \in 1 .. Len(queue.waitQ) + 1
    BY <1>3
  <2>3. QED
    BY <1>1, <2>1, <2>2, JoinedBooks
<1> HIDE DEF job
<1>6. PICK new \in Seq(Jobs), p \in 1 .. Len(queue.waitQ) + 1 :
        /\ PushWaitQ(queue, job) = [waitQ |-> new, osQ |-> queue.osQ]
        /\ Inserted(queue.waitQ, new, p, job)
        /\ InOrder(Append(arrivals, job), new)
  BY <1>1, <1>3, <1>4, <1>5, PushedInOrder
<1> DEFINE q == [waitQ |-> new, osQ |-> queue.osQ]
<1>7. Books(timers', q, exch, osReqNum)
  BY <1>1, <1>6, JoinedBooks DEF job
<1>11. FlowKept(timers', new, exch)
  <2>1. tm \in Seq(SelfMessages)
    BY DEF Books
  <2>2. QED
    BY <1>1, <1>3, <1>6, <2>1, FlowsJoined DEF job, FlowKept
<1>8. q.waitQ = new /\ arrivals' \in Seq(Jobs)
  BY <1>1, <1>2, <1>4
<1> HIDE DEF q
<1>9. InOrder(arrivals', q.waitQ) /\ ScheduleJobs(q, exch, osReqNum)
  BY <1>2, <1>6, <1>8 DEF q
<1>10. QED
  BY <1>1, <1>7, <1>8, <1>9, <1>11, ScheduleStep

\* The next packet of an exchange comes, and nothing else changes.
LEMMA KeptCame ==
  ASSUME config \in Configurations, NEW tm, NEW q, NEW exch, NEW n, Books(tm, q, exch, n),
         FlowKept(tm, q.waitQ, exch), NEW k \in DOMAIN tm, OneUse => IsNext(tm[k], exch),
         tm[k].self # "SELF_REQ"
  PROVE  FlowKept(RemoveAt(tm, k), q.waitQ, Delivered(exch, tm[k].packet))
<1>1. /\ tm \in Seq(SelfMessages) /\ q.waitQ \in Seq(Jobs)
      /\ exch = [y \in Exchanges |-> exch[y]] /\ \A y \in Exchanges : exch[y] \in EndsOf(y)
  BY DEF Books
<1>2. QED
  BY <1>1, FlowsCame DEF FlowKept

\* The last packet of an exchange gets its place free, at once or after finjob_proc_time.
LEMMA FinStep ==
  ASSUME ProxyInv, Plain, NEW tm, NEW exch, Books(tm, queue, exch, osReqNum),
         FlowKept(tm, queue.waitQ, exch), NEW k \in DOMAIN tm, OneUse => IsNext(tm[k], exch),
         tm[k].self = "SELF_FIN", timers' = RemoveAt(tm, k),
         HandleReadLastWriteFin2(tm[k].packet, exch), UNCHANGED arrivals
  PROVE  Kept
<1> DEFINE pkt == tm[k].packet
           id == ExchangeOf(pkt.id) * RidOffset
           q == EDF!Popped(queue, id)
<1>1. /\ config \in Configurations /\ arrivals \in Seq(Jobs) /\ InOrder(arrivals, queue.waitQ)
  BY DEF ProxyInv
<1>2. ScheduleJobs(PopOsQ(queue, id), Delivered(exch, pkt), osReqNum - 1)
  BY Zenon DEF HandleReadLastWriteFin2, ExchangeOf
<1>3. PopOsQ(queue, id) = q
  BY DEF PopOsQ, Plain
<1>4. Books(timers', q, Delivered(exch, pkt), osReqNum - 1) /\ q.waitQ = queue.waitQ
  BY <1>1, FinBooks
<1>7. FlowKept(timers', queue.waitQ, Delivered(exch, pkt))
  BY <1>1, KeptCame
<1> HIDE DEF q, pkt, id
<1>5. InOrder(arrivals', q.waitQ) /\ arrivals' \in Seq(Jobs)
  BY <1>1, <1>4
<1>6. QED
  BY <1>1, <1>2, <1>3, <1>4, <1>5, <1>7, ScheduleStep

\* Nothing but messages changed.
LEMMA OtherStep ==
  ASSUME ProxyInv, Plain, Books(timers', queue, exchange', osReqNum),
         FlowKept(timers', queue.waitQ, exchange'), UNCHANGED <<queue, osReqNum, arrivals>>
  PROVE  Kept
<1>1. /\ arrivals \in Seq(Jobs) /\ InOrder(arrivals, queue.waitQ)
      /\ ~EDF!CanDispatch(queue, Par.degree)
  BY DEF ProxyInv
<1>2. queue' = queue /\ osReqNum' = osReqNum /\ arrivals' = arrivals
  OBVIOUS
<1>3. QED
  BY <1>1, <1>2 DEF Kept

\* An end sends the packet of message t: it may wait, or pass at once if it need not.
Sendable(t, exch) ==
  /\ FlowKept(Append(timers, t), queue.waitQ, exch)
  /\ OneUse /\ Delay(t.self) \notin Delays => IsNext(t, exch)

\* A packet that does not go through the queue waits, or passes as if it had waited.
LEMMA MinorStep ==
  ASSUME ProxyInv, Plain, NEW pkt, NEW exch,
         Books(Append(timers, [self |-> "SELF_MINOR", packet |-> pkt]), queue, exch, osReqNum),
         Sendable([self |-> "SELF_MINOR", packet |-> pkt], exch),
         HandleMinorReadWrite(pkt, exch)
  PROVE  Kept
<1> DEFINE t == [self |-> "SELF_MINOR", packet |-> pkt]
           tm == Append(timers, t)
           k == Len(timers) + 1
<1>1. UNCHANGED <<queue, osReqNum, arrivals>>
  BY DEF HandleMinorReadWrite
<1>2. CASE "newjob" \in Delays
  <2>1. timers' = tm /\ exchange' = exch
    BY <1>2 DEF HandleMinorReadWrite, Waits
  <2>2. FlowKept(timers', queue.waitQ, exchange')
    BY <2>1, Zenon DEF Sendable
  <2>3. QED
    BY <1>1, <2>1, <2>2, OtherStep
<1>3. CASE "newjob" \notin Delays
  <2>1. timers' = timers /\ exchange' = Delivered(exch, pkt)
    BY <1>3 DEF HandleMinorReadWrite
  <2>2. config \in Configurations /\ timers \in Seq(SelfMessages)
    BY DEF ProxyInv, Books
  <2>3. t \in SelfMessages
    <3>1. tm \in Seq(SelfMessages)
      BY DEF Books
    <3>2. k \in DOMAIN tm /\ tm[k] = t
      <4> HIDE DEF t
      <4>1. QED
        BY <2>2
    <3> HIDE DEF tm, t, k
    <3>3. QED
      BY <3>1, <3>2
  <2>4. t.self = "SELF_MINOR" /\ t.packet = pkt /\ Books(tm, queue, exch, osReqNum)
    OBVIOUS
  <2>8. FlowKept(tm, queue.waitQ, exch) /\ (OneUse => IsNext(t, exch))
    BY <1>3 DEF Sendable, Delay
  <2> HIDE DEF t
  <2>5. k \in DOMAIN tm /\ tm[k] = t /\ RemoveAt(tm, k) = timers
    BY <2>2, <2>3, LastRemoved
  <2> HIDE DEF tm, k
  <2>6. Books(timers, queue, Delivered(exch, pkt), osReqNum)
    BY <2>2, <2>4, <2>5, MinorBooks
  <2>9. FlowKept(timers, queue.waitQ, Delivered(exch, pkt))
    BY <2>2, <2>4, <2>5, <2>8, KeptCame
  <2>7. QED
    BY <1>1, <2>1, <2>6, <2>9, OtherStep
<1>4. QED
  BY <1>2, <1>3

\* So does the last packet of an exchange.
LEMMA LastStep ==
  ASSUME ProxyInv, Plain, NEW pkt, NEW exch,
         Books(Append(timers, [self |-> "SELF_FIN", packet |-> pkt]), queue, exch, osReqNum),
         Sendable([self |-> "SELF_FIN", packet |-> pkt], exch),
         HandleReadLastWriteFin(pkt, exch)
  PROVE  Kept
<1> DEFINE t == [self |-> "SELF_FIN", packet |-> pkt]
           tm == Append(timers, t)
           k == Len(timers) + 1
<1>1. CASE "finjob" \in Delays
  <2>1. timers' = tm /\ exchange' = exch /\ UNCHANGED <<queue, osReqNum, arrivals>>
    BY <1>1 DEF HandleReadLastWriteFin, Waits
  <2>2. FlowKept(timers', queue.waitQ, exchange')
    BY <2>1, Zenon DEF Sendable
  <2>3. QED
    BY <2>1, <2>2, OtherStep
<1>2. CASE "finjob" \notin Delays
  <2>1. HandleReadLastWriteFin2(pkt, exch) /\ timers' = timers /\ UNCHANGED arrivals
    BY <1>2, Zenon DEF HandleReadLastWriteFin
  <2>2. config \in Configurations /\ timers \in Seq(SelfMessages)
    BY DEF ProxyInv, Books
  <2>3. t \in SelfMessages
    <3>1. tm \in Seq(SelfMessages)
      BY DEF Books
    <3>2. k \in DOMAIN tm /\ tm[k] = t
      <4> HIDE DEF t
      <4>1. QED
        BY <2>2
    <3> HIDE DEF tm, t, k
    <3>3. QED
      BY <3>1, <3>2
  <2>4. t.self = "SELF_FIN" /\ t.packet = pkt /\ Books(tm, queue, exch, osReqNum)
    OBVIOUS
  <2>8. FlowKept(tm, queue.waitQ, exch) /\ (OneUse => IsNext(t, exch))
    BY <1>2 DEF Sendable, Delay
  <2> HIDE DEF t
  <2>5. k \in DOMAIN tm /\ tm[k] = t /\ RemoveAt(tm, k) = timers
    BY <2>2, <2>3, LastRemoved
  <2> HIDE DEF tm, k
  <2>6. HandleReadLastWriteFin2(tm[k].packet, exch)
    BY <2>1, <2>4, <2>5, Zenon
  <2>7. QED
    BY <2>1, <2>4, <2>5, <2>6, <2>8, FinStep
<1>3. QED
  BY <1>1, <1>2

\* A client asks.
LEMMA AskedStep ==
  ASSUME ProxyInv, Plain, NEW x \in Exchanges, HandleJobReq(x)
  PROVE  Kept
<1>1. PICK read \in config.reads[x], rise \in config.times :
        LET job   == Job(x, read, rise)
            asked == [exchange EXCEPT ![x] = [Idle EXCEPT !.asked = TRUE, !.read = read,
                                                          !.round = exchange[x].round + 1]]
        IN  /\ ~exchange[x].asked /\ exchange[x].round < config.rounds
            /\ IF "newjob" \in Delays
               THEN /\ Waits("SELF_REQ", job)
                    /\ exchange' = asked
                    /\ UNCHANGED <<queue, osReqNum, arrivals>>
               ELSE /\ HandleJobReq2(job, asked)
                    /\ UNCHANGED timers
  BY Zenon DEF HandleJobReq
<1> DEFINE job == Job(x, read, rise)
           asked == [exchange EXCEPT ![x] = [Idle EXCEPT !.asked = TRUE, !.read = read,
                                                         !.round = exchange[x].round + 1]]
           t == [self |-> "SELF_REQ", packet |-> job]
           tm == Append(timers, t)
           k == Len(timers) + 1
<1>2. /\ config \in Configurations /\ timers \in Seq(SelfMessages)
      /\ Books(timers, queue, exchange, osReqNum) /\ exchange[x] \in EndsOf(x)
      /\ FlowKept(timers, queue.waitQ, exchange)
  BY DEF ProxyInv, Books
<1>3. exchange[x].round + 1 \in Nat \ {0}
  <2>1. exchange[x] \in EndsOf(x)
    BY <1>2
  <2> DEFINE e == exchange[x]
  <2> HIDE DEF e
  <2>2. e.round \in Nat
    BY <2>1 DEF EndsOf, e
  <2>3. QED
    BY <2>2 DEF e
<1>4. job \in RequestsOf(x) /\ job.read = read
  BY AsksFor DEF RequestsOf
<1> HIDE DEF job
<1>5. Books(tm, queue, asked, osReqNum) /\ FlowKept(tm, queue.waitQ, asked)
  <2>1. ~exchange[x].asked /\ exchange[x].round < config.rounds
    BY <1>1, Zenon
  <2> DEFINE round == exchange[x].round + 1
  <2>2. asked = [exchange EXCEPT ![x] = [Idle EXCEPT !.asked = TRUE, !.read = read, !.round = round]]
    OBVIOUS
  <2> HIDE DEF round, asked
  <2>3. round \in Nat /\ round \in Nat \ {0}
    BY <1>3 DEF round
  <2>4. Books(tm, queue, asked, osReqNum)
    BY <1>2, <1>4, <2>1, <2>2, <2>3, AskedBooks, Zenon
  <2>5. FlowKept(tm, queue.waitQ, asked)
    BY <1>2, <1>4, <2>1, <2>2, <2>3, FlowsAsked, Zenon DEF FlowKept
  <2>6. QED
    BY <2>4, <2>5
<1>6. CASE "newjob" \in Delays
  <2>1. timers' = tm /\ exchange' = asked /\ UNCHANGED <<queue, osReqNum, arrivals>>
    BY <1>1, <1>6, Zenon DEF Waits, job
  <2> HIDE DEF tm, asked
  <2>2. QED
    BY <1>5, <2>1, OtherStep
<1>7. CASE "newjob" \notin Delays
  <2> HIDE DEF asked
  <2>1. HandleJobReq2(job, asked) /\ timers' = timers
    BY <1>1, <1>7, Zenon DEF job, asked
  <2>2. t \in SelfMessages
    BY <1>2, <1>4, RequestTimerFacts
  <2>3. t.self = "SELF_REQ" /\ t.packet = job
    OBVIOUS
  <2> HIDE DEF t
  <2>4. k \in DOMAIN tm /\ tm[k] = t /\ RemoveAt(tm, k) = timers
    BY <1>2, <2>2, LastRemoved
  <2> HIDE DEF tm, k
  <2>5. HandleJobReq2(tm[k].packet, asked)
    BY <2>1, <2>3, <2>4, Zenon
  <2>6. QED
    BY <1>5, <2>1, <2>3, <2>4, <2>5, RequestStep
<1>8. QED
  BY <1>6, <1>7

\* What an end sends is the next of the exchange's packets, after those that wait.
LEMMA EndSends ==
  ASSUME ProxyInv, Plain, OneUse, NEW x \in Exchanges, NEW t \in SelfMessages, t.self # "SELF_REQ",
         ExchangeOf(t.packet.id) = x,
         NEW new, \A y \in Exchanges : y # x => new[y] = exchange[y],
         new[x].asked = exchange[x].asked, new[x].round = exchange[x].round,
         new[x].read = exchange[x].read, new[x].forwarded = exchange[x].forwarded,
         \/ /\ exchange[x].fromClient # <<>> /\ t.packet = Head(exchange[x].fromClient)
            /\ new[x].fromClient = Tail(exchange[x].fromClient)
            /\ new[x].fromServer = exchange[x].fromServer
            /\ Delay(t.self) = "newjob"
         \/ /\ exchange[x].fromServer # <<>> /\ t.packet = Head(exchange[x].fromServer)
            /\ new[x].fromServer = Tail(exchange[x].fromServer)
            /\ new[x].fromClient = exchange[x].fromClient
  PROVE  Sendable(t, new)
<1> DEFINE e == exchange[x]
           f == new[x]
<1>1. /\ config \in Configurations /\ Books(timers, queue, exchange, osReqNum)
      /\ Flowing(timers, queue.waitQ, exchange) /\ OnlyDelayed(timers)
  BY DEF ProxyInv, FlowKept
<1>2. /\ timers \in Seq(SelfMessages) /\ queue.waitQ \in Seq(Jobs)
      /\ \A y \in Exchanges : exchange[y] \in EndsOf(y)
  BY <1>1 DEF Books
<1>3. Flowing(Append(timers, t), queue.waitQ, new)
  BY <1>1, <1>2, FlowsSent
<1>4. f.read = e.read /\ f.forwarded = e.forwarded
  OBVIOUS
<1>5. \/ e.fromClient # <<>> /\ t.packet = Head(e.fromClient) /\ Delay(t.self) = "newjob"
      \/ e.fromServer # <<>> /\ t.packet = Head(e.fromServer)
  OBVIOUS
<1>6. e \in EndsOf(x) /\ (Ordered(e) => Flow(timers, e, x))
  BY <1>1, <1>2, Zenon DEF Flowing, Flows
<1> HIDE DEF e, f
<1>7. ASSUME Delay(t.self) \notin Delays, Ordered(f)
      PROVE  t.packet = Nth(x, f.read, Len(f.forwarded) + 1)
  <2>1. Ordered(e)
    BY <1>4, <1>7 DEF Ordered
  <2> DEFINE c == SentOff(e)
  <2>2. /\ Flow(timers, e, x) /\ c = Len(e.forwarded)
    BY <1>1, <1>2, <1>5, <1>6, <1>7, <2>1, NothingAhead
  <2>3. /\ e.fromClient \in Seq(PacketsOf(x, MinorKinds))
        /\ e.fromServer \in Seq(PacketsOf(x, MinorKinds \cup LastKinds))
        /\ \A i \in DOMAIN e.fromClient : e.fromClient[i] = Nth(x, e.read, c + i)
        /\ \A i \in DOMAIN e.fromServer : e.fromServer[i] = Nth(x, e.read, c + i)
    BY <1>1, <1>6, <2>2, FlowFacts
  <2> HIDE DEF c
  <2>4. t.packet = Nth(x, e.read, c + 1)
    <3>1. \A S : \A s \in Seq(S) : s # <<>> => 1 \in DOMAIN s /\ Head(s) = s[1]
      OBVIOUS
    <3>2. QED
      BY <1>5, <2>3, <3>1
  <2>5. QED
    BY <1>4, <2>2, <2>4
<1>8. OneUse /\ Delay(t.self) \notin Delays => IsNext(t, new)
  BY <1>7, Zenon DEF IsNext, f
<1>9. QED
  BY <1>3, <1>8, Zenon DEF Sendable, FlowKept

\* What a client sends may go on its way: it is the next packet, if nothing waits.
LEMMA ClientSends ==
  ASSUME ProxyInv, Plain, NEW x \in Exchanges, exchange[x].fromClient # <<>>
  PROVE  LET pkt == Head(exchange[x].fromClient)
         IN  Sendable([self |-> "SELF_MINOR", packet |-> pkt],
                      [exchange EXCEPT ![x].fromClient = Tail(@)])
<1> DEFINE e == exchange[x]
           pkt == Head(e.fromClient)
           t == [self |-> "SELF_MINOR", packet |-> pkt]
           new == [exchange EXCEPT ![x].fromClient = Tail(@)]
           f == new[x]
<1>1. /\ config \in Configurations /\ e \in EndsOf(x)
      /\ exchange = [y \in Exchanges |-> exchange[y]]
  BY DEF ProxyInv, Books
<1>2. pkt \in PacketsOf(x, MinorKinds)
  BY <1>1 DEF EndsOf
<1>3. \A y \in Exchanges : y # x => new[y] = exchange[y]
  BY <1>1
<1>4. f = [e EXCEPT !.fromClient = Tail(e.fromClient)]
  BY <1>1
<1> HIDE DEF new
<1>5. /\ f.asked = e.asked /\ f.round = e.round /\ f.read = e.read /\ f.forwarded = e.forwarded
      /\ f.fromClient = Tail(e.fromClient) /\ f.fromServer = e.fromServer
  BY <1>1, <1>4 DEF EndsOf
<1>6. ExchangeOf(pkt.id) = x
  BY <1>1, <1>2, PacketFacts
<1> HIDE DEF pkt
<1>7. t \in SelfMessages
  BY <1>1, <1>2, MovingTimerFacts
<1>8. t.self = "SELF_MINOR" /\ t.packet = pkt
  OBVIOUS
<1> HIDE DEF t
<1>9. Delay(t.self) = "newjob"
  BY <1>8 DEF Delay
<1>10. Sendable(t, new)
  <2>1. CASE OneUse
    BY <1>3, <1>5, <1>6, <1>7, <1>8, <1>9, <2>1, EndSends DEF pkt
  <2>2. CASE ~OneUse
    BY <2>2, Zenon DEF Sendable, FlowKept
  <2>3. QED
    BY <2>1, <2>2
<1>11. QED
  BY <1>10, Zenon DEF t, pkt, new

\* What a server sends may go on its way: it is the next packet, if nothing waits.
LEMMA ServerSends ==
  ASSUME ProxyInv, Plain, NEW x \in Exchanges, exchange[x].fromServer # <<>>
  PROVE  LET pkt == Head(exchange[x].fromServer)
         IN  Sendable([self |-> IF pkt.kind \in LastKinds THEN "SELF_FIN" ELSE "SELF_MINOR",
                       packet |-> pkt],
                      [exchange EXCEPT ![x].fromServer = Tail(@)])
<1> DEFINE e == exchange[x]
           pkt == Head(e.fromServer)
           self == IF pkt.kind \in LastKinds THEN "SELF_FIN" ELSE "SELF_MINOR"
           t == [self |-> self, packet |-> pkt]
           new == [exchange EXCEPT ![x].fromServer = Tail(@)]
           f == new[x]
<1>1. /\ config \in Configurations /\ e \in EndsOf(x)
      /\ exchange = [y \in Exchanges |-> exchange[y]]
  BY DEF ProxyInv, Books
<1>2. pkt \in PacketsOf(x, MinorKinds \cup LastKinds)
  BY <1>1 DEF EndsOf
<1>3. \A y \in Exchanges : y # x => new[y] = exchange[y]
  BY <1>1
<1>4. f = [e EXCEPT !.fromServer = Tail(e.fromServer)]
  BY <1>1
<1> HIDE DEF new
<1>5. /\ f.asked = e.asked /\ f.round = e.round /\ f.read = e.read /\ f.forwarded = e.forwarded
      /\ f.fromServer = Tail(e.fromServer) /\ f.fromClient = e.fromClient
  BY <1>1, <1>4 DEF EndsOf
<1>6. /\ ExchangeOf(pkt.id) = x /\ pkt.kind \in MinorKinds \cup LastKinds
      /\ \A more : pkt.kind \in more => pkt \in PacketsOf(x, more)
  BY <1>1, <1>2, PacketFacts
<1> HIDE DEF pkt
<1>7. t \in SelfMessages
  <2>1. CASE pkt.kind \in LastKinds
    <3>1. self = "SELF_FIN" /\ pkt \in PacketsOf(x, LastKinds)
      BY <1>6, <2>1
    <3> HIDE DEF self
    <3>2. QED
      BY <1>1, <3>1, MovingTimerFacts
  <2>2. CASE pkt.kind \notin LastKinds
    <3>1. self = "SELF_MINOR" /\ pkt \in PacketsOf(x, MinorKinds)
      BY <1>6, <2>2
    <3> HIDE DEF self
    <3>2. QED
      BY <1>1, <3>1, MovingTimerFacts
  <2>3. QED
    BY <2>1, <2>2
<1>8. t.self = self /\ t.packet = pkt /\ self # "SELF_REQ"
  OBVIOUS
<1> HIDE DEF t, self
<1>9. Sendable(t, new)
  <2>1. CASE OneUse
    BY <1>3, <1>5, <1>6, <1>7, <1>8, <2>1, EndSends DEF pkt
  <2>2. CASE ~OneUse
    BY <2>2, Zenon DEF Sendable, FlowKept
  <2>3. QED
    BY <2>1, <2>2
<1>10. QED
  BY <1>9, Zenon DEF t, self, pkt, new

\* One of the ends sends a packet.
LEMMA FromClientStep ==
  ASSUME ProxyInv, Plain, NEW x \in Exchanges, FromClient(x)
  PROVE  Kept
<1> DEFINE pkt == Head(exchange[x].fromClient)
           exch == [exchange EXCEPT ![x].fromClient = Tail(@)]
<1>1. exchange[x].fromClient # <<>> /\ HandleMinorReadWrite(pkt, exch)
  BY Zenon DEF FromClient
<1>2. config \in Configurations /\ Books(timers, queue, exchange, osReqNum)
  BY DEF ProxyInv
<1>3. Books(Append(timers, [self |-> "SELF_MINOR", packet |-> pkt]), queue, exch, osReqNum)
  BY <1>1, <1>2, FromClientBooks
<1>4. Sendable([self |-> "SELF_MINOR", packet |-> pkt], exch)
  BY <1>1, ClientSends
<1> HIDE DEF pkt, exch
<1>5. QED
  BY <1>1, <1>3, <1>4, MinorStep

\* The proxy takes a packet from the servers.
LEMMA FromServerStep ==
  ASSUME ProxyInv, Plain, NEW x \in Exchanges, FromServer(x)
  PROVE  Kept
<1> DEFINE pkt == Head(exchange[x].fromServer)
           exch == [exchange EXCEPT ![x].fromServer = Tail(@)]
           self == IF pkt.kind \in LastKinds THEN "SELF_FIN" ELSE "SELF_MINOR"
<1>1. /\ exchange[x].fromServer # <<>>
      /\ IF pkt.kind \in LastKinds THEN HandleReadLastWriteFin(pkt, exch)
                                   ELSE HandleMinorReadWrite(pkt, exch)
  BY Zenon DEF FromServer, LastKinds
<1>2. config \in Configurations /\ Books(timers, queue, exchange, osReqNum)
  BY DEF ProxyInv
<1>3. Books(Append(timers, [self |-> self, packet |-> pkt]), queue, exch, osReqNum)
  BY <1>1, <1>2, FromServerBooks
<1>7. Sendable([self |-> self, packet |-> pkt], exch)
  BY <1>1, ServerSends
<1> HIDE DEF pkt, exch
<1>4. CASE pkt.kind \in LastKinds
  BY <1>1, <1>3, <1>4, <1>7, LastStep
<1>5. CASE pkt.kind \notin LastKinds
  BY <1>1, <1>3, <1>5, <1>7, MinorStep
<1>6. QED
  BY <1>4, <1>5

\* A processing time has passed.
LEMMA SelfMessageStep ==
  ASSUME ProxyInv, Plain, NEW k \in DOMAIN timers, HandleSelfMessage(k)
  PROVE  Kept
<1> DEFINE t == timers[k]
<1>1. /\ timers' = RemoveAt(timers, k)
      /\ \A j \in 1 .. k-1 : Delay(timers[j].self) # Delay(t.self)
      /\ \/ /\ t.self = "SELF_REQ"
            /\ HandleJobReq2(t.packet, exchange)
         \/ /\ t.self = "SELF_FIN"
            /\ HandleReadLastWriteFin2(t.packet, exchange)
            /\ UNCHANGED arrivals
         \/ /\ t.self = "SELF_MINOR"
            /\ exchange' = Delivered(exchange, t.packet)
            /\ UNCHANGED <<queue, osReqNum, arrivals>>
  BY Zenon DEF HandleSelfMessage
<1>2. /\ config \in Configurations /\ Books(timers, queue, exchange, osReqNum)
      /\ FlowKept(timers, queue.waitQ, exchange) /\ OnlyDelayed(timers)
  BY DEF ProxyInv
<1>7. ASSUME OneUse, t.self # "SELF_REQ"
      PROVE  IsNext(t, exchange)
  <2> DEFINE x == ExchangeOf(t.packet.id)
             e == exchange[x]
  <2>1. /\ timers \in Seq(SelfMessages) /\ \A y \in Exchanges : exchange[y] \in EndsOf(y)
    BY <1>2 DEF Books
  <2>2. t \in SelfMessages
    BY <2>1
  <2>3. x \in Exchanges /\ Later(t, x)
    BY <1>2, <1>7, <2>2, LaterFacts
  <2>4. e \in EndsOf(x) /\ (Ordered(e) => Flow(timers, e, x))
    BY <1>2, <1>7, <2>1, <2>3, Zenon DEF FlowKept, Flowing, Flows
  <2> HIDE DEF x, e
  <2>5. Ordered(e) => t.packet = Nth(x, e.read, Len(e.forwarded) + 1)
    BY <1>1, <1>2, <2>1, <2>3, <2>4, FirstIsNext
  <2>6. QED
    BY <2>5, Zenon DEF IsNext, e, x
<1>3. CASE t.self = "SELF_REQ" /\ HandleJobReq2(t.packet, exchange)
  BY <1>1, <1>2, <1>3, RequestStep
<1>4. CASE t.self = "SELF_FIN" /\ HandleReadLastWriteFin2(t.packet, exchange) /\ UNCHANGED arrivals
  BY <1>1, <1>2, <1>4, <1>7, FinStep
<1>5. CASE /\ t.self = "SELF_MINOR"
           /\ exchange' = Delivered(exchange, t.packet)
           /\ UNCHANGED <<queue, osReqNum, arrivals>>
  <2>1. Books(timers', queue, exchange', osReqNum)
    BY <1>1, <1>2, <1>5, MinorBooks
  <2>2. FlowKept(timers', queue.waitQ, exchange')
    BY <1>1, <1>2, <1>5, <1>7, KeptCame
  <2>3. QED
    BY <1>5, <2>1, <2>2, OtherStep
<1>6. QED
  BY <1>1, <1>3, <1>4, <1>5

\* A message waits only if its processing time is not 0.
LEMMA OnlyDelayedKept ==
  ASSUME ProxyInv, Plain, [Next]_vars
  PROVE  OnlyDelayed(timers')
<1>1. timers \in Seq(SelfMessages) /\ OnlyDelayed(timers)
  BY DEF ProxyInv, Books
<1>2. ASSUME NEW self, NEW pkt, Waits(self, pkt), Delay(self) \in Delays
      PROVE  OnlyDelayed(timers')
  <2> DEFINE t == [self |-> self, packet |-> pkt]
             tm == Append(timers, t)
  <2>1. /\ DOMAIN tm = 1 .. Len(timers) + 1 /\ DOMAIN timers = 1 .. Len(timers) /\ Len(timers) \in Nat
        /\ tm[Len(timers) + 1] = t /\ \A k \in 1 .. Len(timers) : tm[k] = timers[k]
    BY <1>1
  <2>2. t.self = self /\ timers' = tm
    BY <1>2, Zenon DEF Waits
  <2> HIDE DEF t, tm
  <2>3. ASSUME NEW k \in DOMAIN tm
        PROVE  Delay(tm[k].self) \in Delays
    <3>1. CASE k = Len(timers) + 1
      BY <1>2, <2>1, <2>2, <3>1
    <3>2. CASE k # Len(timers) + 1
      <4>1. k \in DOMAIN timers /\ tm[k] = timers[k]
        BY <2>1, <3>2
      <4>2. QED
        BY <1>1, <4>1 DEF OnlyDelayed
    <3>3. QED
      BY <3>1, <3>2
  <2>4. QED
    BY <2>2, <2>3, Zenon DEF OnlyDelayed
<1>3. /\ Delay("SELF_REQ") = "newjob" /\ Delay("SELF_MINOR") = "newjob" /\ Delay("SELF_FIN") = "finjob"
  BY DEF Delay
<1>4. ASSUME timers' = timers
      PROVE  OnlyDelayed(timers')
  BY <1>1, <1>4
<1>5. ASSUME NEW pkt, NEW exch, HandleMinorReadWrite(pkt, exch)
      PROVE  OnlyDelayed(timers')
  <2>1. CASE "newjob" \in Delays
    <3>1. Waits("SELF_MINOR", pkt)
      BY <1>5, <2>1, Zenon DEF HandleMinorReadWrite
    <3>2. QED
      BY <1>2, <1>3, <2>1, <3>1
  <2>2. CASE "newjob" \notin Delays
    BY <1>4, <1>5, <2>2 DEF HandleMinorReadWrite
  <2>3. QED
    BY <2>1, <2>2
<1>6. ASSUME NEW pkt, NEW exch, HandleReadLastWriteFin(pkt, exch)
      PROVE  OnlyDelayed(timers')
  <2>1. CASE "finjob" \in Delays
    <3>1. Waits("SELF_FIN", pkt)
      BY <1>6, <2>1, Zenon DEF HandleReadLastWriteFin
    <3>2. QED
      BY <1>2, <1>3, <2>1, <3>1
  <2>2. CASE "finjob" \notin Delays
    <3>1. timers' = timers
      BY <1>6, <2>2 DEF HandleReadLastWriteFin
    <3>2. QED
      BY <1>4, <3>1
  <2>3. QED
    BY <2>1, <2>2
<1>7. ASSUME NEW x \in Exchanges, HandleJobReq(x)
      PROVE  OnlyDelayed(timers')
  <2>1. CASE "newjob" \in Delays
    <3>1. \E job : Waits("SELF_REQ", job)
      BY <1>7, <2>1, Zenon DEF HandleJobReq
    <3>2. QED
      BY <1>2, <1>3, <2>1, <3>1
  <2>2. CASE "newjob" \notin Delays
    <3>1. UNCHANGED timers
      BY <1>7, <2>2, Zenon DEF HandleJobReq
    <3>2. QED
      BY <1>4, <3>1
  <2>3. QED
    BY <2>1, <2>2
<1>8. ASSUME NEW x \in Exchanges, FromClient(x)
      PROVE  OnlyDelayed(timers')
  BY <1>5, <1>8, Zenon DEF FromClient
<1>9. ASSUME NEW x \in Exchanges, FromServer(x)
      PROVE  OnlyDelayed(timers')
  BY <1>5, <1>6, <1>9, Zenon DEF FromServer
<1>10. ASSUME NEW k \in DOMAIN timers, HandleSelfMessage(k)
       PROVE  OnlyDelayed(timers')
  <2>1. timers' = RemoveAt(timers, k)
    BY <1>10, Zenon DEF HandleSelfMessage
  <2>2. \A j \in DOMAIN RemoveAt(timers, k) :
          \E i \in DOMAIN timers : RemoveAt(timers, k)[j] = timers[i]
    BY <1>1, RemovedPlaces
  <2>3. QED
    BY <1>1, <2>1, <2>2 DEF OnlyDelayed
<1>11. HandleAlgorithmTimer \/ Tick \/ UNCHANGED vars => timers' = timers
  BY DEF HandleAlgorithmTimer, Tick, vars
<1>12. QED
  BY <1>4, <1>7, <1>8, <1>9, <1>10, <1>11, Zenon DEF Next

-----------------------------------------------------------------------------
(* The invariant. *)

\* Nothing of an exchange that nobody asked for yet waits.
LEMMA IdleFlows ==
  ASSUME config \in Configurations, NEW x \in Exchanges, NEW tm, DOMAIN tm = {}
  PROVE  Flow(tm, Idle, x)
<1>1. /\ Idle.asked = FALSE /\ Idle.read = FALSE
      /\ Idle.fromClient = <<>> /\ Idle.fromServer = <<>> /\ Idle.forwarded = <<>>
  BY IdleFacts
<1>2. Length(FALSE) \in Nat
  BY NthFacts
<1>3. Len(Idle.forwarded) = 0 /\ Len(Idle.fromClient) = 0 /\ Len(Idle.fromServer) = 0
  BY <1>1
<1>4. SentOff(Idle) = 0
  <2>1. Made(Idle.read, 0) = 0
    BY DEF Made
  <2>2. QED
    BY <1>3, <2>1 DEF SentOff
<1>5. ~ByClient(Idle.read, 0)
  <2>1. ~(0 \in 2 .. Packets + 1)
    OBVIOUS
  <2>2. QED
    BY <2>1 DEF ByClient
<1>6. Waiting(tm, x, Idle.read, 0 + 1, 0)
  <2>1. 0 + 1 .. 0 = {}
    OBVIOUS
  <2>2. QED
    BY <2>1, Zenon DEF Waiting
<1>7. DOMAIN Idle.fromClient = {} /\ DOMAIN Idle.fromServer = {} /\ 1 .. Len(Idle.forwarded) = {}
  BY <1>1
<1>8. /\ Len(Idle.forwarded) <= SentOff(Idle) /\ Len(Idle.forwarded) <= Length(Idle.read)
      /\ Len(Idle.forwarded) \in {0, Length(Idle.read)}
  <2> DEFINE m == Len(Idle.forwarded)
             l == Length(Idle.read)
             c == SentOff(Idle)
  <2>1. l = Length(FALSE)
    BY <1>1, Zenon
  <2>2. l \in Nat
    BY <1>2, <2>1, Zenon
  <2>3. m = 0 /\ c = 0
    BY <1>3, <1>4
  <2> HIDE DEF m, l, c
  <2>4. m <= c /\ m <= l /\ m \in {0, l}
    BY <2>2, <2>3
  <2>5. QED
    BY <2>4 DEF m, l, c
<1>9. /\ ~ByClient(Idle.read, Len(Idle.forwarded)) /\ Idle.fromClient = <<>>
      /\ Waiting(tm, x, Idle.read, Len(Idle.forwarded) + 1, SentOff(Idle))
  BY <1>1, <1>3, <1>4, <1>5, <1>6
<1>10. ~Idle.asked
  BY <1>1
<1>11. QED
  BY <1>7, <1>8, <1>9, <1>10, Zenon DEF Flow

\* At first nothing waits and nothing is at the server.
LEMMA InitProxy == Init => ProxyInv
<1> SUFFICES ASSUME Init PROVE ProxyInv
  OBVIOUS
<1>1. /\ config \in Configurations /\ timers = <<>> /\ queue \in NewSchedulers
      /\ arrivals = <<>> /\ exchange = [x \in Exchanges |-> Idle] /\ osReqNum = 0
  BY DEF Init
<1>2. ASSUME Plain
      PROVE  /\ Books(timers, queue, exchange, osReqNum)
             /\ arrivals \in Seq(Jobs) /\ InOrder(arrivals, queue.waitQ)
             /\ ~EDF!CanDispatch(queue, Par.degree)
             /\ FlowKept(timers, queue.waitQ, exchange) /\ OnlyDelayed(timers)
  <2>1. queue = [waitQ |-> <<>>, osQ |-> <<>>]
    BY <1>1, <1>2 DEF NewSchedulers, EDF!EmptyQueue, Plain
  <2>2. queue.waitQ = <<>> /\ queue.osQ = <<>>
    BY <2>1
  <2>3. queue \in [waitQ : Seq(Jobs), osQ : Seq(Jobs)] /\ arrivals \in Seq(Jobs)
    BY <1>1, <2>1
  <2>4. InOrder(arrivals, queue.waitQ)
    <3>1. DOMAIN queue.waitQ = {}
      BY <2>2
    <3>2. QED
      BY <3>1 DEF InOrder
  <2>5. ~EDF!CanDispatch(queue, Par.degree)
    BY <2>2 DEF EDF!CanDispatch
  <2>6. /\ Idle.asked = FALSE /\ Idle.round = 0 /\ Idle.read = FALSE
        /\ Idle.fromClient = <<>> /\ Idle.fromServer = <<>> /\ Idle.forwarded = <<>>
    BY DEF Idle
  <2>7. ASSUME NEW x \in Exchanges
        PROVE  exchange[x] \in EndsOf(x) /\ Balanced(timers, queue, exchange, x)
    <3>1. exchange[x] = Idle
      BY <1>1
    <3>2. Idle \in EndsOf(x)
      <4>1. \A S : <<>> \in Seq(S)
        OBVIOUS
      <4>2. FALSE \in config.reads[x] \cup {FALSE} /\ FALSE \in BOOLEAN /\ 0 \in Nat
        OBVIOUS
      <4>3. QED
        BY <4>1, <4>2, Zenon DEF EndsOf, Idle
    <3>3. /\ Before(timers, queue, x) = 0 /\ After(timers, exchange, x) = 0
          /\ CountIn(queue.osQ, RequestsOf(x)) = 0
      <4>1. \A D : CountIn(<<>>, D) = 0
        BY CountInNone
      <4>2. Before(timers, queue, x) = 0 + 0 /\ After(timers, exchange, x) = 0 + (0 + 0)
        BY <1>1, <2>2, <2>6, <3>1, <4>1, Zenon DEF Before, After, OnTheWay
      <4>3. QED
        BY <2>2, <4>1, <4>2
    <3>4. QED
      BY <2>6, <3>1, <3>2, <3>3 DEF Balanced
  <2>8. osReqNum = Len(queue.osQ) /\ (Par.degree >= 0 => Len(queue.osQ) <= Par.degree)
    <3>1. Par.degree \in Int
      BY <1>1, ProxyAssumption DEF Par
    <3>2. QED
      BY <1>1, <2>2, <3>1
  <2>9. timers \in Seq(SelfMessages) /\ exchange = [x \in Exchanges |-> exchange[x]]
    BY <1>1
  <2>10. Books(timers, queue, exchange, osReqNum)
    BY <2>3, <2>7, <2>8, <2>9 DEF Books
  <2>11. DOMAIN timers = {} /\ DOMAIN queue.waitQ = {}
    BY <1>1, <2>2
  <2>12. OnlyDelayed(timers) /\ AsAsked(timers, queue.waitQ, exchange)
    BY <2>11 DEF OnlyDelayed, AsAsked
  <2>13. Flows(timers, exchange)
    <3>1. ASSUME NEW x \in Exchanges
          PROVE  exchange[x] = Idle /\ Flow(timers, Idle, x)
      BY <1>1, <2>11, IdleFlows
    <3>2. QED
      BY <3>1 DEF Flows
  <2>14. QED
    BY <2>3, <2>4, <2>5, <2>10, <2>12, <2>13 DEF FlowKept, Flowing
<1>3. QED
  BY <1>1, <1>2 DEF ProxyInv

\* Every handler keeps the invariant.
LEMMA StepProxy == ProxyInv /\ [Next]_vars => ProxyInv'
<1> SUFFICES ASSUME ProxyInv, [Next]_vars PROVE ProxyInv'
  OBVIOUS
<1>1. config' = config
  BY DEF Next, vars, HandleAlgorithmTimer, Tick
<1>2. ASSUME Plain
      PROVE  Kept
  <2>1. CASE \E x \in Exchanges : HandleJobReq(x)
    BY <1>2, <2>1, AskedStep
  <2>2. CASE \E x \in Exchanges : FromClient(x)
    BY <1>2, <2>2, FromClientStep
  <2>3. CASE \E x \in Exchanges : FromServer(x)
    BY <1>2, <2>3, FromServerStep
  <2>4. CASE \E k \in DOMAIN timers : HandleSelfMessage(k)
    BY <1>2, <2>4, SelfMessageStep
  <2>5. ~HandleAlgorithmTimer
    BY <1>2, Zenon DEF HandleAlgorithmTimer, Plain
  <2>6. ASSUME UNCHANGED <<queue, osReqNum, timers, arrivals, exchange>>
        PROVE  Kept
    <3>1. Books(timers', queue, exchange', osReqNum) /\ FlowKept(timers', queue.waitQ, exchange')
      BY <1>2, <2>6 DEF ProxyInv
    <3>2. QED
      BY <1>2, <2>6, <3>1, OtherStep
  <2>7. CASE Tick
    BY <2>6, <2>7 DEF Tick
  <2>8. CASE UNCHANGED vars
    BY <2>6, <2>8 DEF vars
  <2>9. QED
    BY <2>1, <2>2, <2>3, <2>4, <2>5, <2>7, <2>8, Zenon DEF Next
<1>3. QED
  BY <1>1, <1>2, OnlyDelayedKept, KeptInv DEF ProxyInv

\* The invariant always holds.
LEMMA ProxyInvariant == Spec => []ProxyInv
  BY InitProxy, StepProxy, PTL DEF Spec

-----------------------------------------------------------------------------
(* What the invariant says of the proxy. *)

\* A job is at the server as long as its exchange is there.
LEMMA AtServerFacts ==
  ASSUME ProxyInv, Plain
  PROVE  /\ \A i \in DOMAIN queue.osQ : /\ ExchangeOf(queue.osQ[i].id) \in AtServer
                                        /\ queue.osQ[i].id = ExchangeOf(queue.osQ[i].id) * RidOffset
         /\ \A x \in AtServer : \E i \in DOMAIN queue.osQ :
              queue.osQ[i].id = x * RidOffset /\ ExchangeOf(queue.osQ[i].id) = x
<1>1. /\ config \in Configurations /\ Books(timers, queue, exchange, osReqNum)
      /\ queue.osQ \in Seq(Jobs)
  BY DEF ProxyInv, Books
<1>2. ASSUME NEW x \in Exchanges
      PROVE  /\ CountIn(queue.osQ, RequestsOf(x)) # 0 <=> exchange[x].asked /\ Sent(exchange[x])
             /\ CountIn(queue.osQ, RequestsOf(x)) # 0 <=>
                  \E i \in DOMAIN queue.osQ : queue.osQ[i] \in RequestsOf(x)
  <2> DEFINE rt == CountIn(timers, RequestTimers(x))
             mt == CountIn(timers, MovingTimers(x))
             w  == CountIn(queue.waitQ, RequestsOf(x))
             o  == CountIn(queue.osQ, RequestsOf(x))
             e  == OnTheWay(exchange[x], x)
  <2>1. /\ rt \in Nat /\ mt \in Nat /\ w \in Nat /\ o \in Nat /\ e \in Nat
        /\ ~exchange[x].asked => rt = 0 /\ mt = 0 /\ w = 0 /\ o = 0 /\ e = 0
        /\ exchange[x].asked => /\ rt + w + mt + e = 1 /\ o = mt + e
                                /\ (Sent(exchange[x]) <=> o = 1)
    BY <1>1, BooksNumbers
  <2> HIDE DEF rt, mt, w, o, e
  <2>2. o # 0 <=> exchange[x].asked /\ Sent(exchange[x])
    BY <2>1
  <2>3. o = 0 <=> \A i \in DOMAIN queue.osQ : queue.osQ[i] \notin RequestsOf(x)
    BY <1>1, CountInNat DEF o
  <2>4. QED
    BY <2>2, <2>3 DEF o
<1>3. AtServer = {x \in Exchanges : exchange[x].asked /\ Sent(exchange[x])}
  BY Zenon DEF AtServer, Sent, RequestKinds
<1>4. ASSUME NEW i \in DOMAIN queue.osQ
      PROVE  /\ ExchangeOf(queue.osQ[i].id) \in AtServer
             /\ queue.osQ[i].id = ExchangeOf(queue.osQ[i].id) * RidOffset
  <2> DEFINE x == ExchangeOf(queue.osQ[i].id)
  <2>1. queue.osQ[i] \in Jobs
    BY <1>1
  <2>2. x \in Exchanges /\ queue.osQ[i] \in RequestsOf(x) /\ queue.osQ[i].id = x * RidOffset
    BY <1>1, <2>1, JobFacts
  <2> HIDE DEF x
  <2>3. exchange[x].asked /\ Sent(exchange[x])
    BY <1>2, <2>2
  <2>4. QED
    BY <1>3, <2>2, <2>3 DEF x
<1>5. ASSUME NEW x \in AtServer
      PROVE  \E i \in DOMAIN queue.osQ :
               queue.osQ[i].id = x * RidOffset /\ ExchangeOf(queue.osQ[i].id) = x
  <2>1. x \in Exchanges /\ exchange[x].asked /\ Sent(exchange[x])
    BY <1>3
  <2>2. PICK i \in DOMAIN queue.osQ : queue.osQ[i] \in RequestsOf(x)
    BY <1>2, <2>1
  <2>3. QED
    BY <1>1, <2>1, <2>2, RequestFacts
<1>6. QED
  BY <1>4, <1>5

\* Under FIFO and EDF the places of the scheduler are the requests at the servers: the
\* answer that frees a place finds the record of its own request, no place is lost or
\* freed twice, and there are never more than the degree.
THEOREM ProxySlotsMatchServer == Spec => [](Plain => SlotsMatchServer)
<1>1. ASSUME ProxyInv, Plain
      PROVE  SlotsMatchServer
  <2> DEFINE o == queue.osQ
             f == [i \in 1 .. Len(o) |-> ExchangeOf(o[i].id)]
  <2>1. Outstanding = o /\ Limited = {Len(o)}
    BY <1>1 DEF Outstanding, Limited, Plain
  <2>2. /\ config \in Configurations /\ Books(timers, queue, exchange, osReqNum)
        /\ o \in Seq(Jobs) /\ osReqNum = Len(o) /\ (Par.degree >= 0 => Len(o) <= Par.degree)
    BY <1>1 DEF ProxyInv, Books
  <2>3. /\ \A i \in DOMAIN o : /\ ExchangeOf(o[i].id) \in AtServer
                               /\ o[i].id = ExchangeOf(o[i].id) * RidOffset
        /\ \A x \in AtServer : \E i \in DOMAIN o : o[i].id = x * RidOffset /\ ExchangeOf(o[i].id) = x
    BY <1>1, AtServerFacts
  <2>4. Len(o) \in Nat /\ DOMAIN o = 1 .. Len(o)
    BY <2>2
  <2>5. {job.id : job \in ToSet(o)} = {x * RidOffset : x \in AtServer}
    <3>1. ToSet(o) = {o[i] : i \in DOMAIN o}
      BY DEF ToSet
    <3> HIDE DEF o
    <3>2. QED
      BY <2>3, <3>1
  <2>6. IsFiniteSet(AtServer)
    <3>1. IsFiniteSet(Exchanges)
      BY <2>2, ProxyAssumption DEF Exchanges
    <3>2. AtServer \in SUBSET Exchanges
      BY DEF AtServer
    <3>3. QED
      BY <3>1, <3>2, FS_Subset
  <2>7. Len(o) = Cardinality(AtServer)
    <3>1. f \in [1 .. Len(o) -> AtServer]
      BY <2>3, <2>4
    <3>2. \A i, j \in 1 .. Len(o) : f[i] = f[j] => i = j
      BY <2>2, <2>4, OneRequestEach
    <3>3. \A x \in AtServer : \E i \in 1 .. Len(o) : f[i] = x
      BY <2>3, <2>4
    <3> HIDE DEF f, o
    <3>4. QED
      BY <2>4, <2>6, <3>1, <3>2, <3>3, PlacesOfDistinct
  <2>8. QED
    BY <2>1, <2>2, <2>5, <2>7 DEF SlotsMatchServer
<1>2. ProxyInv => (Plain => SlotsMatchServer)
  BY <1>1
<1>3. QED
  BY <1>2, ProxyInvariant, PTL

\* Under FIFO and EDF no request ever waits that there is room for: every handler that
\* makes room or adds a request goes on to dispatch, as often as it can.
THEOREM ProxyWorkConserving == Spec => [](Plain => WorkConserving)
<1>1. ASSUME ProxyInv, Plain
      PROVE  WorkConserving
  <2>1. ~EDF!CanDispatch(queue, Par.degree)
    BY <1>1 DEF ProxyInv
  <2>2. QED
    BY <1>1, <2>1, Zenon DEF WorkConserving, Plain
<1>2. ProxyInv => (Plain => WorkConserving)
  BY <1>1
<1>3. QED
  BY <1>2, ProxyInvariant, PTL

\* Under FIFO and EDF requests wait by deadline, and by arrival among equals, however
\* requests and answers come and processing times pass.
THEOREM ProxyWaitInOrder == Spec => [](Plain => WaitInOrder)
<1>1. ASSUME ProxyInv, Plain
      PROVE  WaitInOrder
  <2>1. InOrder(arrivals, queue.waitQ)
    BY <1>1 DEF ProxyInv
  <2>2. WaitQueues = {queue.waitQ}
    BY <1>1 DEF WaitQueues, Plain
  <2>3. \A job : ArrivalIn(arrivals, job) = Arrival(job)
    BY Zenon DEF ArrivalIn, Arrival
  <2>4. WaitByDeadline
    BY <2>1, <2>2 DEF WaitByDeadline, InOrder
  <2>5. EqualsInOrder
    BY <2>1, <2>2, <2>3 DEF EqualsInOrder, InOrder
  <2>6. QED
    BY <2>4, <2>5 DEF WaitInOrder
<1>2. ProxyInv => (Plain => WaitInOrder)
  BY <1>1
<1>3. QED
  BY <1>2, ProxyInvariant, PTL
\* The kinds of all the packets of an exchange, as the ends send them.
LEMMA WholeSequence ==
  ASSUME config \in Configurations, NEW x \in Exchanges, NEW read \in BOOLEAN
  PROVE  LET all == IF read THEN <<"PFS_R_REQ">> \o Kinds(ReadData(x))
                    ELSE <<"PFS_W_REQ", "PFS_W_RESP">> \o Kinds(WriteData(x)) \o <<"PFS_W_FIN">>
         IN  /\ all \in Seq(AllKinds) /\ Len(all) = Length(read)
             /\ \A i \in 1 .. Length(read) : all[i] = KindAt(read, i)
<1> DEFINE n == Packets
           r == Kinds(ReadData(x))
           w == Kinds(WriteData(x))
<1>1. n \in Nat \ {0} /\ Length(read) = IF read THEN n + 1 ELSE n + 3
  BY NthFacts
<1>2. /\ ReadData(x) \in Seq(PacketsOf(x, MinorKinds \cup LastKinds))
      /\ WriteData(x) \in Seq(PacketsOf(x, MinorKinds))
      /\ Len(ReadData(x)) = n /\ Len(WriteData(x)) = n
      /\ \A i \in 1 .. n : ReadData(x)[i] = Nth(x, TRUE, i + 1)
      /\ \A i \in 1 .. n : WriteData(x)[i] = Nth(x, FALSE, i + 2)
  BY DataFacts, DataPlaces
<1>3. \A b \in BOOLEAN : \A i : Nth(x, b, i).kind = KindAt(b, i)
  BY DEF Nth
<1> HIDE DEF n
<1>4. /\ DOMAIN r = 1 .. n /\ r = [i \in 1 .. n |-> r[i]] /\ \A i \in 1 .. n : r[i] = KindAt(TRUE, i + 1)
      /\ DOMAIN w = 1 .. n /\ w = [i \in 1 .. n |-> w[i]] /\ \A i \in 1 .. n : w[i] = KindAt(FALSE, i + 2)
  <2>1. DOMAIN ReadData(x) = 1 .. n /\ DOMAIN WriteData(x) = 1 .. n
    BY <1>2
  <2>2. QED
    BY <1>2, <1>3, <2>1 DEF Kinds
<1> HIDE DEF r, w
<1>5. /\ KindAt(TRUE, 1) = "PFS_R_REQ" /\ KindAt(FALSE, 1) = "PFS_W_REQ"
      /\ KindAt(FALSE, 2) = "PFS_W_RESP" /\ KindAt(FALSE, n + 3) = "PFS_W_FIN"
  BY <1>1 DEF KindAt, n
<1>10. ASSUME NEW i \in 1 .. n
       PROVE  KindAt(TRUE, i + 1) \in AllKinds /\ KindAt(FALSE, i + 2) \in AllKinds
  <2>1. i + 1 \in 1 .. Length(TRUE) /\ i + 2 \in 1 .. Length(FALSE)
    <3> DEFINE long == Length(TRUE)
               short == Length(FALSE)
    <3>1. long = n + 1 /\ short = n + 3
      BY DEF Length, n
    <3> HIDE DEF long, short
    <3>2. i + 1 \in 1 .. long /\ i + 2 \in 1 .. short
      BY <1>1, <3>1
    <3>3. QED
      BY <3>2 DEF long, short
  <2>2. QED
    BY <2>1, NthFacts
<1>6. r \in Seq(AllKinds) /\ Len(r) = n /\ w \in Seq(AllKinds) /\ Len(w) = n
  <2>1. \A i \in 1 .. n : r[i] \in AllKinds /\ w[i] \in AllKinds
    BY <1>4, <1>10
  <2>2. n \in Nat
    BY <1>1
  <2>3. r \in [1 .. n -> AllKinds] /\ w \in [1 .. n -> AllKinds]
    BY <1>4, <2>1, Zenon
  <2>4. QED
    BY <2>2, <2>3
<1>7. CASE read
  <2> DEFINE all == <<"PFS_R_REQ">> \o r
  <2>1. /\ all \in Seq(AllKinds) /\ Len(all) = n + 1
        /\ all[1] = "PFS_R_REQ" /\ \A i \in 1 .. n : all[i + 1] = r[i]
    BY <1>1, <1>6 DEF AllKinds, RequestKinds
  <2> HIDE DEF all
  <2>2. ASSUME NEW i \in 1 .. n + 1
        PROVE  all[i] = KindAt(TRUE, i)
    <3>1. CASE i = 1
      BY <1>5, <2>1, <3>1
    <3>2. CASE i # 1
      <4> DEFINE j == i - 1
      <4>1. j \in 1 .. n /\ j + 1 = i
        BY <1>1, <3>2
      <4> HIDE DEF j
      <4>2. all[j + 1] = r[j] /\ r[j] = KindAt(TRUE, j + 1)
        BY <1>4, <2>1, <4>1
      <4>3. QED
        BY <4>1, <4>2
    <3>3. QED
      BY <3>1, <3>2
  <2>3. QED
    BY <1>1, <1>7, <2>1, <2>2 DEF all, r
<1>8. CASE ~read
  <2> DEFINE all == <<"PFS_W_REQ", "PFS_W_RESP">> \o w \o <<"PFS_W_FIN">>
  <2>1. /\ all \in Seq(AllKinds) /\ Len(all) = n + 3
        /\ all[1] = "PFS_W_REQ" /\ all[2] = "PFS_W_RESP" /\ all[n + 3] = "PFS_W_FIN"
        /\ \A i \in 1 .. n : all[i + 2] = w[i]
    BY <1>1, <1>6 DEF AllKinds, RequestKinds, MinorKinds, LastKinds
  <2> HIDE DEF all
  <2>2. ASSUME NEW i \in 1 .. n + 3
        PROVE  all[i] = KindAt(FALSE, i)
    <3>1. CASE i = 1
      BY <1>5, <2>1, <3>1
    <3>2. CASE i = 2
      BY <1>5, <2>1, <3>2
    <3>3. CASE i = n + 3
      BY <1>5, <2>1, <3>3
    <3>4. CASE i # 1 /\ i # 2 /\ i # n + 3
      <4> DEFINE j == i - 2
      <4>1. j \in 1 .. n /\ j + 2 = i
        BY <1>1, <3>4
      <4> HIDE DEF j
      <4>2. all[j + 2] = w[j] /\ w[j] = KindAt(FALSE, j + 2)
        BY <1>4, <2>1, <4>1
      <4>3. QED
        BY <4>1, <4>2
    <3>5. QED
      BY <3>1, <3>2, <3>3, <3>4
  <2>3. QED
    BY <1>1, <1>8, <2>1, <2>2 DEF all, w
<1>9. QED
  BY <1>7, <1>8

\* Under FIFO and EDF the packets of an exchange pass the proxy in the order in which its
\* ends sent them, each once, whatever waits for a processing time and whatever happens to
\* other exchanges.  Where newjob_proc_time holds the data of reads, the property excepts
\* reads, and OneUse says that no identifier is used for a read and again for a write: late
\* data of the read would pass among the packets of the write.
THEOREM ProxyForwardsInOrder == Spec => [](Plain /\ OneUse => ForwardedInOrder)
<1>1. ASSUME ProxyInv, Plain, OneUse
      PROVE  ForwardedInOrder
  <2>1. /\ config \in Configurations /\ Flows(timers, exchange)
        /\ \A x \in Exchanges : exchange[x] \in EndsOf(x)
    BY <1>1 DEF ProxyInv, FlowKept, Flowing, Books
  <2>2. ASSUME NEW x \in Exchanges, ~("newjob" \in Delays /\ exchange[x].read)
        PROVE  IsPrefix(exchange[x].forwarded,
                 IF exchange[x].read
                 THEN <<"PFS_R_REQ">> \o Kinds(ReadData(x))
                 ELSE <<"PFS_W_REQ", "PFS_W_RESP">> \o Kinds(WriteData(x)) \o <<"PFS_W_FIN">>)
    <3> DEFINE e == exchange[x]
               s == e.forwarded
               r == Kinds(ReadData(x))
               w == Kinds(WriteData(x))
               all == IF e.read THEN <<"PFS_R_REQ">> \o r
                      ELSE <<"PFS_W_REQ", "PFS_W_RESP">> \o w \o <<"PFS_W_FIN">>
    <3>1. Ordered(e)
      BY <2>2, Zenon DEF Ordered
    <3>2. Flow(timers, e, x) /\ e \in EndsOf(x)
      BY <2>1, <3>1, Zenon DEF Flows
    <3> HIDE DEF e
    <3>3. /\ e.read \in BOOLEAN /\ Len(s) \in Nat /\ Len(s) <= Length(e.read) /\ s \in Seq(AllKinds)
          /\ \A i \in 1 .. Len(s) : s[i] = KindAt(e.read, i)
      BY <2>1, <3>2, FlowFacts
    <3>4. all \in Seq(AllKinds) /\ Len(all) = Length(e.read)
          /\ \A i \in 1 .. Length(e.read) : all[i] = KindAt(e.read, i)
      BY <2>1, <3>3, WholeSequence
    <3> HIDE DEF all, s
    <3>5. IsPrefix(s, all)
      <4>1. Len(s) <= Len(all) /\ \A i \in 1 .. Len(s) : s[i] = all[i]
        BY <3>3, <3>4, NthFacts
      <4>2. SubSeq(s, 1, Len(s)) = SubSeq(all, 1, Len(s))
        BY <3>3, <3>4, <4>1
      <4>3. QED
        BY <4>1, <4>2 DEF IsPrefix
    <3>6. QED
      BY <3>5, Zenon DEF all, s, e
  <2>3. QED
    BY <2>2, Zenon DEF ForwardedInOrder
<1>2. ProxyInv => (Plain /\ OneUse => ForwardedInOrder)
  BY <1>1
<1>3. QED
  BY <1>2, ProxyInvariant, PTL
=============================================================================
