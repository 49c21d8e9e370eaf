------------------------------- MODULE Proxy -------------------------------
(***************************************************************************)
(* A proxy in front of data servers: proxy/Proxy.cc with the scheduler its *)
(* parameter algorithm names, FIFO, EDF, SFQRC, DTA or I2L (the             *)
(* distributed ones are in DSFQ).  Requests wait in the scheduler and the  *)
(* proxy sends on as many as it lets go; the other packets of an exchange  *)
(* pass through, and the last one of the answer frees the place of its     *)
(* request.  The clients and the servers are modelled by the packets they  *)
(* still have to send, in order, for each exchange.                        *)
(***************************************************************************)
EXTENDS Integers, Sequences, FiniteSets, SequencesExt

CONSTANTS Configurations,  \* the configurations the proxy may be started with
          RidOffset        \* RID_OFFSET

EDF == INSTANCE EDFQueue
RC  == INSTANCE SFQRC
TA  == INSTANCE DTA
LL  == INSTANCE I2L

(* A configuration has, for each exchange, jobs: its application, app, and what else
   the scheduler reads of its request (size and file under SFQRC; server, request and
   total, the sub-requests of the request, under DTA); for each, what it may be asked to
   do, reads, a set of BOOLEANs; packets, the data packets of an exchange; the times at
   which clients issue requests, times, and how often they use an identifier, rounds;
   algorithm, with its parameters par; horizon, where the clock stops, 0 if time does
   not matter; and delays, which of newjob_proc_time and finjob_proc_time are not 0.
   reads, times, rounds and horizon are bounds. *)
ASSUME ProxyAssumption ==
  /\ RidOffset \in Nat
  /\ \A c \in Configurations :
       /\ DOMAIN c.jobs \subseteq Nat \ {0} /\ IsFiniteSet(DOMAIN c.jobs)
       /\ \A x \in DOMAIN c.jobs : "app" \in DOMAIN c.jobs[x] /\ c.reads[x] \subseteq BOOLEAN
       /\ c.packets \in Nat \ {0} /\ RidOffset > c.packets
       /\ c.times \subseteq Nat /\ c.rounds \in Nat \ {0} /\ c.horizon \in Nat
       /\ c.algorithm \in {"FIFO", "EDF", "SFQRC", "DTA", "I2L"}
       /\ \A x \in DOMAIN c.jobs : c.par.delay[c.jobs[x].app] \in Nat
       /\ c.par.degree \in Int
       /\ c.delays \subseteq {"newjob", "finjob"}

VARIABLES
  config,    \* the configuration, read once by initialize
  queue,     \* the scheduler; a job is a request
  osReqNum,  \* the proxy's own count of the requests at the servers
  timers,    \* packets that wait for a processing time to pass, as the self messages
             \* they have become
  arrivals,  \* history: the jobs pushed into the scheduler, in order
  exchange,  \* per exchange, what the two ends have still to send, and
             \* the packets the proxy forwarded
  now,       \* simTime()
  algTimer   \* when ALG_TIMER comes

vars == <<config, queue, osReqNum, timers, arrivals, exchange, now, algTimer>>

Exchanges == DOMAIN config.jobs
Algorithm == config.algorithm
Par       == config.par
Delays    == config.delays
Packets   == config.packets

\* The packets of an exchange, in the order in which its ends send them.
DataPackets(x, kind, last) ==
  [k \in 1 .. Packets |-> [kind |-> IF k = Packets THEN last ELSE kind,
                           id   |-> x * RidOffset + k]]
WriteData(x) == DataPackets(x, "PFS_W_DATA", "PFS_W_DATA_LAST")
\* The last packet of a read bears the identifier of its request (PVFS2DSD).
ReadData(x)  == [DataPackets(x, "PFS_R_DATA", "PFS_R_DATA_LAST")
                   EXCEPT ![Packets].id = x * RidOffset]

ExchangeOf(id) == id \div RidOffset

Idle == [asked |-> FALSE, round |-> 0, read |-> FALSE,
         fromClient |-> <<>>, fromServer |-> <<>>, forwarded |-> <<>>]

\* SchedulerFactory::createScheduler.
NewSchedulers == CASE Algorithm \in {"FIFO", "EDF"} -> {EDF!EmptyQueue}
                   [] Algorithm = "SFQRC" -> RC!Initial(Par)
                   [] Algorithm = "DTA"   -> {TA!Initial(Par)}
                   [] Algorithm = "I2L"   -> {LL!Initial(Par)}

Init == /\ config \in Configurations
        /\ queue \in NewSchedulers
        /\ osReqNum = 0
        /\ timers = <<>>
        /\ arrivals = <<>>
        /\ exchange = [x \in Exchanges |-> Idle]
        /\ now = 0
        /\ algTimer = IF Algorithm = "I2L" THEN LL!NextCall(queue) ELSE 0

-----------------------------------------------------------------------------

\* The ends e of exchange x once one of them has got a packet that sendSafe sent.
Passed(e, x, pkt) ==
  [e EXCEPT
    !.forwarded  = Append(@, pkt.kind),
    !.asked      = @ /\ pkt.kind \notin {"PFS_W_FIN", "PFS_R_DATA_LAST"},
    !.fromClient = @ \o IF pkt.kind = "PFS_W_RESP" THEN WriteData(x) ELSE <<>>,
    !.fromServer = @ \o
      CASE pkt.kind = "PFS_R_REQ" -> ReadData(x)
        [] pkt.kind = "PFS_W_REQ" -> <<[kind |-> "PFS_W_RESP", id |-> pkt.id]>>
        [] pkt.kind = "PFS_W_DATA_LAST" -> <<[kind |-> "PFS_W_FIN", id |-> pkt.id]>>
        [] OTHER -> <<>>]

Delivered(exch, pkt) ==
  LET x == ExchangeOf(pkt.id) IN [exch EXCEPT ![x] = Passed(@, x, pkt)]

Request(job) == [kind |-> IF job.read THEN "PFS_R_REQ" ELSE "PFS_W_REQ", id |-> job.id]

-----------------------------------------------------------------------------

\* pushWaitQ of the scheduler.
PushWaitQ(q, job) == CASE Algorithm = "FIFO"  -> EDF!PushedBack(q, job)
                       [] Algorithm = "EDF"   -> EDF!PushedByDeadline(q, job, Par.delay)
                       [] Algorithm = "SFQRC" -> RC!Pushed(Par, q, job, now)
                       [] Algorithm = "DTA"   -> TA!Pushed(Par, q, job)
                       [] Algorithm = "I2L"   -> LL!Pushed(Par, q, job, now)

\* popOsQ of the scheduler.
PopOsQ(q, id) == CASE Algorithm \in {"FIFO", "EDF"} -> EDF!Popped(q, id)
                   [] Algorithm = "SFQRC" -> RC!Popped(Par, q, id, now)
                   [] Algorithm = "DTA"   -> TA!Popped(Par, q, id)
                   [] Algorithm = "I2L"   -> LL!Popped(q, id)

\* dispatchNext of FIFO and EDF.
DispatchedFirst(q) == IF EDF!CanDispatch(q, Par.degree)
                      THEN [sent |-> <<Head(q.waitQ)>>, queue |-> EDF!Dispatched(q)]
                      ELSE [sent |-> <<>>, queue |-> q]

\* dispatchNext of the scheduler: what it may return and leave behind.
DispatchNext(q) == CASE Algorithm \in {"FIFO", "EDF"} -> {DispatchedFirst(q)}
                     [] Algorithm = "SFQRC" -> {RC!DispatchedNext(Par, q, now)}
                     [] Algorithm = "DTA"   -> TA!DispatchedNext(Par, q)
                     [] Algorithm = "I2L"   -> {LL!DispatchedNext(Par, q, now)}

\* Mutant of Turn: a job goes out twice and is counted once.
TurnAgain(r) ==
  IF r.ended THEN {r}
  ELSE {IF d.sent = <<>>
        THEN [r EXCEPT !.queue = d.queue, !.ended = TRUE]
        ELSE [r EXCEPT !.queue = d.queue, !.reqNum = @ + 1,
                       !.exchange = Delivered(Delivered(@, Request(Head(d.sent))),
                                              Request(Head(d.sent)))] :
        d \in DispatchNext(r.queue)}

\* A turn of scheduleJobs' loop, which ends when dispatchNext returns NULL: a copy of
\* the job goes out and is counted.
Turn(r) ==
  IF r.ended THEN {r}
  ELSE {IF d.sent = <<>>
        THEN [r EXCEPT !.queue = d.queue, !.ended = TRUE]
        ELSE [r EXCEPT !.queue = d.queue, !.reqNum = @ + 1,
                       !.exchange = Delivered(@, Request(Head(d.sent)))] :
        d \in DispatchNext(r.queue)}

\* The states in which the loop may end that starts from queue q, exchanges exch and
\* count reqNum: each exchange has at most one request that waits.
Dispatched(q, exch, reqNum) ==
  LET run[k \in 0 .. Cardinality(Exchanges) + 1] ==
        IF k = 0 THEN {[queue |-> q, exchange |-> exch, reqNum |-> reqNum, ended |-> FALSE]}
        ELSE UNION {Turn(r) : r \in run[k - 1]}
  IN  run[Cardinality(Exchanges) + 1]

ScheduleJobs(q, exch, reqNum) ==
  \E r \in Dispatched(q, exch, reqNum) :
    /\ queue' = r.queue
    /\ exchange' = r.exchange
    /\ osReqNum' = r.reqNum

HandleJobReq2(job, exch) ==
  /\ arrivals' = Append(arrivals, job)
  /\ ScheduleJobs(PushWaitQ(queue, job), exch, osReqNum)

\* Mutants of HandleReadLastWriteFin2: the record is looked up by the identifier of
\* the packet; nothing is dispatched in its place.
HandleFinUnrounded(pkt, exch) ==
  ScheduleJobs(PopOsQ(queue, pkt.id), Delivered(exch, pkt), osReqNum - 1)
HandleFinOnly(pkt, exch) ==
  /\ queue' = PopOsQ(queue, (pkt.id \div RidOffset) * RidOffset)
  /\ exchange' = Delivered(exch, pkt)
  /\ osReqNum' = osReqNum - 1

HandleReadLastWriteFin2(pkt, exch) ==
  LET recordPacketID == (pkt.id \div RidOffset) * RidOffset
  IN  ScheduleJobs(PopOsQ(queue, recordPacketID), Delivered(exch, pkt), osReqNum - 1)

-----------------------------------------------------------------------------

\* The packet waits as a self message of one of the families of handleMessage.
Waits(self, pkt) == timers' = Append(timers, [self |-> self, packet |-> pkt])

\* The processing time it waits for.
Delay(self) == IF self = "SELF_FIN" THEN "finjob" ELSE "newjob"

\* The request that a client makes.
Job(x, read, rise) ==
  LET job == config.jobs[x]
      own == [id |-> x * RidOffset, read |-> read, rise |-> rise]
  IN  [f \in DOMAIN job \cup DOMAIN own |-> IF f \in DOMAIN own THEN own[f] ELSE job[f]]

\* handleJobReq: a client's request arrives; its identifier was not in use.
\* With a clock it rises when it arrives.
HandleJobReq(x) ==
  \E read \in config.reads[x], rise \in config.times :
    LET job   == Job(x, read, rise)
        asked == [exchange EXCEPT ![x] = [Idle EXCEPT !.asked = TRUE, !.read = read,
                                                      !.round = exchange[x].round + 1]]
    IN  /\ ~exchange[x].asked /\ exchange[x].round < config.rounds
        /\ config.horizon > 0 => rise = now
        /\ IF "newjob" \in Delays
           THEN /\ Waits("SELF_REQ", job)
                /\ exchange' = asked
                /\ UNCHANGED <<queue, osReqNum, arrivals>>
           ELSE /\ HandleJobReq2(job, asked)
                /\ UNCHANGED timers

\* handleMinorReadWrite: a packet that does not go through the queue.
HandleMinorReadWrite(pkt, exch) ==
  /\ IF "newjob" \in Delays
     THEN /\ Waits("SELF_MINOR", pkt)
          /\ exchange' = exch
     ELSE /\ exchange' = Delivered(exch, pkt)
          /\ UNCHANGED timers
  /\ UNCHANGED <<queue, osReqNum, arrivals>>

\* handleReadLastWriteFin: the packet that ends an exchange.
HandleReadLastWriteFin(pkt, exch) ==
  IF "finjob" \in Delays
  THEN /\ Waits("SELF_FIN", pkt)
       /\ exchange' = exch
       /\ UNCHANGED <<queue, osReqNum, arrivals>>
  ELSE /\ HandleReadLastWriteFin2(pkt, exch)
       /\ UNCHANGED <<timers, arrivals>>

FromClient(x) ==
  /\ exchange[x].fromClient # <<>>
  /\ HandleMinorReadWrite(Head(exchange[x].fromClient),
                          [exchange EXCEPT ![x].fromClient = Tail(@)])

FromServer(x) ==
  LET pkt  == Head(exchange[x].fromServer)
      exch == [exchange EXCEPT ![x].fromServer = Tail(@)]
  IN  /\ exchange[x].fromServer # <<>>
      /\ IF pkt.kind \in {"PFS_W_FIN", "PFS_R_DATA_LAST"}
         THEN HandleReadLastWriteFin(pkt, exch)
         ELSE HandleMinorReadWrite(pkt, exch)

\* A processing time has passed: the packets of one kind of delay come back in order.
HandleSelfMessage(k) ==
  LET t == timers[k]
  IN  /\ \A j \in 1 .. k-1 : Delay(timers[j].self) # Delay(t.self)
      /\ timers' = RemoveAt(timers, k)
      /\ \/ /\ t.self = "SELF_REQ"
            /\ HandleJobReq2(t.packet, exchange)
         \/ /\ t.self = "SELF_FIN"
            /\ HandleReadLastWriteFin2(t.packet, exchange)
            /\ UNCHANGED arrivals
         \/ /\ t.self = "SELF_MINOR"
            /\ exchange' = Delivered(exchange, t.packet)
            /\ UNCHANGED <<queue, osReqNum, arrivals>>

\* handleAlgorithmTimer under I2L.
HandleAlgorithmTimer ==
  /\ Algorithm = "I2L" /\ now = algTimer
  /\ \E q \in LL!Notified(Par, queue, now) :
       /\ algTimer' = LL!NextCall(q)
       /\ ScheduleJobs(q, exchange, osReqNum)
  /\ UNCHANGED <<config, timers, arrivals, now>>

\* Time passes, but not beyond a timer that is due.
Tick == /\ now < config.horizon
        /\ Algorithm = "I2L" => now < algTimer
        /\ now' = now + 1
        /\ UNCHANGED <<config, queue, osReqNum, timers, arrivals, exchange, algTimer>>

Next == \/ /\ \/ \E x \in Exchanges : HandleJobReq(x) \/ FromClient(x) \/ FromServer(x)
              \/ \E k \in DOMAIN timers : HandleSelfMessage(k)
           /\ UNCHANGED <<config, now, algTimer>>
        \/ HandleAlgorithmTimer
        \/ Tick

Spec == Init /\ [][Next]_vars

\* An event the simulator has to deliver: a packet of either end, or a timer.
Event == \/ /\ \/ \E x \in Exchanges : FromClient(x) \/ FromServer(x)
               \/ \E k \in DOMAIN timers : HandleSelfMessage(k)
            /\ UNCHANGED <<config, now, algTimer>>
         \/ HandleAlgorithmTimer

\* Event is enabled: each of these can always be handled.
EventPending == \/ \E x \in Exchanges : exchange[x].fromClient # <<>> \/ exchange[x].fromServer # <<>>
                \/ timers # <<>>
                \/ Algorithm = "I2L" /\ now = algTimer

\* Events are delivered, which is WF_vars(Event) with ENABLED Event written out, and
\* time passes; clients may stop asking.
Fairness == /\ []<>(~EventPending) \/ []<><<Event>>_vars
            /\ WF_vars(Tick)

FairSpec == Spec /\ Fairness

\* The exchanges of any configuration.
Numbers == UNION {DOMAIN c.jobs : c \in Configurations}

-----------------------------------------------------------------------------

\* The jobs the scheduler takes to be at the servers.
Outstanding == CASE Algorithm \in {"FIFO", "EDF"} -> queue.osQ
                 [] Algorithm = "SFQRC" -> RC!Outstanding(queue)
                 [] Algorithm = "DTA"   -> TA!Outstanding(queue)
                 [] Algorithm = "I2L"   -> LL!Outstanding(queue)

\* How many of them have to stay within the degree, for each server.
Limited == CASE Algorithm \in {"FIFO", "EDF"} -> {Len(queue.osQ)}
             [] Algorithm = "SFQRC" -> {Len(queue.overflowOsQ)}
             [] Algorithm = "DTA"   -> {Cardinality({j \in queue.dispatched : j.server = s}) :
                                          s \in Par.servers}
             [] Algorithm = "I2L"   -> {}

\* The exchanges whose request is at the server and not answered yet.
AtServer == {x \in Exchanges :
  /\ exchange[x].asked
  /\ {"PFS_R_REQ", "PFS_W_REQ"} \cap ToSet(exchange[x].forwarded) # {}}

\* The places of the scheduler and the requests at the servers are the same at all
\* times: the answer that frees a place always finds the record of its own request,
\* none is freed twice or lost, and there are never more than the degree.
SlotsMatchServer ==
  /\ {job.id : job \in ToSet(Outstanding)} = {x * RidOffset : x \in AtServer}
  /\ Len(Outstanding) = Cardinality(AtServer)
  /\ osReqNum = Len(Outstanding)
  /\ Par.degree >= 0 => \A n \in Limited : n <= Par.degree

\* No request waits that the algorithm would let go: every handler that makes room,
\* brings tokens or adds a request goes on to dispatch.  Under SFQRC this is about
\* basic requests; under I2L no request is held while its application has tokens.
WorkConserving ==
  CASE Algorithm \in {"FIFO", "EDF"} -> ~EDF!CanDispatch(queue, Par.degree)
    [] Algorithm = "SFQRC" -> ~RC!CouldDispatch(Par, queue)
    [] Algorithm = "DTA"   -> ~TA!CouldDispatch(Par, queue)
    [] Algorithm = "I2L"   -> /\ ~LL!CouldDispatch(queue)
                              /\ \A a \in Par.apps : queue.reqQ[a] # <<>> => queue.token[a] <= 0

\* The queues in which requests wait by deadline, or in order of arrival under FIFO.
WaitQueues == CASE Algorithm \in {"FIFO", "EDF"} -> {queue.waitQ}
                [] Algorithm = "SFQRC" -> {queue.basicWaitQ}
                [] Algorithm = "DTA"   -> {queue.edf[s] : s \in Par.servers}
                [] Algorithm = "I2L"   -> {queue.edf.waitQ}

Due(job) == CASE Algorithm = "FIFO"  -> 0
              [] Algorithm = "SFQRC" -> job.deadline
              [] OTHER -> EDF!Deadline(Par.delay, job)

\* The number of the job's arrival, the latest if its identifier came more than once.
Arrival(job) == SelectLastInSeq(arrivals, LAMBDA j : j.id = job.id)

\* No request waits behind one whose deadline is later, which the loops that stop at
\* the first later deadline rely on (getNumReqsInWaitQWithinDeadline, DTA, I2L).
WaitByDeadline ==
  \A w \in WaitQueues : \A i, j \in DOMAIN w : i < j => Due(w[i]) <= Due(w[j])

\* Requests of equal deadline wait in the order in which they came, but under I2L those
\* of different applications may have been held for different times.
EqualsInOrder ==
  \A w \in WaitQueues : \A i, j \in DOMAIN w :
    /\ i < j /\ Due(w[i]) = Due(w[j])
    /\ Algorithm # "I2L" \/ w[i].app = w[j].app
    => Arrival(w[i]) < Arrival(w[j])

\* Requests wait by deadline, and by arrival among equals.
WaitInOrder == WaitByDeadline /\ EqualsInOrder

Kinds(pkts) == [k \in DOMAIN pkts |-> pkts[k].kind]

\* An exchange's packets pass the proxy in the order in which its ends sent them,
\* each once, whatever happens to other exchanges; but the data of reads may come
\* back out of order when newjob_proc_time holds it and not the last packet.
ForwardedInOrder ==
  \A x \in Exchanges : ~("newjob" \in Delays /\ exchange[x].read) =>
    IsPrefix(exchange[x].forwarded,
             IF exchange[x].read
             THEN <<"PFS_R_REQ">> \o Kinds(ReadData(x))
             ELSE <<"PFS_W_REQ", "PFS_W_RESP">> \o Kinds(WriteData(x)) \o <<"PFS_W_FIN">>)

\* DTA's queues and slots hold only sub-requests that are waiting or at the server:
\* the packets of the others are deleted.  A request counts exactly those of its
\* sub-requests that are at the servers, and is kept while it is not all served.
LiveEntries ==
  Algorithm = "DTA" =>
    /\ \A s \in Par.servers : \A job \in ToSet(queue.edf[s]) \cup ToSet(queue.lr[s]) :
         job.server = s /\ job \in queue.waiting \cup queue.dispatched
    /\ \A job \in queue.waiting : job \in ToSet(queue.edf[job.server])
    /\ {job.request : job \in queue.waiting \cup queue.dispatched} \subseteq DOMAIN queue.reqs
    /\ \A r \in DOMAIN queue.reqs :
         /\ queue.reqs[r].serving = Cardinality({job \in queue.dispatched : job.request = r})
         /\ queue.reqs[r].served < queue.reqs[r].total
         /\ \A s \in Par.servers : queue.reqs[r].slots[s] # TA!NoSubreq =>
              \E job \in queue.waiting : job.id = queue.reqs[r].slots[s] /\ job.server = s

\* What SFQRC takes into the basic class conforms to the application's buffer: in no
\* span of time more than a full buffer and what flowed into it meanwhile.
BasicWithinProfile ==
  Algorithm = "SFQRC" =>
    \A a \in Par.apps :
      LET g == SelectSeq(queue.granted, LAMBDA e : e.app = a)
      IN  \A i, j \in DOMAIN g : i <= j =>
            RC!SumOfJobs(SubSeq(g, i, j), LAMBDA e : e.size)
              <= Par.max[a] + Par.rate[a] * (g[j].time - g[i].time)

\* SFQRC sends an overflow request only if all that is at the server is then predicted
\* to end before every basic deadline there -- but for one seek: checkGuarantees sets
\* lastAccessFileID even for a request that is not dispatched, so that the seek it
\* counted may be another than the one that is made.
OverflowKeepsDeadlines ==
  [][ Algorithm = "SFQRC" /\ ~(ToSet(queue'.overflowOsQ) \subseteq ToSet(queue.overflowOsQ))
      => \A job \in ToSet(queue'.basicOsQ) : queue'.finish < job.deadline + Par.seek ]_vars

\* I2L's timer comes before whatever is due next is past, though replenishments between
\* two timers put off the periodic one, and two things may be due at once.
NothingOverdue ==
  Algorithm = "I2L" =>
    now <= algTimer /\ algTimer <= queue.replenish /\ algTimer <= queue.windowEnd

\* Every request that arrives is answered.
Answered ==
  \A x \in Numbers :
    x \in Exchanges /\ exchange[x].asked ~> (x \in Exchanges => ~exchange[x].asked)
=============================================================================
