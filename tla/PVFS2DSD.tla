------------------------------ MODULE PVFS2DSD ------------------------------
(***************************************************************************)
(* The daemon of a data server: DSD_M, the message handler, with its       *)
(* PVFS2DSD, which keeps the requests and cuts reads into sub-requests.    *)
(* Every action of the daemon is one branch of DSD_M::handleMessage.  The  *)
(* clients' side of an exchange (the request, and the data packets of a    *)
(* write once it was granted) and the file system below, which answers     *)
(* what it was given, are modelled as the daemon sees them.                *)
(***************************************************************************)
EXTENDS FIFOQueue, FiniteSets

CONSTANT Configurations  \* the configurations the daemon may be started with

(* A configuration has, for each exchange, the sizes its request may have; and the
   parameters degree (of reqQ), subreqSize (max_subreq_size), packetSizeLimit (the
   clients' too), smallIO (small_io_size_threshold), ridOffset (RID_OFFSET), and
   delays, which of the three processing times are not 0. *)
ASSUME PVFS2DSDAssumption ==
  \A c \in Configurations :
    /\ \A x \in DOMAIN c.sizes : x \in Nat \ {0} /\ c.sizes[x] \subseteq Nat \ {0}
    /\ {c.degree, c.subreqSize, c.packetSizeLimit} \subseteq Nat \ {0}
    /\ c.smallIO \in Nat
    /\ c.ridOffset \in Nat /\ c.ridOffset > 2
    /\ c.delays \subseteq {"write_data", "write_metadata", "read_metadata"}

VARIABLES
  config,    \* the configuration, read once by initialize
  reqQ,      \* the requests: reads, and the data packets of writes
  subreqQ,   \* what the file system is asked for; osQ is what it works on
  infoMap,   \* a record for every request
  timers,    \* packets that wait for their processing time to pass
  aborted,   \* an error was printed, which ends the simulation
  exchange,  \* per exchange: what the client asked, data packets still to come
  replies,   \* history: the packets sent back, per exchange
  written    \* history: the writes the file system did, per exchange

vars == <<config, reqQ, subreqQ, infoMap, timers, aborted, exchange, replies, written>>

Exchanges       == DOMAIN config.sizes
Degree          == config.degree
SubreqSize      == config.subreqSize
PacketSizeLimit == config.packetSizeLimit
SmallIO         == config.smallIO
RidOffset       == config.ridOffset
Delays          == config.delays

NotAsked == [asked |-> FALSE, read |-> FALSE, size |-> 0, toCome |-> 0]

Init == /\ config \in Configurations
        /\ reqQ = EmptyQueue
        /\ subreqQ = EmptyQueue
        /\ infoMap = [id \in {} |-> 0]
        /\ timers = <<>>
        /\ aborted = FALSE
        /\ exchange = [x \in Exchanges |-> NotAsked]
        /\ replies = [x \in Exchanges |-> <<>>]
        /\ written = [x \in Exchanges |-> <<>>]

\* Mutant of OrigID: the identifier is not rounded down.
OrigIDUnrounded(id) == id

\* The identifier of the request a packet belongs to, and its exchange.
OrigID(id)     == (id \div RidOffset) * RidOffset
ExchangeOf(id) == id \div RidOffset

\* The number of packets that n bytes make, and the k-th of them.
PacketCount(n) == (n + PacketSizeLimit - 1) \div PacketSizeLimit
PacketSize(n, k) == IF k = PacketCount(n) THEN n - (k - 1) * PacketSizeLimit
                    ELSE PacketSizeLimit

-----------------------------------------------------------------------------
(* PVFS2DSD *)

\* Mutant of Info: no data packet is taken for the last one.
InfoNeverLast(pkt) == [decision |-> FALSE, lub |-> pkt.loff + pkt.size]

\* What newReq remembers of a request: whether a write packet is the last one,
\* and where a read ends.
Info(pkt) == [decision |-> pkt.kind = "SELF_PFS_W_DATA_LAST",
              lub      |-> pkt.loff + pkt.size]

\* The first sub-request: the request itself if it is small enough, or a write.
FirstSubreq(pkt) ==
  IF pkt.read /\ pkt.size > SubreqSize
  THEN [pkt EXCEPT !.kind = "LFILE_REQ", !.id = @ + 1, !.size = SubreqSize]
  ELSE [pkt EXCEPT !.kind = "LFILE_REQ"]

NextSubreqID(id) == IF (id + 1) % RidOffset = 0 THEN OrigID(id) + 1 ELSE id + 1

\* Mutant of NextSubreq: the last sub-request is as long as the others.
NextSubreqUntrimmed(job) ==
  LET loff == job.loff + job.size
      lub  == infoMap[OrigID(job.id)].lub
  IN  IF lub <= loff + SubreqSize
      THEN [job EXCEPT !.id = OrigID(job.id), !.loff = loff, !.size = SubreqSize]
      ELSE [job EXCEPT !.id = NextSubreqID(job.id), !.loff = loff, !.size = SubreqSize]

\* The sub-request after a read sub-request; the last one is the request itself.
NextSubreq(job) ==
  LET loff == job.loff + job.size
      lub  == infoMap[OrigID(job.id)].lub
  IN  IF lub <= loff + SubreqSize
      THEN [job EXCEPT !.id = OrigID(job.id), !.loff = loff, !.size = lub - loff]
      ELSE [job EXCEPT !.id = NextSubreqID(job.id), !.loff = loff, !.size = SubreqSize]

\* infoMap->insert: a record that is there already is kept.
Remember(pkt) ==
  infoMap' = [id \in DOMAIN infoMap \cup {pkt.id} |->
                IF id \in DOMAIN infoMap THEN infoMap[id] ELSE Info(pkt)]

\* enqueueDispatchVFSReqs: newReq, and dispatchNext until it returns NULL.
EnqueueDispatchVFSReqs(pkt) ==
  /\ reqQ' = DispatchedNext(PushedBack(reqQ, pkt), Degree)
  /\ Remember(pkt)
  /\ subreqQ' = DispatchedNext(PushedBack(subreqQ, FirstSubreq(pkt)), 1)

-----------------------------------------------------------------------------
(* DSD_M *)

Reply(x, packets) == replies' = [replies EXCEPT ![x] = @ \o packets]

\* sendWriteResp: the client may send the data, which it does in packets.
SendWriteResp(x) ==
  /\ Reply(x, <<[kind |-> "PFS_W_RESP", loff |-> 0, size |-> exchange[x].size]>>)
  /\ exchange' = [exchange EXCEPT ![x].toCome = PacketCount(exchange[x].size)]

Scheduled(pkt) == timers' = Append(timers, pkt)

\* A request arrives: handleReadWriteReq.
HandleReadRequest(x, size) ==
  LET pkt == [id |-> x * RidOffset, kind |-> "SELF_PFS_R_REQ", read |-> TRUE,
              loff |-> 0, size |-> size]
  IN  /\ ~aborted /\ ~exchange[x].asked
      /\ exchange' = [exchange EXCEPT ![x] = [asked |-> TRUE, read |-> TRUE,
                                              size |-> size, toCome |-> 0]]
      /\ IF "read_metadata" \in Delays
         THEN Scheduled(pkt) /\ UNCHANGED <<reqQ, infoMap, subreqQ>>
         ELSE EnqueueDispatchVFSReqs(pkt) /\ UNCHANGED timers
      /\ UNCHANGED <<aborted, replies, written>>

HandleSmallWriteRequest(x, size) ==
  LET pkt == [id |-> x * RidOffset, kind |-> "SELF_PFS_W_REQ", read |-> FALSE,
              loff |-> 0, size |-> size]
  IN  /\ ~aborted /\ ~exchange[x].asked
      /\ size < SmallIO
      /\ exchange' = [exchange EXCEPT ![x] = [asked |-> TRUE, read |-> FALSE,
                                              size |-> size, toCome |-> 0]]
      /\ IF Delays \cap {"write_data", "write_metadata"} # {}
         THEN Scheduled(pkt) /\ UNCHANGED <<reqQ, infoMap, subreqQ>>
         ELSE EnqueueDispatchVFSReqs(pkt) /\ UNCHANGED timers
      /\ UNCHANGED <<aborted, replies, written>>

HandleWriteRequest(x, size) ==
  LET pkt == [id |-> x * RidOffset, kind |-> "SELF_PFS_W_REQ", read |-> FALSE,
              loff |-> 0, size |-> size]
      asked(n) == [asked |-> TRUE, read |-> FALSE, size |-> size, toCome |-> n]
  IN  /\ ~aborted /\ ~exchange[x].asked
      /\ size >= SmallIO
      /\ IF "write_metadata" \in Delays
         THEN /\ exchange' = [exchange EXCEPT ![x] = asked(0)]
              /\ Scheduled(pkt)
              /\ UNCHANGED replies
         ELSE /\ exchange' = [exchange EXCEPT ![x] = asked(PacketCount(size))]
              /\ Reply(x, <<[kind |-> "PFS_W_RESP", loff |-> 0, size |-> size]>>)
              /\ UNCHANGED timers
      /\ UNCHANGED <<reqQ, subreqQ, infoMap, aborted, written>>

\* The k-th data packet of a write of n bytes.
DataPacket(x, n, k) ==
  [id |-> x * RidOffset + k,
   kind |-> IF k = PacketCount(n) THEN "SELF_PFS_W_DATA_LAST" ELSE "SELF_PFS_W_DATA",
   read |-> FALSE, loff |-> (k - 1) * PacketSizeLimit, size |-> PacketSize(n, k)]

\* How many data packets of a write have arrived.
Arrived(x) == PacketCount(exchange[x].size) - exchange[x].toCome

\* The next data packet of a write arrives: handleWriteDataPacket.
HandleWriteDataPacket(x) ==
  LET pkt == DataPacket(x, exchange[x].size, Arrived(x) + 1)
  IN  /\ ~aborted
      /\ exchange[x].toCome > 0
      /\ exchange' = [exchange EXCEPT ![x].toCome = @ - 1]
      /\ IF "write_data" \in Delays
         THEN Scheduled(pkt) /\ UNCHANGED <<reqQ, infoMap, subreqQ>>
         ELSE EnqueueDispatchVFSReqs(pkt) /\ UNCHANGED timers
      /\ UNCHANGED <<aborted, replies, written>>

\* Mutant of Delayed: the last data packet waits for a time of its own.
DelayedByKind(pkt) == pkt.kind

\* Which packets wait for the same time: the data packets of writes do, and so do
\* the requests, except that small writes wait for longer than others.
Delayed(pkt) == <<pkt.kind \in {"SELF_PFS_W_DATA", "SELF_PFS_W_DATA_LAST"},
                  pkt.read, pkt.kind = "SELF_PFS_W_REQ" /\ pkt.size < SmallIO>>

\* A processing time has passed.
HandleSelfMessage(k) ==
  LET pkt == timers[k]
      x   == ExchangeOf(pkt.id)
  IN  /\ ~aborted
      /\ \A j \in 1 .. k-1 : Delayed(timers[j]) # Delayed(pkt)
      /\ timers' = RemoveAt(timers, k)
      /\ \/ \* handleSelfWriteReq tests for a kind that was overwritten, so
            \* that it treats every write as a big one
            /\ pkt.kind = "SELF_PFS_W_REQ"
            /\ SendWriteResp(x)
            /\ UNCHANGED <<reqQ, subreqQ, infoMap>>
         \/ /\ pkt.kind \in {"SELF_PFS_W_DATA", "SELF_PFS_W_DATA_LAST"}
            /\ EnqueueDispatchVFSReqs(pkt)
            /\ UNCHANGED <<exchange, replies>>
         \/ \* handleMessage has no case for it
            /\ pkt.kind = "SELF_PFS_R_REQ"
            /\ UNCHANGED <<reqQ, subreqQ, infoMap, exchange, replies>>
      /\ UNCHANGED <<aborted, written>>

\* handleReadDataResp: the data goes back in packets, the last of which is the
\* sub-request.
ReadDataResp(job, kind) ==
  [k \in 1 .. PacketCount(job.size) |->
     [kind |-> IF k = PacketCount(job.size) THEN kind ELSE "PFS_R_DATA",
      loff |-> job.loff + (k - 1) * PacketSizeLimit,
      size |-> PacketSize(job.size, k)]]

Abort ==
  /\ aborted' = TRUE
  /\ UNCHANGED <<reqQ, subreqQ, infoMap, timers, exchange, replies, written>>

\* Mutant of Forget: the record is kept.
ForgetNothing(id) == UNCHANGED infoMap

Forget(id) == infoMap' = [i \in DOMAIN infoMap \ {id} |-> infoMap[i]]

\* The file system answers a sub-request: handleVFSResp, with finishedReq and
\* dispatchNext until it returns NULL.
HandleWriteDone(job) ==
  LET x == ExchangeOf(job.id)
  IN  /\ ~aborted /\ job \in ToSet(subreqQ.osQ) /\ ~job.read
      /\ IF job.id \notin DOMAIN infoMap \/ ~IsOutstanding(reqQ, job.id)
         THEN Abort
         ELSE /\ subreqQ' = DispatchedNext(Popped(subreqQ, job.id), 1)
              /\ reqQ' = Popped(reqQ, job.id)
              /\ Forget(job.id)
              /\ written' = [written EXCEPT ![x] =
                               Append(@, [loff |-> job.loff, size |-> job.size])]
              /\ Reply(x, IF infoMap[job.id].decision
                          THEN <<[kind |-> "PFS_W_FIN", loff |-> job.loff,
                                  size |-> job.size]>>
                          ELSE <<>>)
              /\ UNCHANGED <<timers, aborted, exchange>>

HandleReadDone(job) ==
  LET x    == ExchangeOf(job.id)
      orig == OrigID(job.id)
      last == infoMap[orig].lub <= job.loff + job.size
  IN  /\ ~aborted /\ job \in ToSet(subreqQ.osQ) /\ job.read
      /\ \/ \* only the steps that take the request itself look it up in reqQ
            /\ \/ orig \notin DOMAIN infoMap
               \/ (last \/ NextSubreq(job).id = orig) /\ ~IsOutstanding(reqQ, orig)
            /\ Abort
         \/ /\ orig \in DOMAIN infoMap
            /\ last /\ IsOutstanding(reqQ, orig)
            /\ subreqQ' = DispatchedNext(Popped(subreqQ, job.id), 1)
            /\ reqQ' = Popped(reqQ, orig)
            /\ Forget(orig)
            /\ Reply(x, ReadDataResp(job, "PFS_R_DATA_LAST"))
            /\ UNCHANGED <<timers, aborted, exchange, written>>
         \/ /\ orig \in DOMAIN infoMap
            /\ ~last
            /\ NextSubreq(job).id = orig => IsOutstanding(reqQ, orig)
            /\ subreqQ' = DispatchedNext(PushedBack(Popped(subreqQ, job.id),
                                                    NextSubreq(job)), 1)
            /\ Reply(x, ReadDataResp(job, "PFS_R_DATA"))
            /\ UNCHANGED <<reqQ, infoMap, timers, aborted, exchange, written>>

Next ==
  /\ \/ \E x \in Exchanges : \E size \in config.sizes[x] :
          \/ HandleReadRequest(x, size)
          \/ HandleSmallWriteRequest(x, size)
          \/ HandleWriteRequest(x, size)
     \/ \E x \in Exchanges : HandleWriteDataPacket(x)
     \/ \E k \in DOMAIN timers : HandleSelfMessage(k)
     \/ \E job \in ToSet(subreqQ.osQ) : HandleWriteDone(job) \/ HandleReadDone(job)
  /\ UNCHANGED config

Spec == Init /\ [][Next]_vars

\* Data packets that were granted arrive, timers expire, the file system answers.
FairSpec ==
  /\ Spec
  /\ WF_vars((\E x \in Exchanges : HandleWriteDataPacket(x)) /\ UNCHANGED config)
  /\ WF_vars((\E k \in DOMAIN timers : HandleSelfMessage(k)) /\ UNCHANGED config)
  /\ WF_vars((\E job \in ToSet(subreqQ.osQ) : HandleWriteDone(job) \/ HandleReadDone(job))
             /\ UNCHANGED config)

-----------------------------------------------------------------------------

Held(queue) == {job.id : job \in ToSet(queue.waitQ) \cup ToSet(queue.osQ)}

TypeOK ==
  /\ DOMAIN infoMap \subseteq Nat
  /\ aborted \in BOOLEAN
  /\ \A x \in Exchanges : exchange[x].toCome \in Nat
  /\ Len(subreqQ.osQ) <= 1

\* finishedReq misses a request only after more of them arrived than reqQ lets out.
AbortOnlyOnOverflow == aborted => reqQ.waitQ # <<>>

EndOf(p) == p.loff + p.size

\* No gap and no overlap, from the first byte on; and where such packets end.
Contiguous(packets) ==
  \A k \in DOMAIN packets : packets[k].loff = IF k = 1 THEN 0 ELSE EndOf(packets[k-1])
Reached(packets) == IF packets = <<>> THEN 0 ELSE EndOf(Last(packets))

\* A read comes back byte for byte: however it is cut into sub-requests and these
\* into packets, and whatever else is served in between, the packets are in order,
\* without gap or overlap, and the last one, and only it, says so.
ReadsReturnedExactly ==
  \A x \in Exchanges : exchange[x].read =>
    /\ Contiguous(replies[x])
    /\ Reached(replies[x]) <= exchange[x].size
    /\ \A k \in DOMAIN replies[x] :
         replies[x][k].kind = "PFS_R_DATA_LAST" <=> EndOf(replies[x][k]) = exchange[x].size

\* A small write that does not wait is written, and its record deleted with it.
Unanswered(x) ==
  /\ ~exchange[x].read /\ exchange[x].size < SmallIO
  /\ Delays \cap {"write_data", "write_metadata"} = {}

\* A write is granted once, its data is written in order, each packet once, and
\* PFS_W_FIN is sent once, when all of it is.
WritesFinishedExactly ==
  \A x \in Exchanges : exchange[x].asked /\ ~exchange[x].read =>
    /\ Contiguous(written[x])
    /\ replies[x] # <<>> => replies[x][1].kind = "PFS_W_RESP"
    /\ Len(replies[x]) <= 2
    /\ ~Unanswered(x) => (Len(replies[x]) = 2 <=> Reached(written[x]) = exchange[x].size)

\* reqQ, infoMap and subreqQ agree: a record for every request held and none for
\* others, and at most one sub-request of a request at a time.
RecordsMatchQueues ==
  /\ TypeOK
  /\ DOMAIN infoMap = Held(reqQ)
  /\ Held(reqQ) = {IF id \in Held(reqQ) THEN id ELSE OrigID(id) : id \in Held(subreqQ)}
  /\ Cardinality(Held(subreqQ)) = Cardinality(Held(reqQ))

\* The exchanges of any configuration.
Numbers == UNION {DOMAIN c.sizes : c \in Configurations}

Asked(x) == x \in Exchanges /\ exchange[x].asked

Answered(x) == \E k \in DOMAIN replies[x] :
                 replies[x][k].kind \in {"PFS_R_DATA_LAST", "PFS_W_FIN"}

\* What ends an exchange, or keeps it from being answered: the daemon aborted, a small
\* write did not wait (Unanswered), a read waited (HandleSelfMessage).
Settled(x) == \/ Answered(x) \/ aborted \/ Unanswered(x)
              \/ exchange[x].read /\ "read_metadata" \in Delays

\* Every other request is answered to the end.
AnswersAll ==
  \A x \in Numbers : Asked(x) ~> (x \in Exchanges => Settled(x))

\* PFS_W_RESP "is the response for a write request: PFS_W_REQ"
\* (PVFS2ClientStrategy): a write request gets it.
WriteRequestsAnswered ==
  \A x \in Numbers :
    Asked(x) /\ ~exchange[x].read ~> (x \in Exchanges => replies[x] # <<>>)
=============================================================================
