---------------------------- MODULE PVFS2Client ----------------------------
(***************************************************************************)
(* One client of the parallel file system (client/pfsclient with its       *)
(* PVFS2ClientStrategy), between its application, the metadata server and  *)
(* the data servers.  Every action of the client is one handler of         *)
(* PFSClient::handleMessage, with everything the strategy does in it.  The *)
(* metadata server and the data servers are modelled by their side of the  *)
(* exchange; packets travel with any delay, but those of one request to    *)
(* one server arrive in the order they were sent.                          *)
(***************************************************************************)
EXTENDS WindowTrace, FIFOQueue, Bags

CONSTANTS Configurations,  \* what the application may be configured to ask for
          AppDegree,       \* the degree of appRequestQ
          CidOffset,       \* CID_OFFSET
          RidOffset,       \* RID_OFFSET
          PacketSizeLimit  \* packet_size_limit

(* A configuration has the files, offsets and lengths of requests; flows, which is
   trace_count, how many requests are open at a time; and requests, the number of
   requests in all (a bound). *)
ASSUME PVFS2ClientAssumption ==
  /\ \A c \in Configurations :
       /\ c.files \subseteq Files
       /\ c.offsets \subseteq Nat /\ c.lengths \subseteq Nat \ {0}
       /\ c.flows \in Nat \ {0} /\ c.requests \in Nat
  /\ AppDegree \in Nat
  /\ RidOffset \in Nat \ {0} /\ CidOffset \in Nat /\ CidOffset > 2 * RidOffset
  /\ PacketSizeLimit \in Nat \ {0}

VARIABLES
  config,       \* the configuration
  traces,       \* the traces that are not finished, in the order of arrival
  pfsFiles,     \* what is known of each file: "unknown", "queried" or "set"
  appRequestQ,  \* the application's requests
  requestID,    \* the identifier of the next data request
  net,          \* the packets on their way, or waiting at a server
  aborted,      \* an error was printed, which ends the simulation
  issued,       \* history: the places each request of the application is about
  moved,        \* history: how often a server transferred each place
  answers       \* history: how often each request was answered

vars == <<config, traces, pfsFiles, appRequestQ, requestID, net, aborted, issued,
          moved, answers>>
client == <<traces, pfsFiles, appRequestQ, requestID, aborted, issued, answers>>

\* Trace identifiers are given in increasing order.
Requests == UNION {1 .. c.requests : c \in Configurations}

Init == /\ config \in Configurations
        /\ traces = <<>>
        /\ pfsFiles = [f \in Files |-> "unknown"]
        /\ appRequestQ = EmptyQueue
        /\ requestID = RidOffset
        /\ net = {}
        /\ aborted = FALSE
        /\ issued = <<>>
        /\ moved = [r \in Requests |-> EmptyBag]
        /\ answers = [r \in Requests |-> 0]

-----------------------------------------------------------------------------
(* generateDataPacketRequests: the packets of the first trace on the file;
   when that trace has no more, the method returns. *)

\* Mutant of NextRequestID: it leaves no room for the packets of an exchange.
NextRequestIDByOne(id) ==
  IF (id + 1) % CidOffset >= CidOffset - RidOffset THEN RidOffset ELSE id + 1

NextRequestID(id) ==
  IF (id + RidOffset) % CidOffset >= CidOffset - RidOffset THEN RidOffset
  ELSE id + RidOffset

FirstOnFile(ts, f) == SelectInSeq(ts, LAMBDA t : t.pfsFileID = f)

PacketFor(t, i, id) ==
  LET asked == RequestOf(t, i)
  IN  [kind |-> IF t.read THEN "PFS_R_REQ" ELSE "PFS_W_REQ", id |-> id, SubID |-> t.ID,
       fileId |-> t.pfsFileID, server |-> asked.server, lowoffset |-> asked.lowoffset,
       size |-> asked.size, totalsubreqs |-> asked.totalsubreqs]

\* The request identifiers of n packets in a row.
RequestIDs(n) ==
  LET ids[k \in 1 .. n + 1] == IF k = 1 THEN requestID ELSE NextRequestID(ids[k-1])
  IN  ids

\* newTraces is the list of traces the method works on.
GenerateDataPacketRequests(newTraces, f, otherPackets) ==
  \E ts \in {newTraces} :
    LET k == FirstOnFile(ts, f)
    IN  \/ /\ k = 0
           /\ traces' = ts
           /\ net' = otherPackets
           /\ UNCHANGED <<requestID, aborted>>
        \/ /\ k # 0
           /\ \E t \in {AtNextPackets(ts[k])} :
                LET ids == RequestIDs(Cardinality(Unsent(t)))
                    Rank(i) == Cardinality({j \in Unsent(t) : j <= i})
                IN  /\ traces' = [ts EXCEPT ![k] = AllSent(t)]
                    /\ net' = otherPackets \cup
                         {PacketFor(t, i, ids[Rank(i)]) : i \in Unsent(t)}
                    /\ requestID' = ids[Cardinality(Unsent(t)) + 1]
                    /\ aborted' = (aborted \/ ~t.hasLayout)

-----------------------------------------------------------------------------
(* The client *)

\* The packets of the exchange m belongs to that are of the given kind.
Earlier(m, kind) ==
  {n \in net : n.kind = kind /\ n.SubID = m.SubID /\ n.server = m.server}

Open == {r \in DOMAIN issued : answers[r] = 0}

\* The application issues its next request: handleNewTrace.
HandleNewTrace(f, offset, size, read) ==
  LET r == Len(issued) + 1
      t == NewTrace(r, f, offset, size, read)
  IN  /\ ~aborted
      /\ r <= config.requests /\ Cardinality(Open) < config.flows
      /\ issued' = Append(issued, PlacesOf(f, offset, size))
      /\ appRequestQ' = DispatchedNext(PushedBack(appRequestQ, [id |-> r]), AppDegree)
      /\ CASE pfsFiles[f] = "unknown" ->
                /\ pfsFiles' = [pfsFiles EXCEPT ![f] = "queried"]
                /\ traces' = Append(traces, t)
                /\ net' = net \cup {[kind |-> "LAYOUT_REQ", fileId |-> f]}
                /\ UNCHANGED <<requestID, aborted>>
           [] pfsFiles[f] = "queried" ->
                /\ traces' = Append(traces, t)
                /\ UNCHANGED <<pfsFiles, net, requestID, aborted>>
           [] pfsFiles[f] = "set" ->
                /\ GenerateDataPacketRequests(Append(traces, SetLayout(t)), f, net)
                /\ UNCHANGED pfsFiles
      /\ UNCHANGED <<moved, answers>>

\* The layout of a file arrives: every trace on it gets the layout.
HandleMetadataPacketResponse(m) ==
  /\ ~aborted
  /\ m \in net /\ m.kind = "LAYOUT_RESP"
  /\ pfsFiles' = [pfsFiles EXCEPT ![m.fileId] = "set"]
  /\ GenerateDataPacketRequests(
       [k \in DOMAIN traces |-> IF traces[k].pfsFileID = m.fileId
                                THEN SetLayout(traces[k]) ELSE traces[k]],
       m.fileId, net \ {m})
  /\ UNCHANGED <<appRequestQ, issued, moved, answers>>

\* processDataPacketResponse: a write may start, its data is cut into packets.
HandleWriteResponse(m) ==
  /\ ~aborted
  /\ m \in net /\ m.kind = "PFS_W_RESP"
  /\ LET last == (m.size - 1) \div PacketSizeLimit
         Fragment(k) ==
           [m EXCEPT !.kind = IF k = last THEN "PFS_W_DATA_LAST" ELSE "PFS_W_DATA",
                     !.id = @ + 1 + k,
                     !.lowoffset = @ + k * PacketSizeLimit,
                     !.size = IF k = last THEN @ - k * PacketSizeLimit
                              ELSE PacketSizeLimit]
     IN  net' = (net \ {m}) \cup {Fragment(k) : k \in 0 .. last}
  /\ UNCHANGED <<client, moved>>

\* A packet of a read that is not its last one is dropped.
HandleReadData(m) ==
  /\ ~aborted
  /\ m \in net /\ m.kind = "PFS_R_DATA"
  /\ net' = net \ {m}
  /\ UNCHANGED <<client, moved>>

\* processLastDataPacketResponse.
HandleLastDataPacket(m) ==
  /\ ~aborted
  /\ m \in net /\ m.kind \in {"PFS_R_DATA_LAST", "PFS_W_FIN"}
  /\ Earlier(m, "PFS_R_DATA") = {}
  /\ LET k == SelectInSeq(traces, LAMBDA t : t.ID = m.SubID)
     IN  IF k = 0 \/ ~IsOutstanding(appRequestQ, m.SubID)
         THEN /\ aborted' = TRUE
              /\ UNCHANGED <<traces, appRequestQ, requestID, net, answers>>
         ELSE \E t \in {Received(traces[k], m.server)} :
           \/ /\ Status(t) = "NEED_WAIT"
              /\ traces' = [traces EXCEPT ![k] = t]
              /\ net' = net \ {m}
              /\ UNCHANGED <<appRequestQ, requestID, aborted, answers>>
           \/ /\ Status(t) = "ALL_DONE"
              /\ traces' = RemoveAt(traces, k)
              /\ appRequestQ' = Popped(appRequestQ, m.SubID)
              /\ answers' = [answers EXCEPT ![m.SubID] = @ + 1]
              /\ net' = net \ {m}
              /\ UNCHANGED <<requestID, aborted>>
           \/ /\ Status(t) = "MORE_TO_SEND"
              /\ GenerateDataPacketRequests([traces EXCEPT ![k] = t], m.fileId, net \ {m})
              /\ UNCHANGED <<appRequestQ, answers>>
  /\ UNCHANGED <<pfsFiles, issued, moved>>

-----------------------------------------------------------------------------
(* The servers' side of the exchange *)

\* The metadata server answers a layout query.
HandleMetadataPacket(m) ==
  /\ ~aborted
  /\ m \in net /\ m.kind = "LAYOUT_REQ"
  /\ net' = (net \ {m}) \cup {[m EXCEPT !.kind = "LAYOUT_RESP"]}
  /\ UNCHANGED <<client, moved>>

Transferred(m) ==
  moved' = [moved EXCEPT
              ![m.SubID] = @ (+) SetToBag(Covered(m.server, m.lowoffset, m.size))]

\* A data server reads what is asked for and sends it, in one packet or more:
\* the packets before the last are all dropped, so one stands for them.
ServeRead(m) ==
  /\ ~aborted
  /\ m \in net /\ m.kind = "PFS_R_REQ"
  /\ Transferred(m)
  /\ \E before \in {{}, {[m EXCEPT !.kind = "PFS_R_DATA", !.id = @ + 1]}} :
       net' = (net \ {m}) \cup before \cup {[m EXCEPT !.kind = "PFS_R_DATA_LAST"]}
  /\ UNCHANGED client

\* A data server lets a write start.
ServeWriteRequest(m) ==
  /\ ~aborted
  /\ m \in net /\ m.kind = "PFS_W_REQ"
  /\ net' = (net \ {m}) \cup {[m EXCEPT !.kind = "PFS_W_RESP"]}
  /\ UNCHANGED <<client, moved>>

\* A data server writes a packet of data, and answers the last one.
ServeWriteData(m) ==
  /\ ~aborted
  /\ m \in net /\ m.kind \in {"PFS_W_DATA", "PFS_W_DATA_LAST"}
  /\ \A n \in Earlier(m, "PFS_W_DATA") : n.id >= m.id
  /\ Transferred(m)
  /\ net' = (net \ {m}) \cup (IF m.kind = "PFS_W_DATA" THEN {}
                              ELSE {[m EXCEPT !.kind = "PFS_W_FIN"]})
  /\ UNCHANGED client

ClientStep ==
  \E m \in net : \/ HandleMetadataPacketResponse(m)
                 \/ HandleWriteResponse(m)
                 \/ HandleReadData(m)
                 \/ HandleLastDataPacket(m)

ServerStep ==
  \E m \in net : \/ HandleMetadataPacket(m)
                 \/ ServeRead(m)
                 \/ ServeWriteRequest(m)
                 \/ ServeWriteData(m)

Next ==
  /\ \/ \E f \in config.files, o \in config.offsets, s \in config.lengths, read \in BOOLEAN :
          HandleNewTrace(f, o, s, read)
     \/ ClientStep
     \/ ServerStep
  /\ UNCHANGED config

Spec == Init /\ [][Next]_vars

\* The client can handle a packet.
ClientReady ==
  /\ ~aborted
  /\ \E m \in net :
       \/ m.kind \in {"LAYOUT_RESP", "PFS_W_RESP", "PFS_R_DATA", "PFS_W_FIN"}
       \/ m.kind = "PFS_R_DATA_LAST" /\ Earlier(m, "PFS_R_DATA") = {}

\* Every packet is delivered and handled.  Whether the application issues another
\* request is left open.  (The first conjunct is WF_vars(ClientStep), with
\* ClientReady for ENABLED ClientStep, which TLC is slow to evaluate.)
FairSpec == /\ Spec
            /\ []<>~ClientReady \/ []<><<ClientStep>>_vars
            /\ WF_vars(ServerStep /\ UNCHANGED config)

-----------------------------------------------------------------------------

TypeOK ==
  /\ pfsFiles \in [Files -> {"unknown", "queried", "set"}]
  /\ requestID \in Nat
  /\ aborted \in BOOLEAN
  /\ answers \in [Requests -> Nat]
  /\ \A k \in DOMAIN traces : traces[k].ID \in DOMAIN issued

\* The places that requests may be about.
Requested ==
  UNION {{PlacesOf(f, o, s) : f \in c.files, o \in c.offsets, s \in c.lengths} :
         c \in Configurations}

(***************************************************************************)
(* The client implements striped I/O.                                      *)
(***************************************************************************)
IO == INSTANCE StripedIO WITH
        Extents <- Requested,
        wanted  <- issued

\* Of a request of one window, whatever the striping and the offset, and of one of
\* any number of windows if a window is a number of whole rounds, the packets the
\* client cuts it into make the servers transfer the places its bytes are at, each
\* exactly once, and the application is answered once, when that is done.  (With
\* other windows it is not so: MovesNothingUnwanted.)
TransfersExactly == IO!Spec

\* "<- unwanted ->|<- finished ->|<--transmitting->|<- not sent yet ->|<- unwanted ->"
\* (the process of the transmission, WindowBasedTrace.h): what is before the offset of
\* the request or beyond its total size is not transferred.
MovesNothingUnwanted ==
  \A r \in DOMAIN issued : BagToSet(moved[r]) \subseteq issued[r]

\* Is another unfinished request about the file of request r?
Shares(r) ==
  \E j, k \in DOMAIN traces :
    j # k /\ traces[j].ID = r /\ traces[k].pfsFileID = traces[j].pfsFileID

\* And it is answered at last, unless another open request is about the same file
\* at some time (StartsAllTraces).
AnswersAll == \A r \in Requests : <>Shares(r) \/ (r \in Open ~> r \notin Open)

DataPackets == {m \in net : m.kind \notin {"LAYOUT_REQ", "LAYOUT_RESP"}}

\* Proxies and data servers recognise the packets of one exchange by their
\* identifier rounded down to RID_OFFSET.  The counter is restarted before it reaches
\* CID_OFFSET, and the data packets of a write count upwards from it; still two
\* exchanges of one request never share an identifier, and when one request is open
\* at a time no two exchanges do, the late packets of earlier requests included.
\* (With several requests open nothing in the code keeps the restarted counter from
\* the identifiers of another request's open exchange, and it does meet them.)
IdsTellExchangesApart ==
  \A m, n \in DataPackets :
    /\ m.id \div RidOffset = n.id \div RidOffset
    /\ m.SubID = n.SubID \/ config.flows = 1
    => m.SubID = n.SubID /\ m.server = n.server

\* As long as a trace waits for an answer one is on its way, and there is no answer
\* that a slot of its window does not wait for; so the handlers never meet a packet
\* they cannot place: no trace, no request in appRequestQ, or a trace whose layout
\* pointer was never set.
WindowMatchesPackets ==
  /\ TypeOK
  /\ ~aborted
  /\ \A k \in DOMAIN traces : \A i \in Servers(traces[k].pfsFileID) :
       traces[k].dataSizeInWindow[i] = SW_SENT <=>
         \E m \in DataPackets : m.SubID = traces[k].ID /\ m.server = i

\* "There may be multiple traces accessing the same PFS file waiting to be started.
\* So do a loop to check all" (generateDataPacketRequests): once the layout is
\* known no trace on the file is left with packets it did not send.
StartsAllTraces ==
  \A k \in DOMAIN traces :
    pfsFiles[traces[k].pfsFileID] = "set" => Unsent(traces[k]) = {}
=============================================================================
