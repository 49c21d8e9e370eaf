-------------------------------- MODULE DSFQ --------------------------------
(***************************************************************************)
(* Several proxies, each with a distributed SFQ scheduler                  *)
(* (scheduler/DSFQ), that tell one another through PROP_SCH messages how   *)
(* much work they took in (DSFQA, DSFQALB, DSFQATB), dispatched (DSFQD) or *)
(* finished (DSFQF).  Every action is one handler of proxy/Proxy.cc, with  *)
(* all the scheduler calls it makes.                                       *)
(***************************************************************************)
EXTENDS SFQQueue, FiniteSets, Sums

CONSTANTS Proxies,       \* the proxies, one scheduler each
          Algorithms,    \* the variants a run may be configured with
          LoadThreshold  \* workload_threshold of DSFQALB

ASSUME DSFQAssumption ==
  /\ Algorithms \subseteq {"DSFQA", "DSFQALB", "DSFQATB", "DSFQD", "DSFQF"}
  /\ LoadThreshold \in Nat \ {0} /\ Degree \in Nat
  /\ Sizes \subseteq Nat /\ Rate \in [Apps -> Nat]
  /\ IsFiniteSet(Proxies)

VARIABLES algorithm,  \* the configured variant, the same for every proxy
          node,       \* per proxy: the scheduler and its pktToPropagate
          channel,    \* channel[p][r]: PROP_SCH packets on their way from p to r
          arrived,    \* requests that have arrived at p; the next one is arrived + 1
          work,       \* history: work counted at p for each application
          own         \* history: how p's own arrivals moved its tags

vars == <<algorithm, node, channel, arrived, work, own>>

NoLengths == [a \in Apps |-> 0]

\* One proxy's part of the state.  active is src >= 0 of pktToPropagate; out
\* holds what the handler that is running has sent.
Node == [sch : Scheduler, lengths : [Apps -> Nat], active : BOOLEAN,
         out : Seq([Apps -> Nat])]

-----------------------------------------------------------------------------
(* The scheduler calls, as operators on a node. *)

\* Add a packet to the lengths that wait to be propagated.
Counted(n, p, activate) ==
  [n EXCEPT !.lengths[p.app] = @ + p.size,
            !.active = @ \/ activate]

\* propagateSPackets: while the pending packet is active, send and reset it.
Propagated(n) ==
  IF n.active
  THEN [n EXCEPT !.out = Append(@, n.lengths),
                 !.lengths = NoLengths,
                 !.active = FALSE]
  ELSE n

\* pushWaitQ of each variant.
NodePush(n, p) ==
  LET m == [n EXCEPT !.sch = Pushed(@, p)]
  IN  CASE algorithm \in {"DSFQA", "DSFQATB"} -> Counted(m, p, TRUE)
        [] algorithm = "DSFQALB" ->
             Counted(m, p, m.lengths[p.app] + p.size >= LoadThreshold)
        [] OTHER -> m

\* Mutant of NodeDispatch: scheduleJobs does not propagate.
NodeDispatchSilent(n, a) ==
  LET m == [n EXCEPT !.sch = Dispatched(@, a)]
  IN  IF algorithm = "DSFQD" THEN Counted(m, Head(n.sch.waitQ[a]).pkt, TRUE) ELSE m

\* dispatchNext of each variant, for application a, and what scheduleJobs does
\* with the packet.
NodeDispatch(n, a) ==
  LET p == Head(n.sch.waitQ[a]).pkt
      m == [n EXCEPT !.sch = Dispatched(@, a)]
  IN  IF algorithm = "DSFQD" THEN Propagated(Counted(m, p, TRUE)) ELSE m

\* popOsQ of each variant.
NodePop(n, k) ==
  LET p == n.sch.osQ[k].pkt
      m == [n EXCEPT !.sch = Popped(@, k)]
  IN  IF algorithm = "DSFQF" THEN Counted(m, p, TRUE) ELSE m

\* scheduleJobs: dispatchNext until it returns NULL, at most Degree times.
ScheduleJobs(n) ==
  LET run[i \in 0 .. Degree] ==
        IF i = 0 THEN n
        ELSE IF \E a \in Apps : CanDispatch(run[i-1].sch, a)
             THEN NodeDispatch(run[i-1],
                               CHOOSE a \in Apps : CanDispatch(run[i-1].sch, a))
             ELSE run[i-1]
  IN  run[Degree]

\* receiveSPacket_InsertBack (DSFQA and its variants, and DSFQD) prolongs the
\* last job of the queue, receiveSPacket_InsertFront (DSFQF) delays the first.
ProlongLast(jobs, charge) == [jobs EXCEPT ![Len(jobs)].ftag = @ + charge]
DelayFirst(jobs, charge)  == [jobs EXCEPT ![1].stag = @ + charge,
                                          ![1].ftag = @ + charge]

\* A drained queue is delayed through the finish tag it left behind.
Received(q, lengths) ==
  [q EXCEPT
     !.maxftags = [a \in Apps |->
        IF Backlogged(q, a) THEN q.maxftags[a]
        ELSE q.maxftags[a] + Charge(a, lengths[a])],
     !.waitQ = [a \in Apps |->
        IF ~Backlogged(q, a) THEN <<>>
        ELSE IF algorithm = "DSFQF"
        THEN DelayFirst(q.waitQ[a], Charge(a, lengths[a]))
        ELSE ProlongLast(q.waitQ[a], Charge(a, lengths[a]))]]

-----------------------------------------------------------------------------
(* Where the tags of an application end: the finish tag its next packet would
   start from, counted along the queue as dispatchNext will rewrite it. *)
Durations(q, a) ==
  Total([k \in DOMAIN q.waitQ[a] |-> q.waitQ[a][k].ftag - q.waitQ[a][k].stag],
        Len(q.waitQ[a]))

EndTag(q, a) == IF Backlogged(q, a) THEN FrontTag(q, a) + Durations(q, a)
                ELSE q.maxftags[a]

\* What a node counts when it handles a packet.
CountsPush     == algorithm \in {"DSFQA", "DSFQALB", "DSFQATB"}
CountsDispatch == algorithm = "DSFQD"
CountsPop      == algorithm = "DSFQF"

OutstandingSize(q, a) ==
  Total([k \in DOMAIN q.osQ |->
           IF q.osQ[k].pkt.app = a THEN q.osQ[k].pkt.size ELSE 0],
        Len(q.osQ))

-----------------------------------------------------------------------------
Init ==
  /\ algorithm \in Algorithms
  /\ node = [p \in Proxies |-> [sch |-> EmptyScheduler, lengths |-> NoLengths,
                                active |-> FALSE, out |-> <<>>]]
  /\ channel = [p \in Proxies |-> [r \in Proxies |-> <<>>]]
  /\ arrived = [p \in Proxies |-> 0]
  /\ work = [p \in Proxies |-> NoLengths]
  /\ own = [p \in Proxies |-> NoLengths]

\* A handler of proxy p ends with node n: Routing copies each PROP_SCH packet it
\* sent to every other proxy.
Finish(p, n) ==
  /\ node' = [node EXCEPT ![p] = [n EXCEPT !.out = <<>>]]
  /\ channel' = [channel EXCEPT ![p] =
                   [r \in Proxies |-> IF r = p THEN @[r] ELSE @[r] \o n.out]]
  /\ UNCHANGED algorithm

\* handleJobReq2: a request arrives at proxy p.  Ids bounds how many do.
HandleJobReq2(p, app, size) ==
  LET pkt == [id |-> arrived[p] + 1, app |-> app, size |-> size]
      pushed == NodePush(node[p], pkt)
      n == ScheduleJobs(IF algorithm \in {"DSFQA", "DSFQALB"}
                        THEN Propagated(pushed) ELSE pushed)
  IN  /\ pkt.id \in Ids
      /\ arrived' = [arrived EXCEPT ![p] = @ + 1]
      /\ Finish(p, n)
      /\ work' = [work EXCEPT ![p] = [a \in Apps |->
           @[a] + (IF CountsPush THEN IF a = pkt.app THEN pkt.size ELSE 0
                   ELSE IF CountsDispatch
                   THEN OutstandingSize(n.sch, a) - OutstandingSize(node[p].sch, a)
                   ELSE 0)]]
      /\ own' = [own EXCEPT ![p][pkt.app] =
           @ + (EndTag(pushed.sch, pkt.app) - EndTag(node[p].sch, pkt.app))]

\* handleReadLastWriteFin2: a data server has finished a request of proxy p.
HandleReadLastWriteFin2(p, id) ==
  \E k \in DOMAIN node[p].sch.osQ :
    LET popped == NodePop(node[p], k)
        n == ScheduleJobs(IF algorithm = "DSFQF" THEN Propagated(popped) ELSE popped)
        done == node[p].sch.osQ[k].pkt
    IN  /\ IsFirstMatch(node[p].sch, id, k)
        /\ Finish(p, n)
        /\ work' = [work EXCEPT ![p] = [a \in Apps |->
             @[a] + (IF CountsPop THEN IF a = done.app THEN done.size ELSE 0
                     ELSE IF CountsDispatch
                     THEN OutstandingSize(n.sch, a) - OutstandingSize(popped.sch, a)
                     ELSE 0)]]
        /\ UNCHANGED <<arrived, own>>

\* handleInterSchedulerPacket: proxy r receives a PROP_SCH packet of proxy p.
HandleInterSchedulerPacket(p, r) ==
  /\ channel[p][r] # <<>>
  /\ node' = [node EXCEPT ![r].sch = Received(@, Head(channel[p][r]))]
  /\ channel' = [channel EXCEPT ![p][r] = Tail(@)]
  /\ UNCHANGED <<algorithm, arrived, work, own>>

\* handleAlgorithmTimer: the propagation timer of DSFQATB, always set again.
HandleAlgorithmTimer(p) ==
  /\ algorithm = "DSFQATB"
  /\ Finish(p, Propagated(node[p]))
  /\ UNCHANGED <<arrived, work, own>>

Next ==
  \/ \E p \in Proxies, a \in Apps, s \in Sizes : HandleJobReq2(p, a, s)
  \/ \E p \in Proxies, id \in Ids : HandleReadLastWriteFin2(p, id)
  \/ \E p, r \in Proxies : HandleInterSchedulerPacket(p, r)
  \/ \E p \in Proxies : HandleAlgorithmTimer(p)

Spec == Init /\ [][Next]_vars

-----------------------------------------------------------------------------

TypeOK ==
  /\ algorithm \in Algorithms
  /\ node \in [Proxies -> Node]
  /\ \A p \in Proxies : node[p].out = <<>>
  /\ channel \in [Proxies -> [Proxies -> Seq([Apps -> Nat])]]
  /\ arrived \in [Proxies -> Nat]
  /\ work \in [Proxies -> [Apps -> Nat]]
  /\ own \in [Proxies -> [Apps -> Nat]]

\* Work of p on application a that r has not been told of yet.
InFlight(p, r, a) ==
  Total([k \in DOMAIN channel[p][r] |-> channel[p][r][k][a]], Len(channel[p][r]))

Unheard(p, r, a) == node[p].lengths[a] + InFlight(p, r, a)

\* The proxies in some order, to sum over them.
Order == SetToSeq(Proxies)

\* Work of p on application a that has reached r.
Heard(p, r, a) == IF p = r THEN 0 ELSE work[p][a] - Unheard(p, r, a)

RemoteWork(r, a) ==
  Total([i \in DOMAIN Order |-> Heard(Order[i], r, a)], Len(Order))

\* Conservation: the tags of every scheduler account for its own arrivals and for
\* exactly the work that the others have counted and that has reached it: no
\* PROP_SCH length is lost, counted twice or wiped out when dispatchNext rewrites
\* tags, in whichever order pushes, dispatches and messages interleave.
TagsAccountForWork ==
  /\ TypeOK
  /\ \A r \in Proxies, a \in Apps :
       EndTag(node[r].sch, a) = own[r][a] + Rate[a] * RemoteWork(r, a)

\* The delays inserted by the other schedulers never pull a front start tag below
\* the virtual time, so that no work is charged for time that is over.
FrontsNotBehind ==
  \A p \in Proxies, a \in Apps :
    Backlogged(node[p].sch, a) => FrontTag(node[p].sch, a) >= node[p].sch.vtime

\* The virtual time, which dispatchNext overwrites with the start tag of the job it
\* picks, never goes back, whatever delays others insert before, between and after the
\* pushes and dispatches of a proxy, and whether its queues were drained or not.
VtimeMonotone == [][\A p \in Proxies : node'[p].sch.vtime >= node[p].sch.vtime]_vars

\* How stale the others may be: DSFQA, DSFQD and DSFQF never end a handler with
\* work they have not propagated, DSFQALB only with less than the threshold, and
\* DSFQATB only with work that the next timer will propagate.
BoundedStaleness ==
  \A p \in Proxies, a \in Apps :
    /\ algorithm \in {"DSFQA", "DSFQD", "DSFQF"} => node[p].lengths[a] = 0
    /\ algorithm = "DSFQALB" => node[p].lengths[a] < LoadThreshold
    /\ algorithm = "DSFQATB" => (node[p].lengths[a] > 0 => node[p].active)

=============================================================================
