-------------------------------- MODULE DTA --------------------------------
(***************************************************************************)
(* scheduler/DTA: one proxy schedules the sub-requests that a client's     *)
(* request has at several servers.  A sub-request waits in the queue by    *)
(* deadline of its server, and also in the server's queue of lagged        *)
(* sub-requests once few enough of its request are left; it is dispatched  *)
(* from either, and what is left of it in the other is taken out later.    *)
(*                                                                         *)
(* A parameter record p has servers, 0 .. dsNum - 1; degree; delay, of     *)
(* each application; and lag, p_lag in tenths.  Whether a request is near  *)
(* its deadline depends on averages of service times and is left open.     *)
(***************************************************************************)
EXTENDS Integers, Sequences, FiniteSets, SequencesExt

EDF == INSTANCE EDFQueue

NoSubreq == -1

\* reqList, waitingSubreqs and dispatchedSubreqs, and for each server its degree, edfQ
\* and lrQ.  waiting_ctr is never read and left out.
Initial(p) ==
  [reqs |-> <<>>, waiting |-> {}, dispatched |-> {},
   degrees |-> [s \in p.servers |-> 0],
   edf |-> [s \in p.servers |-> <<>>], lr |-> [s \in p.servers |-> <<>>]]

\* Mutant of Refined: nothing is taken out.
RefinedNot(waitQ, waiting) == waitQ

\* refineWaitQ: what does not wait any more is taken out.
Refined(waitQ, waiting) == SelectSeq(waitQ, LAMBDA job : job \in waiting)

\* The loops of tryToDispatch stop at the first that waits.
FromWaiting(waitQ, waiting) ==
  LET k == SelectInSeq(waitQ, LAMBDA job : job \in waiting)
  IN  IF k = 0 THEN <<>> ELSE SubSeq(waitQ, k, Len(waitQ))

\* Few enough sub-requests of the request are neither at a server nor served.
Lagged(p, req) == req.total - req.serving - req.served <= (req.total * p.lag) \div 10

RequestOf(p, q, job) ==
  IF job.request \in DOMAIN q.reqs THEN q.reqs[job.request]
  ELSE [total |-> job.total, serving |-> 0, served |-> 0,
        slots |-> [s \in p.servers |-> NoSubreq]]

With(reqs, id, req) == [i \in DOMAIN reqs \cup {id} |-> IF i = id THEN req ELSE reqs[i]]

\* pushWaitQ.  A lagged sub-request also keeps its slot.
Pushed(p, q, job) ==
  LET s   == job.server
      req == [RequestOf(p, q, job) EXCEPT !.slots[s] = job.id]
  IN  [q EXCEPT !.reqs = With(@, job.request, req),
                !.edf[s] = EDF!InsertedByDeadline(Refined(@, q.waiting), job, p.delay),
                !.waiting = @ \cup {job},
                !.lr[s] = IF Lagged(p, req) THEN Append(@, job) ELSE @]

\* dispatchUpdate: when the request becomes lagged its waiting sub-requests join the
\* queues of lagged ones; their slots are cleared so that this happens once.
Updated(p, q, job) ==
  LET s     == job.server
      req   == [q.reqs[job.request] EXCEPT !.serving = @ + 1, !.slots[s] = NoSubreq]
      rest  == q.waiting \ {job}
      joins == IF Lagged(p, req) THEN {i \in p.servers : req.slots[i] # NoSubreq} ELSE {}
      named(i) == CHOOSE j \in rest : j.id = req.slots[i]
  IN  [q EXCEPT
        !.degrees[s] = @ + 1,
        !.waiting = rest,
        !.dispatched = @ \cup {job},
        !.reqs[job.request] =
           [req EXCEPT !.slots = [i \in p.servers |-> IF i \in joins THEN NoSubreq ELSE @[i]]],
        !.lr = [i \in p.servers |-> IF i \in joins THEN Append(@[i], named(i)) ELSE @[i]]]

\* tryToDispatch at server s, some sub-request of which waits: the outcomes when the
\* first request by deadline is near its deadline, and when it is not.
TriedToDispatch(p, q, s) ==
  LET edf    == FromWaiting(q.edf[s], q.waiting)
      lr     == FromWaiting(q.lr[s], q.waiting)
      sent(job, e, l) ==
        [sent |-> <<job>>, queue |-> Updated(p, [q EXCEPT !.edf[s] = e, !.lr[s] = l], job)]
  IN  { sent(Head(edf), Tail(edf), q.lr[s]),
        IF lr = <<>> THEN sent(Head(edf), Tail(edf), <<>>) ELSE sent(Head(lr), edf, Tail(lr)) }

\* dispatchNext looks at a server that has a job in edfQ and a place.
IsOpen(p, q, s) == q.edf[s] # <<>> /\ q.degrees[s] < p.degree /\ p.degree > 0

HasWaiting(q, s) == ToSet(q.edf[s]) \cap q.waiting # {}

\* dispatchNext: the first open server with a sub-request that waits.  The queues by
\* deadline of the open servers before it turn out to hold none and are emptied.
DispatchedNext(p, q) ==
  LET ready   == {s \in p.servers : IsOpen(p, q, s) /\ HasWaiting(q, s)}
      first   == CHOOSE s \in ready : \A r \in ready : s <= r
      cleared == [q EXCEPT !.edf = [s \in p.servers |->
                    IF IsOpen(p, q, s) /\ (ready = {} \/ s < first) THEN <<>> ELSE @[s]]]
  IN  IF ready = {} THEN {[sent |-> <<>>, queue |-> cleared]}
      ELSE TriedToDispatch(p, cleared, first)

\* popOsQ: the request is forgotten with its last sub-request, and so is every trace of
\* the sub-request in the queues of its server, since the proxy deletes the packet.
Popped(p, q, id) ==
  LET job  == CHOOSE j \in q.dispatched : j.id = id
      s    == job.server
      req  == [q.reqs[job.request] EXCEPT !.serving = @ - 1, !.served = @ + 1]
      kept == [i \in DOMAIN q.reqs \ {job.request} |-> q.reqs[i]]
  IN  IF \A j \in q.dispatched : j.id # id THEN q
      ELSE [q EXCEPT
             !.dispatched = @ \ {job},
             !.degrees[s] = @ - 1,
             !.reqs = IF req.served = req.total THEN kept ELSE With(@, job.request, req),
             !.edf[s] = Refined(@, q.waiting),
             !.lr[s]  = Refined(@, q.waiting)]

Outstanding(q) == SetToSeq(q.dispatched)
CouldDispatch(p, q) ==
  \E job \in q.waiting : p.degree > 0 /\ q.degrees[job.server] < p.degree
=============================================================================
