-------------------------------- MODULE SFQ --------------------------------
(***************************************************************************)
(* One SFQ scheduler (scheduler/SFQ/SFQ.cc), seen at the granularity of    *)
(* the methods of its class: pushWaitQ, dispatchNext and popOsQ, in any    *)
(* order a caller may choose.  The caller pushes packets with identifiers  *)
(* the scheduler does not hold and pops jobs that are outstanding, in any  *)
(* order, as the data servers complete them.                               *)
(***************************************************************************)
EXTENDS SFQQueue

VARIABLE q        \* the scheduler

Init == q = EmptyScheduler

PushWaitQ(p) ==
  /\ p.id \notin WaitingIds(q) \cup OutstandingIds(q)
  /\ q' = Pushed(q, p)

DispatchNext(a) ==
  /\ CanDispatch(q, a)
  /\ q' = Dispatched(q, a)

PopOsQ(id) ==
  \E k \in DOMAIN q.osQ : IsFirstMatch(q, id, k) /\ q' = Popped(q, k)

Next == \/ \E p \in Packet : PushWaitQ(p)
        \/ \E a \in Apps   : DispatchNext(a)
        \/ \E id \in Ids   : PopOsQ(id)

Spec == Init /\ [][Next]_q

-----------------------------------------------------------------------------

\* The scheduler state is well formed.
TypeOK == q \in Scheduler

\* Start-time fair queueing's bound on how far an application can be ahead of
\* or behind the virtual time: the front of every backlogged queue starts at or
\* after vtime, and no later than what one packet can cost after it.  An
\* application that was idle therefore gains no credit (pushWaitQ takes the
\* maximum of maxftags and vtime) and is charged for no more than its last job.
TagWindow ==
  \A a \in Apps : Backlogged(q, a) =>
    /\ q.vtime <= FrontTag(q, a)
    /\ FrontTag(q, a) <= q.vtime + MaxCharge

\* The tags of an application's waiting jobs are back to back: each job starts
\* where the one before it finishes, although dispatchNext rewrites the tags of
\* the new front every time.
TagChain ==
  \A a \in Apps : \A k \in 1 .. Len(q.waitQ[a]) - 1 :
    q.waitQ[a][k+1].stag = q.waitQ[a][k].ftag

\* The virtual time, which dispatchNext overwrites with the start tag of the
\* job it picks, never goes back.
VtimeMonotone == [][q'.vtime >= q.vtime]_q

(***************************************************************************)
(* SFQ keeps the promise of IQueue: its tags are one way of choosing.      *)
(***************************************************************************)
PktIds(jobs) == [k \in DOMAIN jobs |-> jobs[k].pkt.id]

JQ == INSTANCE JobQueue WITH
        waiting     <- [a \in Apps |-> PktIds(q.waitQ[a])],
        outstanding <- OutstandingIds(q)
=============================================================================
