----------------------------- MODULE FIFOQueue -----------------------------
(***************************************************************************)
(* The two lists of the FIFO and EDF schedulers and the operations of the  *)
(* class FIFO on them, as operators from state to state; EDF inherits all  *)
(* but pushWaitQ (EDFQueue).  FIFO is also the queue the client, the data  *)
(* server daemon and the file systems keep their own requests in.  A job   *)
(* is a record with a field id.                                            *)
(***************************************************************************)
EXTENDS Integers, Sequences, SequencesExt

EmptyQueue == [waitQ |-> <<>>, osQ |-> <<>>]

PushedBack(q, job) == [q EXCEPT !.waitQ = Append(@, job)]

\* dispatchNext returns a job rather than NULL.  A negative degree means no
\* degree control.
CanDispatch(q, degree) == /\ q.waitQ # <<>>
                          /\ degree < 0 \/ Len(q.osQ) < degree

Dispatched(q) == [waitQ |-> Tail(q.waitQ), osQ |-> Append(q.osQ, Head(q.waitQ))]

DispatchedNext(q, degree) == IF CanDispatch(q, degree) THEN Dispatched(q) ELSE q

\* How many jobs a caller gets before dispatchNext returns NULL.
Dispatchable(q, degree) ==
  IF degree < 0 THEN Len(q.waitQ)
  ELSE CHOOSE n \in 0 .. Len(q.waitQ) :
         /\ n = 0 \/ Len(q.osQ) + n <= degree
         /\ n = Len(q.waitQ) \/ Len(q.osQ) + n >= degree

\* The queue then.
DispatchedAll(q, degree) ==
  LET n == Dispatchable(q, degree)
  IN  [waitQ |-> SubSeq(q.waitQ, n + 1, Len(q.waitQ)),
       osQ   |-> q.osQ \o SubSeq(q.waitQ, 1, n)]

\* The first position of osQ that holds the identifier, 0 if none does: what
\* popOsQ and queryJob look for.
Position(q, id) == SelectInSeq(q.osQ, LAMBDA job : job.id = id)

IsOutstanding(q, id) == Position(q, id) # 0

Popped(q, id) == IF IsOutstanding(q, id)
                 THEN [q EXCEPT !.osQ = RemoveAt(@, Position(q, id))]
                 ELSE q
=============================================================================
