------------------------------ MODULE EDFQueue ------------------------------
(***************************************************************************)
(* scheduler/EDF: a FIFO whose waitQ is kept by deadline.  The deadline of *)
(* a job is the time at which its trace request rose plus the QoSDelay of  *)
(* its application; delay is the function from applications to QoSDelay.   *)
(***************************************************************************)
EXTENDS FIFOQueue

Deadline(delay, job) == job.rise + delay[job.app]

\* Mutant of InsertedByDeadline: in front of its equals.
InsertedBeforeEquals(waitQ, job, delay) ==
  LET k == SelectInSeq(waitQ, LAMBDA j : Deadline(delay, job) <= Deadline(delay, j))
  IN  IF k = 0 THEN Append(waitQ, job) ELSE InsertAt(waitQ, k, job)

\* pushWaitQ: in front of the first job whose deadline is later.
InsertedByDeadline(waitQ, job, delay) ==
  LET k == SelectInSeq(waitQ, LAMBDA j : Deadline(delay, job) < Deadline(delay, j))
  IN  IF k = 0 THEN Append(waitQ, job) ELSE InsertAt(waitQ, k, job)

PushedByDeadline(q, job, delay) ==
  [q EXCEPT !.waitQ = InsertedByDeadline(@, job, delay)]

\* getNumReqsInWaitQWithinDeadline(time) is not 0: the first job's deadline is past.
SomeDeadlinePassed(q, delay, time) ==
  q.waitQ # <<>> /\ Deadline(delay, Head(q.waitQ)) < time
=============================================================================
