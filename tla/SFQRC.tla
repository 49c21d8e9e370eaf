------------------------------- MODULE SFQRC -------------------------------
(***************************************************************************)
(* scheduler/SFQRC/SFQRC.cc, as operators from state to state.  Requests   *)
(* that an application's buffer (a token bucket) covers go to the basic    *)
(* queue and are served by deadline.  The others wait in the overflow      *)
(* queue of their application, are served by start tag, and only when the  *)
(* time the server is predicted to need leaves the deadlines of the basic  *)
(* requests, those that may still come included, intact.                   *)
(*                                                                         *)
(* A parameter record p has apps, 0 .. appNum - 1; degree; for each        *)
(* application weight, max, rate (of its buffer), delay and reqSize;       *)
(* readRate, writeRate, seek and step (advanceStep).  p.garbage is what    *)
(* maxftags, never initialised, may hold at the start.  Times are whole    *)
(* numbers, tags are in 1 / p.unit and every quotient is whole.            *)
(***************************************************************************)
EXTENDS Integers, Sequences, SequencesExt

Invalid == -1
NoFile  == -1

\* latestVirtualFinishTime and the two earliest deadlines are computed afresh before
\* each use and are no part of the state.  granted is history: the requests that were
\* taken into the basic class, with the time.
Initial(p) ==
  { [vtime |-> 0, startpos |-> 0, lastFile |-> NoFile, finish |-> Invalid,
     buffer |-> p.max, updated |-> 0, appRead |-> [a \in p.apps |-> TRUE],
     maxftag |-> garbage, basicWaitQ |-> <<>>, basicOsQ |-> <<>>,
     overflowWaitQ |-> [a \in p.apps |-> <<>>], overflowOsQ |-> <<>>,
     granted |-> <<>>] : garbage \in [p.apps -> p.garbage] }

\* A sum over the applications, or over a sequence of jobs.
SumOver(S, f(_)) == FoldSet(LAMBDA x, sum : f(x) + sum, 0, S)
SumOfJobs(s, f(_)) == FoldLeft(LAMBDA sum, x : sum + f(x), 0, s)

\* Mutant of UpdatedBuffers: a buffer grows without limit.
UpdatedBuffersUncapped(p, q, now) ==
  [q EXCEPT !.updated = now,
            !.buffer = [a \in p.apps |-> @[a] + (now - q.updated) * p.rate[a]]]

\* updateBuffers: a buffer may pass its maximum only while the overflow queue is used.
UpdatedBuffers(p, q, now) ==
  LET grown(a) == q.buffer[a] + (now - q.updated) * p.rate[a]
  IN  [q EXCEPT !.updated = now,
                !.buffer = [a \in p.apps |->
                   IF grown(a) > p.max[a] /\ q.overflowWaitQ[a] = <<>>
                   THEN p.max[a] ELSE grown(a)]]

\* updateLatestFinishTime: a prediction that has passed is put off by advanceStep.
UpdatedFinish(p, q, now) ==
  [q EXCEPT !.finish = IF q.basicOsQ = <<>> /\ q.overflowOsQ = <<>> THEN Invalid
                       ELSE IF @ >= 0 /\ @ <= now THEN now + p.step ELSE @]

\* Service that may be asked for before the next overflow request: what the buffers of
\* applications without overflow cover, and the basic requests that wait.
VirtualLoad(p, q) ==
  LET ofBuffer(a) == IF q.appRead[a]
                     THEN q.buffer[a] \div p.readRate
                          + (q.buffer[a] * p.seek) \div p.reqSize[a]
                     ELSE q.buffer[a] \div p.writeRate
      ofJob(job)  == IF job.read THEN job.size \div p.readRate + p.seek
                     ELSE job.size \div p.writeRate
  IN  SumOver({a \in p.apps : q.overflowWaitQ[a] = <<>>}, ofBuffer)
      + SumOfJobs(q.basicWaitQ, ofJob)

VirtualFinish(p, q, now) ==
  (IF q.finish < 0 THEN now ELSE q.finish) + VirtualLoad(p, q)

\* getServiceTime when the file read last is the one given; it makes job's file that.
ServiceTime(p, file, job) ==
  IF ~job.read THEN job.size \div p.writeRate
  ELSE job.size \div p.readRate + IF job.file = file THEN 0 ELSE p.seek
FileAfter(file, job) == IF job.read THEN job.file ELSE file

\* updateLatestFinishTimeWithNewJob, for a job that is in a queue of the server.
WithNewJob(p, q, job, now) ==
  LET u == UpdatedFinish(p, q, now)
  IN  [u EXCEPT !.finish = (IF @ < 0 THEN now ELSE @) + ServiceTime(p, q.lastFile, job),
                !.lastFile = FileAfter(@, job)]

\* updateOverflowQReqTags: what the buffer covers is taken off the first request's tags.
UpdatedTags(p, q) ==
  LET offset(a) == (p.unit * q.buffer[a]) \div p.weight[a]
  IN  [q EXCEPT
        !.overflowWaitQ = [a \in p.apps |->
           IF @[a] = <<>> THEN <<>>
           ELSE [@[a] EXCEPT ![1].stag = @ - offset(a), ![1].ftag = @ - offset(a)]],
        !.buffer = [a \in p.apps |-> IF q.overflowWaitQ[a] = <<>> THEN @[a] ELSE 0]]

\* Mutant of Deadlines: only those of requests that may still come.
DeadlinesVirtual(p, q, now) ==
  {p.delay[a] + now : a \in {b \in p.apps : /\ q.overflowWaitQ[b] = <<>>
                                            /\ q.buffer[b] >= p.reqSize[b]}}

\* updateEarliestDeadline: the deadlines an overflow request must leave intact.
Deadlines(p, q, now) ==
  {q.basicOsQ[k].deadline : k \in DOMAIN q.basicOsQ}
  \cup {p.delay[a] + now : a \in {b \in p.apps : /\ q.overflowWaitQ[b] = <<>>
                                                 /\ q.buffer[b] >= p.reqSize[b]}}

Truncated(p, tag) == IF tag >= 0 THEN (tag \div p.unit) * p.unit
                     ELSE -((-tag \div p.unit) * p.unit)

Cost(p, job) == (p.unit * job.size) \div p.weight[job.app]

\* insertBasicWaitQ: in front of the first job whose deadline is later.
InsertedBasic(waitQ, job) ==
  LET k == SelectInSeq(waitQ, LAMBDA j : j.deadline > job.deadline)
  IN  IF k = 0 THEN Append(waitQ, job) ELSE InsertAt(waitQ, k, job)

\* pushWaitQ.  The last finish tag passes through an int.
Pushed(p, q, job, now) ==
  LET a      == job.app
      u      == UpdatedBuffers(p, [q EXCEPT !.appRead[a] = job.read], now)
      last   == IF u.overflowWaitQ[a] = <<>> THEN u.maxftag[a] ELSE Last(u.overflowWaitQ[a]).ftag
      stag   == IF Truncated(p, last) > u.vtime THEN Truncated(p, last) ELSE u.vtime
      timed  == job @@ [deadline |-> now + p.delay[a]]
      tagged == timed @@ [stag |-> stag, ftag |-> stag + Cost(p, job)]
  IN  IF u.overflowWaitQ[a] = <<>> /\ u.buffer[a] >= job.size
      THEN [u EXCEPT !.basicWaitQ = InsertedBasic(@, timed),
                     !.buffer[a] = @ - job.size,
                     !.granted = Append(@, [app |-> a, size |-> job.size, time |-> now])]
      ELSE [u EXCEPT !.overflowWaitQ[a] = Append(@, tagged)]

\* The order in which dispatchNext looks at the applications.
ScanOrder(p, q) ==
  [k \in 1 .. Cardinality(p.apps) |-> (q.startpos + k - 1) % Cardinality(p.apps)]

\* The overflow queue with the lowest start tag among those whose first request
\* checkGuarantees lets pass, -1 if there is none; and the file read last, which each
\* check changes, whether its request is dispatched or not.
Chosen(p, q, now) ==
  LET finish    == VirtualFinish(p, q, now)
      deadlines == Deadlines(p, q, now)
      front(a)  == Head(q.overflowWaitQ[a])
      Look(found, a) ==
        IF \/ q.overflowWaitQ[a] = <<>>
           \/ found.app >= 0 /\ front(found.app).stag <= front(a).stag
        THEN found
        ELSE [app  |-> IF \A d \in deadlines :
                             finish + ServiceTime(p, found.file, front(a)) < d
                       THEN a ELSE found.app,
              file |-> FileAfter(found.file, front(a))]
  IN  FoldLeft(Look, [app |-> -1, file |-> q.lastFile], ScanOrder(p, q))

DispatchedBasic(p, q, now) ==
  LET job == Head(q.basicWaitQ)
  IN  [sent  |-> <<job>>,
       queue |-> WithNewJob(p, [q EXCEPT !.basicWaitQ = Tail(@),
                                         !.basicOsQ = Append(@, job)], job, now)]

\* dispatchNext from the overflow queue of a; the next request follows its tags.
DispatchedOverflow(p, q, a, now) ==
  LET job  == Head(q.overflowWaitQ[a])
      rest == Tail(q.overflowWaitQ[a])
      next == IF rest = <<>> THEN <<>>
              ELSE [rest EXCEPT ![1].stag = job.ftag,
                                ![1].ftag = job.ftag + Cost(p, Head(rest))]
      gone == [q EXCEPT !.overflowWaitQ[a] = next, !.overflowOsQ = Append(@, job)]
  IN  [sent  |-> <<job>>,
       queue |-> [WithNewJob(p, gone, job, now) EXCEPT
                    !.startpos = (a + 1) % Cardinality(p.apps),
                    !.vtime = job.stag,
                    !.maxftag[a] = IF rest = <<>> THEN job.ftag ELSE @]]

\* dispatchNext: the queue after it, and the job it returns, if any.
DispatchedNext(p, q, now) ==
  IF Len(q.overflowOsQ) >= p.degree THEN [sent |-> <<>>, queue |-> q]
  ELSE IF q.basicWaitQ # <<>> THEN DispatchedBasic(p, q, now)
  ELSE LET u == UpdatedTags(p, UpdatedFinish(p, UpdatedBuffers(p, q, now), now))
           c == Chosen(p, u, now)
           v == [u EXCEPT !.lastFile = c.file]
       IN  IF c.app < 0 THEN [sent |-> <<>>, queue |-> v]
           ELSE DispatchedOverflow(p, v, c.app, now)

\* popOsQ: from the basic requests at the server, else from the others.
Popped(p, q, id, now) ==
  LET has(job)  == job.id = id
      basic     == SelectInSeq(q.basicOsQ, has)
      overflow  == SelectInSeq(q.overflowOsQ, has)
  IN  IF basic # 0
      THEN UpdatedFinish(p, [q EXCEPT !.basicOsQ = RemoveAt(@, basic)], now)
      ELSE IF overflow # 0
      THEN UpdatedFinish(p, [q EXCEPT !.overflowOsQ = RemoveAt(@, overflow)], now)
      ELSE q

\* The jobs at the server, and whether one that waits could go there at once.
Outstanding(q) == q.basicOsQ \o q.overflowOsQ
CouldDispatch(p, q) == q.basicWaitQ # <<>> /\ Len(q.overflowOsQ) < p.degree
=============================================================================
