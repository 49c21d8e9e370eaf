--------------------------- MODULE SFQQueueLemmas ---------------------------
(***************************************************************************)
(* What the operations of a start-time fair queueing scheduler do to its   *)
(* fields, for the proofs about SFQ and its distributed variants.          *)
(***************************************************************************)
EXTENDS SFQQueue, TLAPS

\* Rewriting an element of a sequence with itself changes nothing.
LEMMA ExceptSame ==
  ASSUME NEW S, NEW s \in Seq(S), NEW i \in DOMAIN s
  PROVE  [s EXCEPT ![i] = s[i]] = s
<1>1. s = [k \in DOMAIN s |-> s[k]]
  OBVIOUS
<1>2. [s EXCEPT ![i] = s[i]] = [k \in DOMAIN s |-> IF k = i THEN s[i] ELSE s[k]]
  BY <1>1
<1>3. \A k \in DOMAIN s : (IF k = i THEN s[i] ELSE s[k]) = s[k]
  OBVIOUS
<1>4. QED
  BY <1>1, <1>2, <1>3, Zenon

\* The elements of a tail.
LEMMA TailElements ==
  ASSUME NEW S, NEW s \in Seq(S), s # <<>>
  PROVE  /\ Tail(s) \in Seq(S)
         /\ Len(Tail(s)) = Len(s) - 1
         /\ \A k \in DOMAIN Tail(s) : k + 1 \in DOMAIN s /\ Tail(s)[k] = s[k+1]
OBVIOUS

\* A charge is a natural number within MaxCharge.
LEMMA ChargeInWindow ==
  ASSUME NEW a \in Apps, NEW s \in Sizes
  PROVE  Charge(a, s) \in Nat /\ Charge(a, s) <= MaxCharge /\ MaxCharge \in Nat
BY ChargeAssumption

\* The job made for an arriving packet.
LEMMA NewJobType ==
  ASSUME NEW s \in Scheduler, NEW p \in Packet
  PROVE  /\ ArrivalTag(s, p.app) \in Nat
         /\ NewJob(s, p) \in Job
         /\ NewJob(s, p).pkt = p
         /\ NewJob(s, p).stag = ArrivalTag(s, p.app)
         /\ NewJob(s, p).ftag = ArrivalTag(s, p.app) + Charge(p.app, p.size)
<1> DEFINE w == s.waitQ[p.app]
<1>1. p.app \in Apps /\ p.size \in Sizes
  BY DEF Packet
<1>2. w \in Seq(Job) /\ s.maxftags[p.app] \in Nat /\ s.vtime \in Nat
  BY <1>1 DEF Scheduler
<1>3. ASSUME w # <<>>
      PROVE  w[Len(w)] \in Job
  BY <1>2, <1>3
<1>4. ArrivalTag(s, p.app) \in Nat
  BY <1>2, <1>3 DEF ArrivalTag, Backlogged, Job
<1>5. QED
  BY <1>1, <1>4, ChargeInWindow DEF NewJob, Job

\* The front of a backlogged queue.
LEMMA FrontIsJob ==
  ASSUME NEW s \in Scheduler, NEW a \in Apps, Backlogged(s, a)
  PROVE  /\ s.waitQ[a] \in Seq(Job)
         /\ 1 \in DOMAIN s.waitQ[a]
         /\ s.waitQ[a][1] \in Job
         /\ FrontTag(s, a) \in Nat
<1>1. s.waitQ[a] \in Seq(Job) /\ s.waitQ[a] # <<>>
  BY DEF Scheduler, Backlogged
<1>2. 1 \in DOMAIN s.waitQ[a] /\ s.waitQ[a][1] \in Job
  BY <1>1
<1>3. QED
  BY <1>1, <1>2 DEF FrontTag, Job

\* A push appends one job to one queue and touches nothing else.
LEMMA PushEffect ==
  ASSUME NEW s \in Scheduler, NEW p \in Packet
  PROVE  /\ Pushed(s, p) \in Scheduler
         /\ Pushed(s, p).waitQ = [s.waitQ EXCEPT ![p.app] =
                                    Append(s.waitQ[p.app], NewJob(s, p))]
         /\ Pushed(s, p).vtime = s.vtime
         /\ Pushed(s, p).maxftags = s.maxftags
         /\ Pushed(s, p).osQ = s.osQ
<1> DEFINE a == p.app
           jobs == Append(s.waitQ[a], NewJob(s, p))
<1>1. a \in Apps
  BY DEF Packet
<1>2. s.waitQ \in [Apps -> Seq(Job)]
  BY DEF Scheduler
<1>3. jobs \in Seq(Job)
  BY <1>1, <1>2, NewJobType
<1>4. [s.waitQ EXCEPT ![a] = jobs] \in [Apps -> Seq(Job)]
  BY <1>1, <1>2, <1>3
<1>5. Pushed(s, p) = [s EXCEPT !.waitQ = [s.waitQ EXCEPT ![a] = jobs]]
  BY <1>1, <1>2 DEF Pushed, Scheduler
<1>6. Pushed(s, p).waitQ = [s.waitQ EXCEPT ![a] = jobs]
  BY <1>5 DEF Scheduler
<1> HIDE DEF jobs
<1>7. /\ Pushed(s, p) \in Scheduler
      /\ Pushed(s, p).vtime = s.vtime
      /\ Pushed(s, p).maxftags = s.maxftags
      /\ Pushed(s, p).osQ = s.osQ
  BY <1>4, <1>5 DEF Scheduler
<1>8. QED
  BY <1>6, <1>7 DEF jobs

\* A pop leaves the waiting queues and the tags alone.
LEMMA PopEffect ==
  ASSUME NEW s \in Scheduler, NEW k \in DOMAIN s.osQ
  PROVE  /\ Popped(s, k) \in Scheduler
         /\ Popped(s, k).waitQ = s.waitQ
         /\ Popped(s, k).vtime = s.vtime
         /\ Popped(s, k).maxftags = s.maxftags
<1>1. s.osQ \in Seq(Job) /\ k \in 1 .. Len(s.osQ)
  BY DEF Scheduler
<1>2. RemoveAt(s.osQ, k) \in Seq(Job)
  <2>1. SubSeq(s.osQ, 1, k-1) \in Seq(Job)
    BY <1>1
  <2>2. SubSeq(s.osQ, k+1, Len(s.osQ)) \in Seq(Job)
    BY <1>1
  <2>3. QED
    BY <2>1, <2>2 DEF RemoveAt
<1>3. QED
  BY <1>2 DEF Popped, Scheduler

\* The new front of a queue, after its old front was dispatched.
LEMMA RetaggedType ==
  ASSUME NEW j \in Job, NEW n \in Job, n.ftag >= n.stag
  PROVE  /\ Retagged(j, n) \in Job
         /\ Retagged(j, n).pkt = n.pkt
         /\ Retagged(j, n).stag = j.ftag
         /\ Retagged(j, n).ftag = n.ftag + (j.ftag - n.stag)
BY DEF Retagged, Job

\* A dispatch, split by whether it drains the queue.
LEMMA DispatchEffect ==
  ASSUME NEW s \in Scheduler, NEW a \in Apps, Backlogged(s, a),
         \A k \in DOMAIN s.waitQ[a] : s.waitQ[a][k].ftag >= s.waitQ[a][k].stag
  PROVE  LET job  == s.waitQ[a][1]
             rest == Tail(s.waitQ[a])
             d    == Dispatched(s, a)
         IN  /\ d \in Scheduler
             /\ job \in Job
             /\ d.vtime = job.stag
             /\ rest = <<>> =>
                  /\ d.waitQ = [s.waitQ EXCEPT ![a] = <<>>]
                  /\ d.maxftags = [s.maxftags EXCEPT ![a] = job.ftag]
             /\ rest # <<>> =>
                  /\ d.waitQ = [s.waitQ EXCEPT ![a] =
                                  [rest EXCEPT ![1] = Retagged(job, rest[1])]]
                  /\ d.maxftags = s.maxftags
                  /\ rest[1] = s.waitQ[a][2]
                  /\ Retagged(job, rest[1]) \in Job
<1> DEFINE w    == s.waitQ[a]
           job  == w[1]
           rest == Tail(w)
           d    == Dispatched(s, a)
           more == [rest EXCEPT ![1] = Retagged(job, rest[1])]
<1>1. /\ s.waitQ \in [Apps -> Seq(Job)]
      /\ s.osQ \in Seq(Job)
      /\ s.maxftags \in [Apps -> Nat]
      /\ s.vtime \in Nat
  BY DEF Scheduler
<1>2. w \in Seq(Job) /\ w # <<>> /\ Head(w) = job /\ job \in Job
  BY <1>1 DEF Backlogged
<1>3. rest \in Seq(Job)
  BY <1>2
<1>4. ASSUME rest # <<>>
      PROVE  rest[1] = w[2] /\ Retagged(job, rest[1]) \in Job /\ more \in Seq(Job)
  <2>1. rest[1] = w[2] /\ 2 \in DOMAIN w /\ rest[1] \in Job /\ 1 \in DOMAIN rest
    BY <1>2, <1>3, <1>4
  <2>2. Retagged(job, rest[1]) \in Job
    BY <2>1, <1>2, RetaggedType
  <2>3. more \in Seq(Job)
    BY <2>1, <2>2, <1>3
  <2>4. QED
    BY <2>1, <2>2, <2>3
<1>5. Append(s.osQ, job) \in Seq(Job)
  BY <1>1, <1>2
<1>6. (IF a + 1 >= NumApps THEN 0 ELSE a + 1) \in Apps
  BY NumAppsAssumption DEF Apps
<1>7. d.vtime = job.stag /\ d.osQ = Append(s.osQ, job)
  BY <1>2 DEF Dispatched
<1>8. CASE rest = <<>>
  <2>1. /\ d.waitQ = [s.waitQ EXCEPT ![a] = <<>>]
        /\ d.maxftags = [s.maxftags EXCEPT ![a] = job.ftag]
    BY <1>8, <1>2 DEF Dispatched
  <2>2. [s.waitQ EXCEPT ![a] = <<>>] \in [Apps -> Seq(Job)]
    BY <1>1
  <2>3. [s.maxftags EXCEPT ![a] = job.ftag] \in [Apps -> Nat]
    BY <1>1, <1>2 DEF Job
  <2>4. d \in Scheduler
    BY <2>1, <2>2, <2>3, <1>2, <1>5, <1>6, <1>8 DEF Dispatched, Scheduler, Job
  <2>5. QED
    BY <2>1, <2>4, <1>2, <1>7, <1>8
<1>9. CASE rest # <<>>
  <2>1. d.waitQ = [s.waitQ EXCEPT ![a] = more] /\ d.maxftags = s.maxftags
    BY <1>9, <1>2 DEF Dispatched
  <2>2. [s.waitQ EXCEPT ![a] = more] \in [Apps -> Seq(Job)]
    BY <1>1, <1>4, <1>9
  <2>3. d \in Scheduler
    BY <2>1, <2>2, <1>1, <1>2, <1>5, <1>6, <1>9 DEF Dispatched, Scheduler, Job
  <2>4. QED
    BY <2>1, <2>3, <1>2, <1>4, <1>7, <1>9
<1>10. QED
  BY <1>8, <1>9
=============================================================================
